------------------------ MODULE SecurityConfigProofs ------------------------
(***************************************************************************)
(* Proofs about SecurityConfig, for lists of any length and any keys: the  *)
(* raw parsers of the entry check find in a live account exactly the lists *)
(* the last instruction wrote, however long the lists before were.         *)
(***************************************************************************)
EXTENDS SecurityConfig, Integers, TLAPS

\* A list of keys is a sequence, as long as its domain.
LEMMA KeyListLen ==
  ASSUME NEW n \in Nat, NEW ps \in [1..n -> Keys]
  PROVE  ps \in Seq(Keys) /\ Len(ps) = n /\ DOMAIN ps = 1..Len(ps)
  OBVIOUS

LEMMA KeyListType ==
  ASSUME NEW max \in Nat, NEW ps \in KeyLists(max)
  PROVE  /\ Len(ps) \in 0..max
         /\ ps \in [1..Len(ps) -> Keys]
         /\ DOMAIN ps = 1..Len(ps)
<1>1. PICK n \in 0..max : ps \in [1..n -> Keys]
  BY DEF KeyLists
<1> QED
  BY <1>1, KeyListLen

\* The lengths the instructions accept.
LEMMA AcceptedLists ==
  ASSUME NEW ps \in KeyLists(MAX_ALLOWED_POOLS + 1), NEW fs \in KeyLists(MAX_FEE_OWNERS + 1),
         ListsError(ps, fs) = "none"
  PROVE  /\ Len(ps) \in 1..MAX_ALLOWED_POOLS /\ ps \in [1..Len(ps) -> Keys]
         /\ Len(fs) \in 0..MAX_FEE_OWNERS /\ fs \in [1..Len(fs) -> Keys]
<1>1. MAX_ALLOWED_POOLS + 1 \in Nat /\ MAX_FEE_OWNERS + 1 \in Nat
  BY ConfigAssumption
<1> QED
  BY <1>1, KeyListType, ConfigAssumption DEF ListsError

\* What Borsh wrote, cell by cell.
LEMMA SerializeCells ==
  ASSUME NEW old \in [1..SIZE -> Cells], NEW a \in Keys,
         NEW n \in 1..MAX_ALLOWED_POOLS, NEW m \in 0..MAX_FEE_OWNERS,
         NEW ps \in [1..n -> Keys], NEW fs \in [1..m -> Keys]
  PROVE  LET d == Serialize(old, a, ps, fs) IN
         /\ d \in [1..SIZE -> Cells]
         /\ d[AuthorityAt] = a /\ d[PoolsLenAt] = n
         /\ \A i \in 0..(n - 1) : d[PoolsStart + i] = ps[i + 1]
         /\ d[FeeLenAt(n)] = m
         /\ \A i \in 0..(m - 1) : d[FeeStart(n) + i] = fs[i + 1]
<1> DEFINE d == Serialize(old, a, ps, fs)
<1>1. Len(ps) = n /\ Len(fs) = m
  BY KeyListLen
<1>2. d = [i \in 1..SIZE |->
             IF i = 1 THEN Disc
             ELSE IF i = 2 THEN a
             ELSE IF i = 3 THEN n
             ELSE IF i < 4 + n THEN ps[i - 3]
             ELSE IF i = 4 + n THEN m
             ELSE IF i < 5 + n + m THEN fs[i - (4 + n)]
             ELSE old[i]]
  BY <1>1 DEF Serialize, AuthorityAt, PoolsLenAt, PoolsStart, FeeLenAt, FeeStart
<1>3. SIZE = 4 + MAX_ALLOWED_POOLS + MAX_FEE_OWNERS
  BY ConfigAssumption DEF SIZE
<1>4. MAX_ALLOWED_POOLS \in Nat /\ MAX_FEE_OWNERS \in Nat
  BY ConfigAssumption
<1>5. \A i \in 1..SIZE : d[i] \in Cells
  <2> TAKE i \in 1..SIZE
  <2>1. i \in Int /\ n \in Int /\ m \in Int
    BY <1>3, <1>4
  <2>2. CASE i < 4 + n /\ i > 3
    <3>1. ps[i - 3] \in Keys
      BY <2>1, <2>2
    <3> QED
      BY <1>2, <2>1, <2>2, <3>1 DEF Cells
  <2>3. CASE i > 4 + n /\ i < 5 + n + m
    <3>1. fs[i - (4 + n)] \in Keys
      BY <2>1, <2>3
    <3> QED
      BY <1>2, <2>1, <2>3, <3>1 DEF Cells
  <2>4. CASE i \in {1, 2, 3, 4 + n} \/ i >= 5 + n + m
    BY <1>2, <2>1, <2>4 DEF Cells
  <2> QED
    BY <2>1, <2>2, <2>3, <2>4
<1>6. d \in [1..SIZE -> Cells]
  BY <1>2, <1>5
<1>7. d[2] = a /\ d[3] = n /\ d[4 + n] = m
  BY <1>2, <1>3, <1>4
<1>8. \A i \in 0..(n - 1) : d[4 + i] = ps[i + 1]
  <2> TAKE i \in 0..(n - 1)
  <2>1. 4 + i \in 1..SIZE /\ 4 + i > 3 /\ 4 + i < 4 + n /\ (4 + i) - 3 = i + 1
    BY <1>3, <1>4
  <2> QED
    BY <1>2, <2>1
<1>9. \A i \in 0..(m - 1) : d[5 + n + i] = fs[i + 1]
  <2> TAKE i \in 0..(m - 1)
  <2>1. /\ 5 + n + i \in 1..SIZE /\ 5 + n + i > 4 + n /\ 5 + n + i < 5 + n + m
        /\ (5 + n + i) - (4 + n) = i + 1 /\ n > 0
    BY <1>3, <1>4
  <2> QED
    BY <1>2, <2>1
<1>10. /\ AuthorityAt = 2 /\ PoolsLenAt = 3 /\ PoolsStart = 4
       /\ FeeLenAt(n) = 4 + n /\ FeeStart(n) = 5 + n
  BY DEF AuthorityAt, PoolsLenAt, PoolsStart, FeeLenAt, FeeStart
<1> HIDE DEF d
<1> QED
  BY <1>6, <1>7, <1>8, <1>9, <1>10 DEF d

\* The parsers of the entry check read back what was written.
LEMMA ParsedBack ==
  ASSUME NEW old \in [1..SIZE -> Cells], NEW a \in Keys,
         NEW n \in 1..MAX_ALLOWED_POOLS, NEW m \in 0..MAX_FEE_OWNERS,
         NEW ps \in [1..n -> Keys], NEW fs \in [1..m -> Keys],
         owner' = "lp_handler", data' = Serialize(old, a, ps, fs)
  PROVE  /\ data' \in [1..SIZE -> Cells] /\ data'[AuthorityAt] = a
         /\ PoolsLen' = n /\ PoolsLenOk' /\ FeeOwnersLenOk'
         /\ AllowedPools' = Listed(ps) /\ AllowedFeeOwners' = Listed(fs)
<1>1. /\ data' \in [1..SIZE -> Cells]
      /\ data'[AuthorityAt] = a /\ data'[PoolsLenAt] = n
      /\ \A i \in 0..(n - 1) : data'[PoolsStart + i] = ps[i + 1]
      /\ data'[FeeLenAt(n)] = m
      /\ \A i \in 0..(m - 1) : data'[FeeStart(n) + i] = fs[i + 1]
  BY SerializeCells
<1>2. /\ n \in Nat /\ n > 0 /\ n <= MAX_ALLOWED_POOLS /\ m \in Nat /\ m <= MAX_FEE_OWNERS
      /\ SIZE = 4 + MAX_ALLOWED_POOLS + MAX_FEE_OWNERS
      /\ MAX_ALLOWED_POOLS \in Nat /\ MAX_FEE_OWNERS \in Nat
  BY ConfigAssumption DEF SIZE
<1>3. PoolsLen' = n
  BY <1>1, <1>2 DEF PoolsLen, LenAt
<1>4. FeeOwnersLen' = m
  BY <1>1, <1>2, <1>3 DEF FeeOwnersLen, LenAt
<1>5. PoolsLenOk' /\ FeeOwnersLenOk'
  BY <1>2, <1>3, <1>4 DEF PoolsLenOk, FeeOwnersLenOk, PoolsLenAt, PoolsStart, FeeLenAt
<1>6. \A k : ContainsPool(k)' <=> k \in Listed(ps)
  <2> TAKE k
  <2>1. ContainsPool(k)' <=> \E i \in 0..(n - 1) : ps[i + 1] = k
    BY <1>1, <1>3 DEF ContainsPool
  <2>2. (\E i \in 0..(n - 1) : ps[i + 1] = k) <=> (\E j \in 1..n : ps[j] = k)
    <3>1. ASSUME NEW j \in 1..n, ps[j] = k PROVE \E i \in 0..(n - 1) : ps[i + 1] = k
      <4>1. j - 1 \in 0..(n - 1) /\ (j - 1) + 1 = j
        BY <1>2
      <4> QED
        BY <3>1, <4>1
    <3>2. \A i \in 0..(n - 1) : i + 1 \in 1..n
      BY <1>2
    <3> QED
      BY <3>1, <3>2
  <2> QED
    BY <2>1, <2>2 DEF Listed
<1>7. \A k : ContainsFeeOwner(k)' <=> k \in Listed(fs)
  <2> TAKE k
  <2>1. ContainsFeeOwner(k)' <=> \E i \in 0..(m - 1) : fs[i + 1] = k
    BY <1>1, <1>3, <1>4 DEF ContainsFeeOwner
  <2>2. (\E i \in 0..(m - 1) : fs[i + 1] = k) <=> (\E j \in 1..m : fs[j] = k)
    <3>1. ASSUME NEW j \in 1..m, fs[j] = k PROVE \E i \in 0..(m - 1) : fs[i + 1] = k
      <4>1. j - 1 \in 0..(m - 1) /\ (j - 1) + 1 = j
        BY <1>2
      <4> QED
        BY <3>1, <4>1
    <3>2. \A i \in 0..(m - 1) : i + 1 \in 1..m
      BY <1>2
    <3> QED
      BY <3>1, <3>2
  <2> QED
    BY <2>1, <2>2 DEF Listed
<1>8. Listed(ps) \subseteq Keys /\ Listed(fs) \subseteq Keys
  BY DEF Listed
<1>9. AllowedPools' = Listed(ps)
  <2>1. \A k \in Keys : (WhitelistError(k) = "none")' <=> ContainsPool(k)'
    BY <1>2, <1>3, <1>5 DEF WhitelistError, ConfigUninitialized
  <2> QED
    BY <1>6, <1>8, <2>1 DEF AllowedPools
<1>10. AllowedFeeOwners' = Listed(fs)
  <2>1. \A k \in Keys : FeeOwnerAllowed(k)' <=> ContainsFeeOwner(k)'
    BY <1>2, <1>4 DEF FeeOwnerAllowed, ContainsFeeOwner
  <2> QED
    BY <1>7, <1>8, <2>1 DEF AllowedFeeOwners
<1> QED
  BY <1>1, <1>3, <1>5, <1>9, <1>10

(***************************************************************************)
(* The invariant: the account is well formed whenever it is live.          *)
(***************************************************************************)
IInv == TypeOK /\ LiveConfigParses

\* The account during the first creation and over an update is a full account.
LEMMA WriteFacts ==
  ASSUME TypeOK, LiveConfigParses, NEW a \in Keys,
         NEW ps \in KeyLists(MAX_ALLOWED_POOLS + 1), NEW fs \in KeyLists(MAX_FEE_OWNERS + 1),
         InitSecurityConfig(a, ps, fs) \/ UpdateSecurityConfig(a, ps, fs)
  PROVE  /\ owner' = "lp_handler" /\ lamports' \in Nat
         /\ data' \in [1..SIZE -> Cells] /\ data'[AuthorityAt] = a
         /\ PoolsLen' > 0 /\ PoolsLenOk' /\ FeeOwnersLenOk'
         /\ AllowedPools' = Listed(ps) /\ AllowedFeeOwners' = Listed(fs)
         /\ Listed(ps) # {} /\ Listed(ps) \subseteq Keys /\ Listed(fs) \subseteq Keys
<1>1. ListsError(ps, fs) = "none"
  BY DEF InitSecurityConfig, UpdateSecurityConfig
<1>2. /\ Len(ps) \in 1..MAX_ALLOWED_POOLS /\ ps \in [1..Len(ps) -> Keys]
      /\ Len(fs) \in 0..MAX_FEE_OWNERS /\ fs \in [1..Len(fs) -> Keys]
  BY <1>1, AcceptedLists
<1>3. \E old \in [1..SIZE -> Cells] : data' = Serialize(old, a, ps, fs)
  <2>1. CASE InitSecurityConfig(a, ps, fs)
    <3>1. Zeroed \in [1..SIZE -> Cells]
      BY DEF Zeroed, Cells
    <3> QED
      BY <2>1, <3>1 DEF InitSecurityConfig
  <2>2. CASE UpdateSecurityConfig(a, ps, fs)
    BY <2>2 DEF UpdateSecurityConfig, TypeOK
  <2> QED
    BY <2>1, <2>2
<1>4. owner' = "lp_handler" /\ lamports' \in Nat
  BY ConfigAssumption DEF InitSecurityConfig, UpdateSecurityConfig, TypeOK
<1>5. PICK old \in [1..SIZE -> Cells] : data' = Serialize(old, a, ps, fs)
  BY <1>3
<1>6. /\ data' \in [1..SIZE -> Cells] /\ data'[AuthorityAt] = a
      /\ PoolsLen' = Len(ps) /\ PoolsLenOk' /\ FeeOwnersLenOk'
      /\ AllowedPools' = Listed(ps) /\ AllowedFeeOwners' = Listed(fs)
  BY <1>2, <1>4, <1>5, ParsedBack
<1>7. ps[1] \in Listed(ps) /\ Listed(ps) \subseteq Keys /\ Listed(fs) \subseteq Keys
      /\ Len(ps) > 0
  BY <1>2, ConfigAssumption DEF Listed
<1> QED
  BY <1>4, <1>6, <1>7

LEMMA InitIInv == Init => IInv
  BY DEF Init, IInv, TypeOK, LiveConfigParses

LEMMA KeepIInv ==
  ASSUME IInv, UNCHANGED <<owner, data>>, lamports' \in Nat
  PROVE  IInv'
  BY DEF IInv, TypeOK, LiveConfigParses, PoolsLenOk, FeeOwnersLenOk, PoolsLen, FeeOwnersLen,
         LenAt

LEMMA NextIInv == IInv /\ [Next]_vars => IInv'
<1> SUFFICES ASSUME IInv, [Next]_vars PROVE IInv'
  OBVIOUS
<1>1. ASSUME NEW a \in Keys, NEW ps \in KeyLists(MAX_ALLOWED_POOLS + 1),
             NEW fs \in KeyLists(MAX_FEE_OWNERS + 1),
             InitSecurityConfig(a, ps, fs) \/ UpdateSecurityConfig(a, ps, fs)
      PROVE  IInv'
  BY <1>1, WriteFacts DEF IInv, TypeOK, LiveConfigParses
<1>2. ASSUME NEW a \in Keys, CloseSecurityConfig(a) PROVE IInv'
  BY <1>2 DEF CloseSecurityConfig, IInv, TypeOK, LiveConfigParses
<1>3. CASE ReceiveLamports
  BY <1>3, KeepIInv DEF ReceiveLamports, IInv, TypeOK
<1>4. CASE UNCHANGED vars
  BY <1>4, KeepIInv DEF vars, IInv, TypeOK
<1> QED
  BY <1>1, <1>2, <1>3, <1>4 DEF Next

LEMMA Invariance == Spec => []IInv
  BY InitIInv, NextIInv, PTL DEF Spec

\* A live account has exactly SIZE cells, an absent one has none.
THEOREM TypeCorrect == Spec => []TypeOK
<1>1. IInv => TypeOK
  BY DEF IInv
<1> QED
  BY <1>1, Invariance, PTL

\* Whatever lists were written over whatever longer lists, the entry check never
\* rejects a live account as malformed.
THEOREM LiveConfigIsWellFormed == Spec => []LiveConfigParses
<1>1. IInv => LiveConfigParses
  BY DEF IInv
<1> QED
  BY <1>1, Invariance, PTL

(***************************************************************************)
(* Refinement.                                                             *)
(***************************************************************************)
LEMMA AbsentAllowsNothing ==
  ASSUME owner # "lp_handler"
  PROVE  AllowedPools = {} /\ AllowedFeeOwners = {}
  BY DEF AllowedPools, AllowedFeeOwners, WhitelistError, FeeOwnerAllowed

LEMMA InitRefines == Init => Registry!Init
<1> SUFFICES ASSUME Init PROVE Registry!Init
  OBVIOUS
<1>1. owner # "lp_handler"
  BY DEF Init
<1> QED
  BY <1>1, AbsentAllowsNothing DEF Registry!Init

LEMMA UnchangedRefines ==
  ASSUME UNCHANGED <<owner, data>>
  PROVE  UNCHANGED Registry!rvars
  BY DEF Registry!rvars, AllowedPools, AllowedFeeOwners, WhitelistError, FeeOwnerAllowed,
         ConfigUninitialized, PoolsLenOk, FeeOwnersLenOk, PoolsLen, FeeOwnersLen, LenAt,
         ContainsPool, ContainsFeeOwner

LEMMA NextRefines == IInv /\ IInv' /\ [Next]_vars => [Registry!Next]_(Registry!rvars)
<1> SUFFICES ASSUME IInv, IInv', [Next]_vars PROVE [Registry!Next]_(Registry!rvars)
  OBVIOUS
<1>0. \A k \in Keys : k # NoAdmin
  BY ConfigAssumption
<1>1. ASSUME NEW a \in Keys, NEW ps \in KeyLists(MAX_ALLOWED_POOLS + 1),
             NEW fs \in KeyLists(MAX_FEE_OWNERS + 1),
             InitSecurityConfig(a, ps, fs)
      PROVE  Registry!Next
  <2>1. /\ owner' = "lp_handler" /\ data'[AuthorityAt] = a
        /\ AllowedPools' = Listed(ps) /\ AllowedFeeOwners' = Listed(fs)
        /\ Listed(ps) # {} /\ Listed(ps) \subseteq Keys /\ Listed(fs) \subseteq Keys
    BY <1>1, WriteFacts DEF IInv
  <2>2. owner # "lp_handler"
    BY <1>1 DEF InitSecurityConfig
  <2>3. Registry!Create(a, Listed(ps), Listed(fs))
    BY <2>1, <2>2 DEF Registry!Create
  <2> QED
    BY <2>1, <2>3 DEF Registry!Next
<1>2. ASSUME NEW a \in Keys, NEW ps \in KeyLists(MAX_ALLOWED_POOLS + 1),
             NEW fs \in KeyLists(MAX_FEE_OWNERS + 1),
             UpdateSecurityConfig(a, ps, fs)
      PROVE  Registry!Next
  <2>1. /\ owner' = "lp_handler" /\ data'[AuthorityAt] = a
        /\ AllowedPools' = Listed(ps) /\ AllowedFeeOwners' = Listed(fs)
        /\ Listed(ps) # {} /\ Listed(ps) \subseteq Keys /\ Listed(fs) \subseteq Keys
    BY <1>2, WriteFacts DEF IInv
  <2>2. owner = "lp_handler" /\ data[AuthorityAt] = a
    BY <1>2 DEF UpdateSecurityConfig
  <2>3. Registry!Replace(Listed(ps), Listed(fs))
    BY <1>0, <2>1, <2>2 DEF Registry!Replace
  <2> QED
    BY <2>1, <2>3 DEF Registry!Next
<1>3. ASSUME NEW a \in Keys, CloseSecurityConfig(a) PROVE Registry!Next
  <2>1. owner = "lp_handler" /\ data[AuthorityAt] = a /\ owner' # "lp_handler"
    BY <1>3 DEF CloseSecurityConfig
  <2>2. AllowedPools' = {} /\ AllowedFeeOwners' = {}
    BY <2>1 DEF AllowedPools, AllowedFeeOwners, WhitelistError, FeeOwnerAllowed
  <2>3. Registry!Remove
    BY <1>0, <2>1, <2>2 DEF Registry!Remove
  <2> QED
    BY <2>3 DEF Registry!Next
<1>4. CASE ReceiveLamports
  BY <1>4, UnchangedRefines DEF ReceiveLamports
<1>5. CASE UNCHANGED vars
  BY <1>5, UnchangedRefines DEF vars
<1> QED
  BY <1>1, <1>2, <1>3, <1>4, <1>5 DEF Next

\* Seen through the raw parsers, the account is the abstract registry: one
\* administrator, both lists replaced at once, nothing allowed while it is absent.
THEOREM ConfigRefinesRegistry == Spec => RefinesRegistry
<1>1. Spec => Registry!Init
  BY InitRefines DEF Spec
<1> QED
  BY <1>1, NextRefines, InitRefines, Invariance, PTL
  DEF Spec, RefinesRegistry, Registry!Spec

\* After an instruction that writes the lists, exactly those lists are allowed.
THEOREM WritesAreExactAlways == Spec => WritesAreExact
<1>1. ASSUME IInv, NEW a \in Keys, NEW ps \in KeyLists(MAX_ALLOWED_POOLS),
             NEW fs \in KeyLists(MAX_FEE_OWNERS),
             InitSecurityConfig(a, ps, fs) \/ UpdateSecurityConfig(a, ps, fs)
      PROVE  AllowedPools' = Listed(ps) /\ AllowedFeeOwners' = Listed(fs)
  <2>1. ps \in KeyLists(MAX_ALLOWED_POOLS + 1) /\ fs \in KeyLists(MAX_FEE_OWNERS + 1)
    BY ConfigAssumption DEF KeyLists
  <2> QED
    BY <1>1, <2>1, WriteFacts DEF IInv
<1> DEFINE Exact ==
  \A a \in Keys, ps \in KeyLists(MAX_ALLOWED_POOLS), fs \in KeyLists(MAX_FEE_OWNERS) :
    InitSecurityConfig(a, ps, fs) \/ UpdateSecurityConfig(a, ps, fs) =>
      AllowedPools' = Listed(ps) /\ AllowedFeeOwners' = Listed(fs)
<1>2. IInv => Exact
  BY <1>1
<1>3. IInv => [Exact]_vars
  BY <1>2
<1> HIDE DEF Exact
<1>4. Spec => [][Exact]_vars
  BY <1>3, Invariance, PTL
<1> QED
  BY <1>4 DEF WritesAreExact, Exact

=============================================================================

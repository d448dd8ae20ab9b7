--------------------------- MODULE LpHandlerProofs ---------------------------
(***************************************************************************)
(* Proofs about LpHandler, for any keys, lists, users and calls.  The      *)
(* configuration account keeps the invariant of SecurityConfigProofs, and  *)
(* what its parsers allow is what the last instruction listed; a call that *)
(* passed the entry check still passes it until it returns, because no     *)
(* instruction of the configuration runs inside a call.                    *)
(***************************************************************************)
EXTENDS LpHandler, SecurityConfigProofs

\* What the parsers allow is what was listed last.
ListsMatch ==
  IF owner = "lp_handler"
  THEN listed.pools # {} /\ AllowedPools = listed.pools /\ AllowedFeeOwners = listed.feeOwners
  ELSE listed = NoLists

Donations ==
  /\ owner = "system" => lamports = donated.before /\ donated.after = 0
  /\ owner = "lp_handler" =>
       lamports = donated.after
                    + (IF donated.before >= RentMin THEN donated.before ELSE RentMin)

\* The signer owns its accounts, and a body changes none but the wSOL account.
Ownership == \A a \in Accounts : acct[a].authority = Signer /\ saved[a].authority = Signer

Unchanged(a) == acct[a] = saved[a] \/ (a = "wsol" /\ call.native /\ acct[a] = Closed)

Accepted == pc \in {"body", "exit", "done"}

InCall ==
  /\ Accepted => /\ EntryCheck(call) = "none"
                 /\ snapshot = {a \in Passed(call) : IsTokenAccount(saved[a])}
                 /\ \A a \in Accounts : Unchanged(a)
  /\ pc = "body" => acct = saved
  /\ pc = "exit" => created \in {{}, PositionAccounts}
  /\ pc = "done" => ExitErrors = {}

ProgramInv ==
  /\ IInv /\ ProgramTypeOK
  /\ ListsMatch /\ Donations /\ Ownership /\ InCall /\ RefusedForCause

(***************************************************************************)
(* The configuration.                                                      *)
(***************************************************************************)
LEMMA ShortSeq ==
  ASSUME NEW max \in Nat, NEW ps \in Seq(Keys), Len(ps) <= max
  PROVE  ps \in KeyLists(max + 1)
<1>1. Len(ps) \in 0..(max + 1) /\ ps \in [1..Len(ps) -> Keys]
  OBVIOUS
<1> QED
  BY <1>1 DEF KeyLists

\* An instruction that writes the lists is a step of SecurityConfig.
LEMMA WriteStep ==
  ASSUME ProgramInv, NEW a \in Keys, NEW l \in Lists, CreateConfig(a, l) \/ UpdateConfig(a, l)
  PROVE  /\ Next /\ owner' = "lp_handler"
         /\ AllowedPools' = Listed(l.pools) /\ AllowedFeeOwners' = Listed(l.feeOwners)
         /\ Listed(l.pools) # {} /\ Listed(l.pools) \subseteq Keys
         /\ Listed(l.feeOwners) \subseteq Keys
<1>1. ListsError(l.pools, l.feeOwners) = "none"
  BY DEF CreateConfig, UpdateConfig, InitSecurityConfig, UpdateSecurityConfig
<1>2. l.pools \in Seq(Keys) /\ l.feeOwners \in Seq(Keys)
  BY HandlerAssumption
<1>3. Len(l.pools) <= MAX_ALLOWED_POOLS /\ Len(l.feeOwners) <= MAX_FEE_OWNERS
  BY <1>1, <1>2, ConfigAssumption DEF ListsError
<1>4. /\ l.pools \in KeyLists(MAX_ALLOWED_POOLS + 1)
      /\ l.feeOwners \in KeyLists(MAX_FEE_OWNERS + 1)
  BY <1>2, <1>3, ShortSeq, ConfigAssumption
<1>5. \/ InitSecurityConfig(a, l.pools, l.feeOwners)
      \/ UpdateSecurityConfig(a, l.pools, l.feeOwners)
  BY DEF CreateConfig, UpdateConfig
<1>6. TypeOK /\ LiveConfigParses
  BY DEF ProgramInv, IInv
<1>7. Next
  BY <1>4, <1>5 DEF Next
<1> QED
  BY <1>4, <1>5, <1>6, <1>7, WriteFacts

\* The authority written is the one that signed.
LEMMA WrittenAuthority ==
  ASSUME ProgramInv, NEW a \in Keys, NEW l \in Lists, CreateConfig(a, l) \/ UpdateConfig(a, l)
  PROVE  data'[AuthorityAt] = a
<1>1. \E old : data' = Serialize(old, a, l.pools, l.feeOwners)
  BY DEF CreateConfig, UpdateConfig, InitSecurityConfig, UpdateSecurityConfig
<1>2. AuthorityAt \in 1..SIZE /\ AuthorityAt # 1
  BY ConfigAssumption DEF AuthorityAt, SIZE
<1> QED
  BY <1>1, <1>2 DEF Serialize

\* The parsers read nothing but the account.
LEMMA ParsersKept ==
  ASSUME UNCHANGED <<owner, data>>
  PROVE  /\ AllowedPools' = AllowedPools /\ AllowedFeeOwners' = AllowedFeeOwners
         /\ \A k : WhitelistError(k)' = WhitelistError(k)
  BY DEF AllowedPools, AllowedFeeOwners, WhitelistError, FeeOwnerAllowed,
         ConfigUninitialized, PoolsLenOk, FeeOwnersLenOk, PoolsLen, FeeOwnersLen, LenAt,
         ContainsPool, ContainsFeeOwner

\* The whitelist part of the entry check, in terms of what was listed: a live account
\* is never malformed.
LEMMA WhitelistIsListed ==
  ASSUME IInv, ListsMatch, NEW k \in Keys
  PROVE  WhitelistError(k) =
           IF listed.pools = {} THEN "SecurityPoolWhitelistMissing"
           ELSE IF k \notin listed.pools THEN "SecurityPoolNotAllowed" ELSE "none"
<1>1. CASE owner = "lp_handler"
  <2>1. k \in listed.pools <=> WhitelistError(k) = "none"
    BY <1>1 DEF ListsMatch, AllowedPools
  <2>2. WhitelistError(k) \in {"none", "SecurityPoolNotAllowed"}
    <3>1. PoolsLenOk /\ FeeOwnersLenOk /\ PoolsLen # 0 /\ ~ConfigUninitialized
      BY <1>1, ConfigAssumption
      DEF IInv, LiveConfigParses, PoolsLen, LenAt, ConfigUninitialized
    <3> QED
      BY <1>1, <3>1 DEF WhitelistError
  <2> QED
    BY <1>1, <2>1, <2>2 DEF ListsMatch
<1>2. CASE owner # "lp_handler"
  <2>1. ConfigUninitialized
    BY <1>2 DEF IInv, TypeOK, ConfigUninitialized
  <2> QED
    BY <1>2, <2>1 DEF ListsMatch, NoLists, WhitelistError
<1> QED
  BY <1>1, <1>2

LEMMA FeeOwnersAreListed == IInv /\ ListsMatch => AllowedFeeOwners = listed.feeOwners
  BY DEF IInv, TypeOK, ListsMatch, NoLists, AllowedFeeOwners, FeeOwnerAllowed

(***************************************************************************)
(* What a refusal is due to.                                               *)
(***************************************************************************)
LEMMA EntryCause ==
  ASSUME IInv, ListsMatch, NEW c \in Calls, call' = c, UNCHANGED listed,
         EntryCheck(c) # "none", status' = EntryCheck(c)
  PROVE  HasCause(status)'
<1>1. c.pool \in Keys /\ c.feeOwner \in Users \cup Keys
  BY HandlerAssumption DEF CallType
<1>2. CASE c.separators > 1
  BY <1>2 DEF EntryCheck, AccountsError, HasCause
<1>3. CASE ~(c.separators > 1) /\ WhitelistError(c.pool) # "none"
  BY <1>1, <1>3, WhitelistIsListed DEF EntryCheck, AccountsError, HasCause
<1>4. CASE /\ ~(c.separators > 1) /\ WhitelistError(c.pool) = "none"
           /\ ~(c.executables \subseteq ALLOWED_EXECUTABLE_PROGRAMS)
  BY <1>4 DEF EntryCheck, AccountsError, HasCause
<1>5. CASE /\ ~(c.separators > 1) /\ WhitelistError(c.pool) = "none"
           /\ c.executables \subseteq ALLOWED_EXECUTABLE_PROGRAMS
  <2>1. \E t \in OtherTokens(c) :
          ~TokenAccountAllowed(t, Signer, c.recipient, AllowedFeeOwners)
    BY <1>5 DEF EntryCheck, AccountsError
  <2>2. c.feeOwner \notin AllowedFeeOwners \cup {Signer, c.recipient}
    BY <2>1 DEF OtherTokens, TokenAccountAllowed
  <2>3. EntryCheck(c) = "SecurityNonWhitelistTokenAccount"
    BY <1>5, <2>1 DEF EntryCheck, AccountsError
  <2> QED
    BY <2>2, <2>3, FeeOwnersAreListed DEF HasCause
<1> QED
  BY <1>2, <1>3, <1>4, <1>5

\* What the bodies create always passes.
LEMMA CreatedIsClean ==
  \A a \in PositionAccounts : CreatedAccountError(a, Signer, call.recipient) = "none"
  BY DEF PositionAccounts, CreatedAccountError, IsUninitialized, IsTokenAccount,
         ALLOWED_ACCOUNT_OWNERS

LEMMA LeakedIsDonated == ProgramInv => BlockedByDonations
<1> SUFFICES ASSUME ProgramInv, owner = "lp_handler"
             PROVE  LamportsLeaked(lamports, RentMin)
                      <=> donated.after > 0 \/ donated.before > RentMin
  BY DEF BlockedByDonations
<1>1. donated.before \in Nat /\ donated.after \in Nat /\ RentMin \in Nat /\ lamports \in Nat
  BY ConfigAssumption DEF ProgramInv, ProgramTypeOK, TypeOK
<1> QED
  BY <1>1 DEF ProgramInv, Donations, LamportsLeaked

LEMMA ChangedCause ==
  ASSUME ProgramInv, pc = "exit", NEW a \in snapshot, NEW e, e # "none",
         e = SignerAccountError(acct[a], a = "wsol" /\ saved[a].ata, Signer)
  PROVE  HasCause(e)
<1>1. /\ a \in Passed(call) /\ a \in Accounts /\ IsTokenAccount(saved[a]) /\ Unchanged(a)
      /\ acct[a].authority = Signer
  BY DEF ProgramInv, ProgramTypeOK, InCall, Accepted, Ownership
<1>2. CASE acct[a] = saved[a]
  <2>1. IsTokenAccount(acct[a])
    BY <1>1, <1>2
  <2>2. /\ e \in {"SecurityTokenDelegateNotAllowed", "SecurityTokenCloseAuthorityNotAllowed"}
        /\ HasPermission(a)
    BY <1>1, <1>2, <2>1 DEF SignerAccountError, HasPermission
  <2> QED
    BY <1>1, <2>2 DEF HasCause
<1>3. CASE acct[a] # saved[a]
  <2>1. a = "wsol" /\ call.native /\ acct[a] = Closed
    BY <1>1, <1>3 DEF Unchanged
  <2>2. IsUninitialized(acct[a]) /\ ~IsTokenAccount(acct[a])
    BY <2>1 DEF Closed, Opened, IsUninitialized, IsTokenAccount
  <2>3. e = "SecurityTokenAccountCorrupted" /\ ~saved["wsol"].ata
    BY <2>1, <2>2 DEF SignerAccountError
  <2> QED
    BY <2>1, <2>3 DEF HasCause
<1> QED
  BY <1>2, <1>3

LEMMA ExitCause ==
  ASSUME ProgramInv, pc = "exit", NEW e \in ExitErrors
  PROVE  HasCause(e)
<1> DEFINE changed == {SignerAccountError(acct[a], a = "wsol" /\ saved[a].ata, Signer) :
                         a \in snapshot} \ {"none"}
           made == {CreatedAccountError(a, Signer, call.recipient) : a \in created} \ {"none"}
<1>1. \/ /\ e = "SecurityProgramLamportsLeaked"
         /\ owner = "lp_handler" /\ LamportsLeaked(lamports, RentMin)
      \/ e \in changed
      \/ e \in made
  BY DEF ExitErrors
<1>2. made = {}
  BY CreatedIsClean DEF ProgramInv, InCall
<1>3. CASE e \in changed
  BY <1>3, ChangedCause
<1>4. CASE /\ e = "SecurityProgramLamportsLeaked"
           /\ owner = "lp_handler" /\ LamportsLeaked(lamports, RentMin)
  BY <1>4, LeakedIsDonated DEF BlockedByDonations, HasCause
<1> QED
  BY <1>1, <1>2, <1>3, <1>4

\* A refusal keeps the call and what was listed and donated.
LEMMA RefuseCause ==
  ASSUME NEW e, HasCause(e), Refuse(e)
  PROVE  HasCause(status)'
<1>1. UNCHANGED <<call, saved, listed, donated>> /\ status' = e
  BY DEF Refuse, running, history
<1>2. Passed(call)' = Passed(call)
  BY <1>1 DEF Passed, MainAccounts
<1> QED
  BY <1>1, <1>2 DEF HasCause, HasPermission

(***************************************************************************)
(* The invariant.                                                          *)
(***************************************************************************)
LEMMA OpenedType ==
  \A isAta \in BOOLEAN : Opened(isAta) \in AccountType /\ Opened(isAta).authority = Signer
  BY HandlerAssumption DEF Opened, AccountType

LEMMA ClosedType == Closed \in AccountType /\ Closed.authority = Signer
  BY OpenedType DEF Closed, Opened, AccountType

LEMMA InitProgramInv == ProgramInit => ProgramInv
<1> SUFFICES ASSUME ProgramInit PROVE ProgramInv
  OBVIOUS
<1>1. IInv
  BY InitIInv DEF ProgramInit
<1>2. /\ acct \in [Accounts -> AccountType] /\ saved = acct
      /\ \A a \in Accounts : acct[a].authority = Signer
  BY OpenedType DEF ProgramInit
<1>3. ProgramTypeOK
  BY <1>1, <1>2 DEF ProgramInit, ProgramTypeOK, IInv, NoLists, NoDonation
<1>4. ListsMatch /\ Donations
  BY DEF ProgramInit, Init, ListsMatch, Donations, NoDonation
<1> QED
  BY <1>1, <1>2, <1>3, <1>4 DEF ProgramInit, ProgramInv, Ownership, InCall, Accepted, RefusedForCause

\* A step inside a call leaves the configuration alone.
LEMMA ConfigKept ==
  ASSUME ProgramInv, UNCHANGED <<vars, history>>
  PROVE  /\ IInv' /\ ListsMatch' /\ Donations'
         /\ \A c : EntryCheck(c)' = EntryCheck(c)
<1>1. UNCHANGED <<owner, data, lamports, listed, donated>>
  BY DEF vars, history
<1>2. IInv'
  BY <1>1, NextIInv DEF ProgramInv, vars
<1>3. ListsMatch' /\ Donations'
  BY <1>1, ParsersKept DEF ProgramInv, ListsMatch, Donations
<1>4. \A c : EntryCheck(c)' = EntryCheck(c)
  BY <1>1, ParsersKept DEF EntryCheck, AccountsError, OtherTokens, TokenAccountAllowed
<1> QED
  BY <1>2, <1>3, <1>4

LEMMA SubmitInv ==
  ASSUME ProgramInv, NEW c \in Calls, EntryRefuses(c) \/ Enter(c)
  PROVE  ProgramInv'
<1>1. /\ call' = c /\ saved' = acct /\ UNCHANGED <<vars, acct, history>>
      /\ c # NoCall
  BY HandlerAssumption DEF EntryRefuses, Enter, Submit, CallType, NoCall
<1>2. /\ IInv' /\ ListsMatch' /\ Donations'
      /\ EntryCheck(c)' = EntryCheck(c)
  BY <1>1, ConfigKept
<1>3. Ownership'
  BY <1>1 DEF ProgramInv, Ownership
<1>4. SignerTokenAccounts(c) = {a \in Passed(c) : IsTokenAccount(acct[a])}
      /\ SignerTokenAccounts(c) \subseteq Accounts /\ Passed(c)' = Passed(c)
  BY HandlerAssumption
  DEF SignerTokenAccounts, Passed, MainAccounts, Accounts, ProgramInv, Ownership, CallType
<1>5. CASE EntryRefuses(c)
  <2>1. /\ pc' = "refused" /\ status' = EntryCheck(c) /\ EntryCheck(c) # "none"
        /\ UNCHANGED <<snapshot, created, outcome>>
    BY <1>5 DEF EntryRefuses
  <2>2. RefusedForCause'
    BY <1>1, <2>1, EntryCause DEF ProgramInv, history, RefusedForCause
  <2>3. ProgramTypeOK'
    BY <1>1, <1>2, <2>1 DEF ProgramInv, ProgramTypeOK, IInv, history
  <2> QED
    BY <1>2, <1>3, <2>1, <2>2, <2>3 DEF ProgramInv, InCall, Accepted
<1>6. CASE Enter(c)
  <2>1. /\ pc' = "body" /\ EntryCheck(c) = "none" /\ snapshot' = SignerTokenAccounts(c)
        /\ UNCHANGED <<created, outcome, status>>
    BY <1>6 DEF Enter
  <2>2. ProgramTypeOK'
    BY <1>1, <1>2, <1>4, <2>1 DEF ProgramInv, ProgramTypeOK, IInv, history
  <2>3. EntryCheck(call)' = "none"
    BY <1>1, <1>2, <2>1
  <2>4. Passed(call)' = Passed(c)
    BY <1>1, <1>4
  <2>5. InCall'
    BY <1>1, <1>4, <2>1, <2>3, <2>4 DEF InCall, Accepted, Unchanged
  <2> QED
    BY <1>2, <1>3, <2>1, <2>2, <2>5 DEF ProgramInv, RefusedForCause
<1> QED
  BY <1>5, <1>6

LEMMA RefuseInv ==
  ASSUME ProgramInv, pc # "idle", NEW e, HasCause(e), Refuse(e)
  PROVE  ProgramInv'
<1>1. /\ acct' = saved /\ pc' = "refused"
      /\ UNCHANGED <<vars, history, call, saved, snapshot, created, outcome>>
  BY DEF Refuse, running
<1>2. IInv' /\ ListsMatch' /\ Donations'
  BY <1>1, ConfigKept
<1>3. ProgramTypeOK'
  BY <1>1, <1>2 DEF ProgramInv, ProgramTypeOK, IInv, history
<1>4. RefusedForCause'
  BY RefuseCause DEF RefusedForCause
<1>5. Ownership' /\ InCall'
  BY <1>1 DEF ProgramInv, Ownership, InCall, Accepted
<1> QED
  BY <1>2, <1>3, <1>4, <1>5 DEF ProgramInv

LEMMA BodyInv ==
  ASSUME ProgramInv, NEW b \in BOOLEAN, BodySucceeds(b) \/ BodyFails(b)
  PROVE  ProgramInv'
<1>1. /\ pc = "body" /\ pc' = "exit"
      /\ created' \in {{}, PositionAccounts}
      /\ acct' = acct \/ (call.native /\ acct' = [acct EXCEPT !["wsol"] = Closed])
      /\ UNCHANGED <<vars, call, saved, snapshot, status, history>>
  BY DEF BodySucceeds, BodyFails
<1>2. /\ IInv' /\ ListsMatch' /\ Donations' /\ EntryCheck(call)' = EntryCheck(call)
  <2>1. \A c : EntryCheck(c)' = EntryCheck(c)
    BY <1>1, ConfigKept
  <2> QED
    BY <1>1, <2>1, ConfigKept DEF EntryCheck, AccountsError, OtherTokens
<1>3. ProgramTypeOK'
  BY <1>1, <1>2, ClosedType DEF ProgramInv, ProgramTypeOK, IInv, history
<1>4. Ownership'
  BY <1>1, ClosedType DEF ProgramInv, ProgramTypeOK, Ownership
<1>5. Passed(call)' = Passed(call) /\ PositionAccounts' = PositionAccounts
  BY <1>1 DEF Passed, MainAccounts, PositionAccounts
<1>6. \A a \in Accounts : Unchanged(a)'
  BY <1>1 DEF ProgramInv, ProgramTypeOK, InCall, Unchanged
<1>7. InCall'
  BY <1>1, <1>2, <1>5, <1>6 DEF ProgramInv, InCall, Accepted
<1> QED
  BY <1>1, <1>2, <1>3, <1>4, <1>7 DEF ProgramInv, RefusedForCause

LEMMA CommitInv ==
  ASSUME ProgramInv, Commit
  PROVE  ProgramInv'
<1>1. /\ pc = "exit" /\ pc' = "done" /\ ExitErrors = {}
      /\ UNCHANGED <<vars, acct, call, saved, snapshot, created, outcome, history>>
  BY DEF Commit, running
<1>2. IInv' /\ ListsMatch' /\ Donations' /\ EntryCheck(call)' = EntryCheck(call)
  <2>1. \A c : EntryCheck(c)' = EntryCheck(c)
    BY <1>1, ConfigKept
  <2> QED
    BY <1>1, <2>1, ConfigKept DEF EntryCheck, AccountsError, OtherTokens
<1>3. ProgramTypeOK'
  BY <1>1, <1>2 DEF ProgramInv, ProgramTypeOK, IInv, history
<1>4. Passed(call)' = Passed(call)
  BY <1>1 DEF Passed, MainAccounts
<1>5. ExitErrors' = ExitErrors
  BY <1>1 DEF ExitErrors, vars
<1>6. InCall' /\ Ownership'
  BY <1>1, <1>2, <1>4, <1>5 DEF ProgramInv, InCall, Accepted, Unchanged, Ownership
<1> QED
  BY <1>1, <1>2, <1>3, <1>6 DEF ProgramInv, RefusedForCause

LEMMA ReturnInv ==
  ASSUME ProgramInv, Return
  PROVE  ProgramInv'
<1>1. /\ pc' = "idle" /\ call' = NoCall /\ saved' = acct /\ snapshot' = {}
      /\ UNCHANGED <<vars, acct, history>>
  BY DEF Return
<1>2. IInv' /\ ListsMatch' /\ Donations'
  BY <1>1, ConfigKept
<1>3. ProgramTypeOK'
  BY <1>1, <1>2 DEF ProgramInv, ProgramTypeOK, IInv, history
<1> QED
  BY <1>1, <1>2, <1>3 DEF ProgramInv, Ownership, InCall, Accepted, RefusedForCause

LEMMA AccountsInv ==
  ASSUME ProgramInv,
         \/ \E a \in {"wsol", "nft"}, perm \in Permissions : SetPermissions(a, perm)
         \/ \E isAta \in BOOLEAN : ReopenNative(isAta)
  PROVE  ProgramInv'
<1>1. /\ pc = "idle" /\ saved' = acct' /\ UNCHANGED <<vars, pc, call, snapshot, history>>
  BY DEF SetPermissions, ReopenNative
<1>2. /\ acct' \in [Accounts -> AccountType]
      /\ \A a \in Accounts : acct'[a].authority = Signer
  <2>0. acct \in [Accounts -> AccountType] /\ \A a \in Accounts : acct[a].authority = Signer
    BY DEF ProgramInv, ProgramTypeOK, Ownership
  <2>1. CASE \E a \in {"wsol", "nft"}, perm \in Permissions : SetPermissions(a, perm)
    <3>1. PICK a \in {"wsol", "nft"}, perm \in Permissions : SetPermissions(a, perm)
      BY <2>1
    <3>2. perm.delegate \in BOOLEAN /\ perm.closeAuth \in BOOLEAN
      BY HandlerAssumption
    <3> QED
      BY <2>0, <3>1, <3>2 DEF SetPermissions, AccountType
  <2>2. CASE \E isAta \in BOOLEAN : ReopenNative(isAta)
    BY <2>0, <2>2, OpenedType DEF ReopenNative
  <2> QED
    BY <2>1, <2>2
<1>3. IInv' /\ ListsMatch' /\ Donations'
  BY <1>1, ConfigKept
<1>4. ProgramTypeOK'
  BY <1>1, <1>2, <1>3 DEF ProgramInv, ProgramTypeOK, IInv, history
<1> QED
  BY <1>1, <1>2, <1>3, <1>4 DEF ProgramInv, Ownership, InCall, Accepted, RefusedForCause

\* The instructions of the configuration, and a donation.
LEMMA AdministrationInv ==
  ASSUME ProgramInv, Administration \/ Donate
  PROVE  ProgramInv'
<1>1. pc = "idle" /\ UNCHANGED <<acct, pc, call, saved, snapshot, created, outcome>>
  BY DEF Administration, CreateConfig, UpdateConfig, WriteLists, CloseConfig, Donate, running
<1>2. donated \in [before : Nat, after : Nat] /\ RentMin \in Nat /\ lamports \in Nat
  BY ConfigAssumption DEF ProgramInv, ProgramTypeOK, TypeOK
<1>3. /\ IInv' /\ ListsMatch' /\ Donations'
      /\ listed' \in [pools : SUBSET Keys, feeOwners : SUBSET Keys]
      /\ donated' \in [before : Nat, after : Nat]
  <2>0. Donations /\ ListsMatch /\ IInv /\ listed \in [pools : SUBSET Keys, feeOwners : SUBSET Keys]
        /\ owner \in {"system", "lp_handler"}
    BY DEF ProgramInv, ProgramTypeOK, TypeOK
  <2>1. CASE \E a \in Keys, l \in Lists : CreateConfig(a, l) \/ UpdateConfig(a, l)
    <3>1. PICK a \in Keys, l \in Lists : CreateConfig(a, l) \/ UpdateConfig(a, l)
      BY <2>1
    <3>2. /\ listed' = [pools |-> Listed(l.pools), feeOwners |-> Listed(l.feeOwners)]
          /\ UNCHANGED donated
      BY <3>1 DEF CreateConfig, UpdateConfig, WriteLists
    <3>3. /\ Next /\ owner' = "lp_handler"
          /\ AllowedPools' = Listed(l.pools) /\ AllowedFeeOwners' = Listed(l.feeOwners)
          /\ Listed(l.pools) # {} /\ Listed(l.pools) \subseteq Keys
          /\ Listed(l.feeOwners) \subseteq Keys
      BY <3>1, WriteStep
    <3>4. IInv' /\ ListsMatch'
      BY <2>0, <3>2, <3>3, NextIInv DEF ListsMatch
    <3>5. Donations'
      <4>1. CASE CreateConfig(a, l)
        BY <1>2, <2>0, <3>2, <4>1 DEF CreateConfig, InitSecurityConfig, Donations
      <4>2. CASE UpdateConfig(a, l)
        BY <2>0, <3>2, <4>2 DEF UpdateConfig, UpdateSecurityConfig, Donations
      <4> QED
        BY <3>1, <4>1, <4>2
    <3> QED
      BY <1>2, <3>2, <3>3, <3>4, <3>5
  <2>2. CASE \E a \in Keys : CloseConfig(a)
    <3>1. PICK a \in Keys : CloseConfig(a)
      BY <2>2
    <3>2. /\ Next /\ owner' = "system" /\ lamports' = 0
          /\ listed' = NoLists /\ donated' = NoDonation
      BY <3>1 DEF CloseConfig, CloseSecurityConfig, Next
    <3> QED
      BY <2>0, <3>2, NextIInv DEF ListsMatch, Donations, NoLists, NoDonation
  <2>3. CASE Donate
    <3>1. /\ Next /\ UNCHANGED <<owner, data, listed>> /\ lamports' = lamports + 1
          /\ donated' = IF owner = "lp_handler" THEN [donated EXCEPT !.after = @ + 1]
                                                ELSE [donated EXCEPT !.before = @ + 1]
      BY <2>3 DEF Donate, ReceiveLamports, Next
    <3>2. IInv' /\ ListsMatch'
      BY <2>0, <3>1, NextIInv, ParsersKept DEF ListsMatch
    <3>3. donated' \in [before : Nat, after : Nat]
      BY <1>2, <3>1
    <3>4. /\ owner = "lp_handler" => /\ donated'.after = donated.after + 1
                                     /\ donated'.before = donated.before
          /\ owner = "system" => /\ donated'.before = donated.before + 1
                                 /\ donated'.after = donated.after
      BY <1>2, <3>1
    <3>5. /\ donated.before \in Nat /\ donated.after \in Nat
      BY <1>2
    <3>6. Donations'
      BY <1>2, <2>0, <3>1, <3>4, <3>5 DEF Donations
    <3> QED
      BY <2>0, <3>1, <3>2, <3>3, <3>6
  <2> QED
    BY <2>1, <2>2, <2>3 DEF Administration
<1>4. ProgramTypeOK'
  BY <1>1, <1>3 DEF ProgramInv, ProgramTypeOK, IInv
<1> QED
  BY <1>1, <1>3, <1>4 DEF ProgramInv, Ownership, InCall, Accepted, RefusedForCause

LEMMA NextProgramInv == ProgramInv /\ [ProgramNext]_programVars => ProgramInv'
<1> SUFFICES ASSUME ProgramInv, [ProgramNext]_programVars PROVE ProgramInv'
  OBVIOUS
<1>1. CASE Handler
  <2>1. CASE \E b \in BOOLEAN : BodySucceeds(b) \/ BodyFails(b)
    BY <2>1, BodyInv
  <2>2. CASE CpiFails \/ ErrorReturned
    <3>1. pc # "idle" /\ (Refuse("CpiError") \/ Refuse("BodyError"))
      BY <2>2 DEF CpiFails, ErrorReturned
    <3>2. HasCause("CpiError") /\ HasCause("BodyError")
      BY DEF HasCause
    <3> QED
      BY <3>1, <3>2, RefuseInv
  <2>3. CASE ExitRefuses
    <3>1. PICK e \in ExitErrors : pc = "exit" /\ Refuse(e)
      BY <2>3 DEF ExitRefuses
    <3>2. HasCause(e)
      BY <3>1, ExitCause
    <3> QED
      BY <3>1, <3>2, RefuseInv
  <2>4. CASE Commit
    BY <2>4, CommitInv
  <2>5. CASE Return
    BY <2>5, ReturnInv
  <2> QED
    BY <1>1, <2>1, <2>2, <2>3, <2>4, <2>5 DEF Handler
<1>2. CASE UNCHANGED programVars
  <2>1. UNCHANGED <<vars, acct, pc, call, saved, snapshot, created, outcome, status, history>>
    BY <1>2 DEF programVars, running
  <2>2. IInv' /\ ListsMatch' /\ Donations' /\ EntryCheck(call)' = EntryCheck(call)
    <3>1. \A c : EntryCheck(c)' = EntryCheck(c)
      BY <2>1, ConfigKept
    <3> QED
      BY <2>1, <3>1, ConfigKept DEF EntryCheck, AccountsError, OtherTokens
  <2>3. ProgramTypeOK'
    BY <2>1, <2>2 DEF ProgramInv, ProgramTypeOK, IInv, history
  <2>4. /\ Passed(call)' = Passed(call) /\ PositionAccounts' = PositionAccounts
        /\ ExitErrors' = ExitErrors
    BY <2>1 DEF Passed, MainAccounts, PositionAccounts, ExitErrors, vars
  <2>5. InCall' /\ Ownership'
    BY <2>1, <2>2, <2>4 DEF ProgramInv, InCall, Accepted, Unchanged, Ownership
  <2>6. RefusedForCause'
    BY <2>1, <2>4 DEF ProgramInv, RefusedForCause, HasCause, HasPermission, history
  <2> QED
    BY <2>2, <2>3, <2>5, <2>6 DEF ProgramInv
<1> QED
  BY <1>1, <1>2, SubmitInv, AdministrationInv, AccountsInv DEF ProgramNext

LEMMA ProgramInvariance == ProgramSpec => []ProgramInv
  BY InitProgramInv, NextProgramInv, PTL DEF ProgramSpec

\* Every variable keeps its type, and there is a call exactly while one runs.
THEOREM ProgramTypeCorrect == ProgramSpec => []ProgramTypeOK
<1>1. ProgramInv => ProgramTypeOK
  BY DEF ProgramInv
<1> QED
  BY <1>1, ProgramInvariance, PTL

\* A call that takes effect was for a pool and a fee owner of the lists written last,
\* however the configuration was rewritten, closed and created before
\* (security/mod.rs, entry_check_and_snapshot).
THEOREM OnlyListedIsServed == ProgramSpec => []ServedAsListed
<1>1. ProgramInv => ServedAsListed
  <2> SUFFICES ASSUME ProgramInv, pc = "done"
               PROVE  /\ call.pool \in listed.pools
                      /\ call.feeOwner \in listed.feeOwners \cup {Signer, call.recipient}
    BY DEF ServedAsListed
  <2>1. EntryCheck(call) = "none" /\ IInv /\ ListsMatch /\ call \in Calls
    BY DEF ProgramInv, InCall, Accepted, ProgramTypeOK
  <2>2. call.pool \in Keys
    BY <2>1, HandlerAssumption DEF CallType
  <2>3. WhitelistError(call.pool) = "none"
    BY <2>1 DEF EntryCheck, AccountsError
  <2>4. call.pool \in listed.pools
    BY <2>1, <2>2, <2>3, WhitelistIsListed
  <2>5. \A t \in OtherTokens(call) :
          TokenAccountAllowed(t, Signer, call.recipient, AllowedFeeOwners)
    BY <2>1 DEF EntryCheck, AccountsError
  <2>6. call.feeOwner \in AllowedFeeOwners \cup {Signer, call.recipient}
    BY <2>5 DEF OtherTokens, TokenAccountAllowed
  <2> QED
    BY <2>1, <2>4, <2>6, FeeOwnersAreListed
<1> QED
  BY <1>1, ProgramInvariance, PTL

\* The security layer refuses a call only for a cause outside the program
\* (security/mod.rs, entry and exit check, for every body of lib.rs).
THEOREM RefusalHasCause == ProgramSpec => []RefusedForCause
<1>1. ProgramInv => RefusedForCause
  BY DEF ProgramInv
<1> QED
  BY <1>1, ProgramInvariance, PTL

\* The lamport check blocks the business calls exactly after donations
\* (security/mod.rs, exit_check, part 1).
THEOREM DonationsBlock == ProgramSpec => []BlockedByDonations
  BY LeakedIsDonated, ProgramInvariance, PTL

\* A call that takes effect leaves the signer's accounts, in the main list and among the
\* remaining accounts, without permissions (security/mod.rs, exit_check, part 2).
THEOREM CommittedIsClean == ProgramSpec => []CommittedAccountsClean
<1>1. ProgramInv => CommittedAccountsClean
  <2> SUFFICES ASSUME ProgramInv, pc = "done", NEW a \in Passed(call), IsTokenAccount(saved[a])
               PROVE  \/ IsUninitialized(acct[a]) /\ a = "wsol" /\ saved[a].ata
                      \/ IsTokenAccount(acct[a]) /\ ~acct[a].delegate /\ ~acct[a].closeAuth
    BY DEF CommittedAccountsClean
  <2>1. a \in snapshot /\ ExitErrors = {}
    BY DEF ProgramInv, InCall, Accepted
  <2>2. SignerAccountError(acct[a], a = "wsol" /\ saved[a].ata, Signer) = "none"
    BY <2>1 DEF ExitErrors
  <2> QED
    BY <2>2 DEF SignerAccountError
<1> QED
  BY <1>1, ProgramInvariance, PTL

(***************************************************************************)
(* Refinement of Gate.  The registry is that of SecurityConfig; a call is  *)
(* served in the step that commits it.  A closed account of the signer has *)
(* no permission, so that those granted are on open accounts, which the    *)
(* exit check has looked at.                                               *)
(***************************************************************************)
Bare(a) == ~a.delegate /\ ~a.closeAuth

ClosedBare ==
  \A a \in Accounts : /\ ~IsTokenAccount(acct[a]) => Bare(acct[a])
                      /\ ~IsTokenAccount(saved[a]) => Bare(saved[a])

GateInv == ProgramInv /\ ClosedBare

LEMMA ClosedIsBare == ~IsTokenAccount(Closed) /\ Bare(Closed)
  BY DEF Closed, Opened, IsTokenAccount, Bare

LEMMA OpenedIsOpen == \A isAta \in BOOLEAN : IsTokenAccount(Opened(isAta))
  BY DEF Opened, IsTokenAccount

\* What a step does to the accounts.
LEMMA AccountSteps ==
  ASSUME ProgramNext
  PROVE  \/ acct' \in {acct, saved} /\ saved' \in {acct, saved}
         \/ acct' = [acct EXCEPT !["wsol"] = Closed] /\ saved' = saved
         \/ saved' = acct' /\ \E a \in Accounts, perm \in Permissions :
              /\ IsTokenAccount(acct[a])
              /\ acct' = [acct EXCEPT ![a].delegate = perm.delegate,
                                      ![a].closeAuth = perm.closeAuth]
         \/ saved' = acct' /\ \E isAta \in BOOLEAN :
              acct' = [acct EXCEPT !["wsol"] = Opened(isAta)]
<1>1. ASSUME NEW c \in Calls, EntryRefuses(c) \/ Enter(c)
      PROVE  acct' = acct /\ saved' = acct
  BY <1>1 DEF EntryRefuses, Enter, Submit
<1>2. ASSUME NEW b \in BOOLEAN, BodySucceeds(b) \/ BodyFails(b)
      PROVE  acct' \in {acct, [acct EXCEPT !["wsol"] = Closed]} /\ saved' = saved
  BY <1>2 DEF BodySucceeds, BodyFails
<1>3. CASE CpiFails \/ ExitRefuses \/ ErrorReturned \/ Commit \/ Return
  BY <1>3 DEF CpiFails, ExitRefuses, ErrorReturned, Commit, Return, Refuse, running
<1>4. CASE Administration \/ Donate
  BY <1>4 DEF Administration, CreateConfig, UpdateConfig, WriteLists, CloseConfig, Donate,
              running
<1>5. ASSUME NEW a \in {"wsol", "nft"}, NEW perm \in Permissions, SetPermissions(a, perm)
      PROVE  /\ saved' = acct' /\ a \in Accounts /\ IsTokenAccount(acct[a])
             /\ acct' = [acct EXCEPT ![a].delegate = perm.delegate,
                                     ![a].closeAuth = perm.closeAuth]
  BY <1>5 DEF SetPermissions, Accounts
<1>6. ASSUME NEW isAta \in BOOLEAN, ReopenNative(isAta)
      PROVE  saved' = acct' /\ acct' = [acct EXCEPT !["wsol"] = Opened(isAta)]
  BY <1>6 DEF ReopenNative
<1> QED
  BY <1>1, <1>2, <1>3, <1>4, <1>5, <1>6 DEF ProgramNext, Handler

LEMMA NextGateInv == GateInv /\ [ProgramNext]_programVars => GateInv'
<1> SUFFICES ASSUME GateInv, [ProgramNext]_programVars PROVE ClosedBare'
  BY NextProgramInv DEF GateInv
<1>1. acct \in [Accounts -> AccountType] /\ saved \in [Accounts -> AccountType] /\ ClosedBare
  BY DEF GateInv, ProgramInv, ProgramTypeOK
<1>2. CASE acct' \in {acct, saved} /\ saved' \in {acct, saved}
  BY <1>1, <1>2 DEF ClosedBare
<1>3. CASE acct' = [acct EXCEPT !["wsol"] = Closed] /\ saved' = saved
  BY <1>1, <1>3, ClosedIsBare DEF ClosedBare
<1>4. ASSUME NEW a \in Accounts, NEW perm \in Permissions, saved' = acct',
             IsTokenAccount(acct[a]),
             acct' = [acct EXCEPT ![a].delegate = perm.delegate,
                                  ![a].closeAuth = perm.closeAuth]
      PROVE  ClosedBare'
  <2>1. IsTokenAccount(acct'[a]) /\ \A b \in Accounts \ {a} : acct'[b] = acct[b]
    BY <1>1, <1>4 DEF IsTokenAccount, AccountType
  <2> QED
    BY <1>1, <1>4, <2>1 DEF ClosedBare
<1>5. ASSUME NEW isAta \in BOOLEAN, saved' = acct',
             acct' = [acct EXCEPT !["wsol"] = Opened(isAta)]
      PROVE  ClosedBare'
  BY <1>1, <1>5, OpenedIsOpen DEF ClosedBare
<1>6. CASE UNCHANGED programVars
  BY <1>1, <1>6 DEF programVars, running, ClosedBare
<1> QED
  BY <1>2, <1>3, <1>4, <1>5, <1>6, AccountSteps

LEMMA GateInvariance == ProgramSpec => []GateInv
<1>1. ProgramInit => GateInv
  <2>1. ProgramInit => ClosedBare
    BY OpenedIsOpen DEF ProgramInit, ClosedBare
  <2> QED
    BY <2>1, InitProgramInv DEF GateInv
<1> QED
  BY <1>1, NextGateInv, PTL DEF ProgramSpec

\* What the gate sees of a step that leaves the configuration alone.
LEMMA RegistryKept ==
  ASSUME UNCHANGED vars
  PROVE  UNCHANGED <<Promise!rvars, Blocked>>
<1>1. UNCHANGED <<owner, data, lamports>>
  BY DEF vars
<1> QED
  BY <1>1, ParsersKept DEF Promise!rvars, Admin, Blocked

LEMMA GrantedType == Granted \subseteq Accounts
  BY DEF Granted

\* The accounts a call is not given are as they were.
LEMMA OtherAccountsKept ==
  ASSUME ProgramInv, Accepted, NEW a \in Accounts, a \notin Passed(call) \/ a # "wsol"
  PROVE  acct[a] = saved[a]
  BY DEF ProgramInv, InCall, Unchanged, Passed, MainAccounts

\* What the exit check lets pass is open and without permission, or closed.
LEMMA PassedIsBare ==
  ASSUME GateInv, pc = "exit", ExitErrors = {}, NEW a \in Passed(call), a \in Accounts
  PROVE  Bare(acct[a])
<1>1. /\ snapshot = {b \in Passed(call) : IsTokenAccount(saved[b])} /\ Unchanged(a)
      /\ ClosedBare
  BY DEF GateInv, ProgramInv, InCall, Accepted
<1>2. CASE IsTokenAccount(saved[a])
  <2>1. SignerAccountError(acct[a], a = "wsol" /\ saved[a].ata, Signer) = "none"
    BY <1>1, <1>2 DEF ExitErrors
  <2> QED
    BY <1>1, <2>1 DEF SignerAccountError, ClosedBare, Bare
<1>3. CASE ~IsTokenAccount(saved[a])
  BY <1>1, <1>3, ClosedIsBare DEF Unchanged, ClosedBare
<1> QED
  BY <1>2, <1>3

LEMMA CommitServes == GateInv /\ Commit => Promise!Serve
<1> SUFFICES ASSUME GateInv, Commit PROVE Promise!Serve
  OBVIOUS
<1>1. /\ pc = "exit" /\ pc' = "done" /\ ExitErrors = {}
      /\ UNCHANGED <<vars, acct, call, saved>>
  BY DEF Commit, running
<1>2. /\ ProgramInv /\ EntryCheck(call) = "none" /\ call \in Calls /\ call \in CallType
  BY <1>1, HandlerAssumption DEF GateInv, ProgramInv, ProgramTypeOK, InCall, Accepted
<1>3. Passed(call)' = Passed(call) /\ Passed(call) \subseteq Accounts
  BY <1>1, <1>2 DEF Passed, MainAccounts, Accounts, CallType
<1>4. LastServed = Promise!Nothing
  BY <1>1 DEF LastServed, Promise!Nothing
<1>5. LastServed' = [pool |-> call.pool, feeOwner |-> call.feeOwner,
                     recipient |-> call.recipient, accounts |-> Passed(call)]
  BY <1>1, <1>3 DEF LastServed
<1>6. LastServed' \in Promise!ServedType
  BY <1>2, <1>3, <1>5 DEF Promise!ServedType, CallType
<1>7. ~Blocked
  BY <1>1 DEF ExitErrors, Blocked
<1>8. call.pool \in AllowedPools
  BY <1>2 DEF EntryCheck, AccountsError, AllowedPools, CallType
<1>9. call.feeOwner \in AllowedFeeOwners \cup {Signer, call.recipient}
  <2>1. \A t \in OtherTokens(call) :
          TokenAccountAllowed(t, Signer, call.recipient, AllowedFeeOwners)
    BY <1>2 DEF EntryCheck, AccountsError
  <2> QED
    BY <2>1 DEF OtherTokens, TokenAccountAllowed
<1>10. /\ Granted = {a \in Accounts : ~Bare(saved[a])}
       /\ Granted' = {a \in Accounts : ~Bare(acct[a])}
  BY <1>1 DEF Granted, Visible, Bare
<1>11. /\ \A a \in Passed(call) : Bare(acct[a])
       /\ \A a \in Accounts : a \notin Passed(call) \/ a # "wsol" => acct[a] = saved[a]
  BY <1>1, <1>2, <1>3, PassedIsBare, OtherAccountsKept DEF Accepted
<1>12. Granted' = Granted \ Passed(call)
  BY <1>10, <1>11
<1>13. Granted \cap Passed(call) \subseteq {"wsol"}
  BY <1>10, <1>11
<1>14. UNCHANGED <<Promise!rvars, Blocked>>
  BY <1>1, RegistryKept
<1> QED
  BY <1>4, <1>5, <1>6, <1>7, <1>8, <1>9, <1>12, <1>13, <1>14 DEF Promise!Serve

LEMMA ServedSomething == GateInv /\ pc = "done" => LastServed # Promise!Nothing
<1> SUFFICES ASSUME GateInv, pc = "done" PROVE LastServed.pool # NoAdmin
  BY DEF Promise!Nothing
<1>1. call.pool \in Keys
  BY HandlerAssumption DEF GateInv, ProgramInv, ProgramTypeOK, CallType
<1> QED
  BY <1>1, ConfigAssumption DEF LastServed

LEMMA ReturnFinishes == GateInv /\ Return => [Promise!Finish]_(Promise!gvars)
<1> SUFFICES ASSUME GateInv, Return PROVE [Promise!Finish]_(Promise!gvars)
  OBVIOUS
<1>1. pc \in {"done", "refused"} /\ pc' = "idle" /\ UNCHANGED <<vars, acct>>
  BY DEF Return
<1>2. UNCHANGED <<Promise!rvars, Blocked>>
  BY <1>1, RegistryKept
<1>3. Granted' = Granted
  BY <1>1 DEF Granted, Visible
<1>4. LastServed' = Promise!Nothing
  BY <1>1 DEF LastServed, Promise!Nothing
<1>5. CASE pc = "done"
  BY <1>2, <1>3, <1>4, <1>5, ServedSomething DEF Promise!Finish
<1>6. CASE pc = "refused"
  BY <1>2, <1>3, <1>4, <1>6 DEF Promise!gvars, LastServed, Promise!Nothing
<1> QED
  BY <1>1, <1>5, <1>6

\* The other steps of a call are not seen by the gate.
LEMMA InsideStutters ==
  ASSUME GateInv,
         \/ \E c \in Calls : EntryRefuses(c) \/ Enter(c)
         \/ Handler /\ ~Commit /\ ~Return
  PROVE  UNCHANGED Promise!gvars
<1>1. /\ pc # "done" /\ pc' # "done" /\ UNCHANGED vars /\ Visible' = Visible
  <2>1. ASSUME NEW c \in Calls, EntryRefuses(c) \/ Enter(c)
        PROVE  /\ pc = "idle" /\ pc' \in {"refused", "body"}
               /\ UNCHANGED vars /\ acct' = acct /\ saved' = acct
    BY <2>1 DEF EntryRefuses, Enter, Submit
  <2>2. CASE Handler /\ ~Commit /\ ~Return
    <3>1. ASSUME NEW b \in BOOLEAN, BodySucceeds(b) \/ BodyFails(b)
          PROVE  pc = "body" /\ pc' = "exit" /\ UNCHANGED <<vars, saved>>
      BY <3>1 DEF BodySucceeds, BodyFails
    <3>2. CASE CpiFails \/ ExitRefuses \/ ErrorReturned
      <4>1. pc \in {"body", "exit"} /\ pc' = "refused" /\ acct' = saved /\ UNCHANGED vars
        BY <3>2 DEF CpiFails, ExitRefuses, ErrorReturned, Refuse
      <4> QED
        BY <4>1 DEF Visible
    <3> QED
      BY <2>2, <3>1, <3>2 DEF Handler, Visible
  <2> QED
    BY <2>1, <2>2 DEF Visible
<1>2. UNCHANGED <<Promise!rvars, Blocked>>
  BY <1>1, RegistryKept
<1>3. Granted' = Granted /\ LastServed' = LastServed
  BY <1>1 DEF Granted, LastServed
<1> QED
  BY <1>2, <1>3 DEF Promise!gvars

\* An instruction of the configuration is one of the registry.
LEMMA AdministrationRefines ==
  ASSUME GateInv, Administration
  PROVE  Promise!Administer
<1>1. pc = "idle" /\ UNCHANGED <<acct, pc, call, saved>>
  BY DEF Administration, CreateConfig, UpdateConfig, WriteLists, CloseConfig, running
<1>2. LastServed = Promise!Nothing /\ UNCHANGED <<Granted, LastServed>>
  BY <1>1 DEF LastServed, Promise!Nothing, Granted, Visible
<1>3. Blocked' \in BOOLEAN
  BY DEF Blocked
<1>4. ProgramInv /\ IInv /\ \A k \in Keys : k # NoAdmin
  BY ConfigAssumption DEF GateInv, ProgramInv
<1>5. ASSUME NEW a \in Keys, NEW l \in Lists, CreateConfig(a, l) \/ UpdateConfig(a, l)
      PROVE  Promise!Administer
  <2> DEFINE P == Listed(l.pools)
             F == Listed(l.feeOwners)
  <2>1. /\ owner' = "lp_handler" /\ AllowedPools' = P /\ AllowedFeeOwners' = F
        /\ P # {} /\ P \in SUBSET Keys /\ F \in SUBSET Keys
    BY <1>4, <1>5, WriteStep
  <2>2. data'[AuthorityAt] = a
    BY <1>4, <1>5, WrittenAuthority
  <2> HIDE DEF P, F
  <2>3. CASE CreateConfig(a, l)
    <3>1. owner = "system"
      BY <2>3 DEF CreateConfig, InitSecurityConfig
    <3>2. Promise!Create(a, P, F)
      BY <2>1, <2>2, <3>1 DEF Promise!Create, Admin
    <3> QED
      BY <1>2, <1>3, <2>1, <3>2 DEF Promise!Administer
  <2>4. CASE UpdateConfig(a, l)
    <3>1. owner = "lp_handler" /\ data[AuthorityAt] = a /\ UNCHANGED <<owner, lamports>>
      BY <2>4 DEF UpdateConfig, UpdateSecurityConfig
    <3>2. Promise!Replace(P, F) /\ UNCHANGED Blocked
      BY <1>4, <2>1, <2>2, <3>1 DEF Promise!Replace, Admin, Blocked
    <3> QED
      BY <1>2, <2>1, <3>2 DEF Promise!Administer
  <2> QED
    BY <1>5, <2>3, <2>4
<1>6. ASSUME NEW a \in Keys, CloseConfig(a) PROVE Promise!Administer
  <2>1. owner = "lp_handler" /\ data[AuthorityAt] = a /\ owner' = "system"
    BY <1>6 DEF CloseConfig, CloseSecurityConfig
  <2>2. AllowedPools' = {} /\ AllowedFeeOwners' = {}
    BY <2>1 DEF AllowedPools, AllowedFeeOwners, WhitelistError, FeeOwnerAllowed
  <2>3. Promise!Remove /\ Blocked' = FALSE
    BY <1>4, <2>1, <2>2 DEF Promise!Remove, Admin, Blocked
  <2> QED
    BY <1>2, <2>3 DEF Promise!Administer
<1> QED
  BY <1>5, <1>6 DEF Administration

\* A live account holds its rent: every lamport sent to it is one too many.
LEMMA DonationBlocks ==
  ASSUME GateInv, Donate
  PROVE  [Promise!Fund]_(Promise!gvars)
<1>1. /\ pc = "idle" /\ UNCHANGED <<owner, data, acct, pc, call, saved>>
      /\ lamports' = lamports + 1
  BY DEF Donate, ReceiveLamports, running
<1>2. /\ LastServed = Promise!Nothing /\ UNCHANGED <<Granted, LastServed>>
  BY <1>1 DEF LastServed, Promise!Nothing, Granted, Visible
<1>3. UNCHANGED Promise!rvars
  BY <1>1, ParsersKept DEF Promise!rvars, Admin
<1>4. CASE owner = "lp_handler"
  <2>1. lamports \in Nat /\ RentMin \in Nat /\ lamports >= RentMin
    <3>1. donated.before \in Nat /\ donated.after \in Nat /\ lamports \in Nat /\ RentMin \in Nat
      BY ConfigAssumption DEF GateInv, ProgramInv, ProgramTypeOK, TypeOK
    <3>2. lamports = donated.after
                       + (IF donated.before >= RentMin THEN donated.before ELSE RentMin)
      BY <1>4 DEF GateInv, ProgramInv, Donations
    <3> QED
      BY <3>1, <3>2
  <2>2. Blocked'
    BY <1>1, <1>4, <2>1 DEF Blocked, LamportsLeaked
  <2>3. Admin # NoAdmin
    BY <1>4, ConfigAssumption DEF GateInv, ProgramInv, IInv, LiveConfigParses, Admin
  <2>4. Blocked' = TRUE
    BY <2>2 DEF Blocked
  <2> QED
    BY <1>2, <1>3, <2>3, <2>4 DEF Promise!Fund
<1>5. CASE owner # "lp_handler"
  <2>1. Blocked' = Blocked
    BY <1>1, <1>5 DEF Blocked
  <2> QED
    BY <1>2, <1>3, <2>1 DEF Promise!gvars
<1> QED
  BY <1>4, <1>5

\* What the signer does to its accounts between two calls.
LEMMA SignerGrants ==
  ASSUME \/ \E a \in {"wsol", "nft"}, perm \in Permissions : SetPermissions(a, perm)
         \/ \E isAta \in BOOLEAN : ReopenNative(isAta)
  PROVE  Promise!Grant
<1>1. pc = "idle" /\ UNCHANGED <<vars, pc>>
  BY DEF SetPermissions, ReopenNative
<1>2. /\ LastServed = Promise!Nothing /\ LastServed' = LastServed
  BY <1>1 DEF LastServed, Promise!Nothing
<1>3. Granted' \in SUBSET Accounts
  BY DEF Granted
<1>4. UNCHANGED <<Promise!rvars, Blocked>>
  BY <1>1, RegistryKept
<1> QED
  BY <1>2, <1>3, <1>4 DEF Promise!Grant

LEMMA ProgramStutters == UNCHANGED programVars => UNCHANGED Promise!gvars
<1> SUFFICES ASSUME UNCHANGED programVars PROVE UNCHANGED Promise!gvars
  OBVIOUS
<1>1. UNCHANGED <<vars, acct, pc, call, saved>>
  BY DEF programVars, running
<1>2. UNCHANGED <<Promise!rvars, Blocked>>
  BY <1>1, RegistryKept
<1>3. Granted' = Granted /\ LastServed' = LastServed
  BY <1>1 DEF Granted, Visible, LastServed, Passed, MainAccounts
<1> QED
  BY <1>2, <1>3 DEF Promise!gvars

\* The program is a gate: each call takes effect in one step under the registry as it
\* stands, unblocked and without permission left, or changes nothing; the registry changes
\* only between calls, by its administrator (lib.rs, secure_entrypoint!; security/mod.rs).
THEOREM ProgramIsGate == ProgramSpec => ImplementsGate
<1>1. ProgramInit => Promise!GateInit
  <2> SUFFICES ASSUME ProgramInit PROVE Promise!GateInit
    OBVIOUS
  <2>1. owner # "lp_handler" /\ pc = "idle"
    BY DEF ProgramInit, Init
  <2>2. Promise!Init
    BY <2>1, AbsentAllowsNothing DEF Promise!Init, Admin
  <2>3. Blocked = FALSE /\ LastServed = Promise!Nothing
    BY <2>1 DEF Blocked, LastServed, Promise!Nothing
  <2>4. \A isAta \in BOOLEAN : Bare(Opened(isAta))
    BY DEF Opened, Bare
  <2>5. Granted = {}
    <3>1. \A a \in Accounts : Bare(acct[a])
      BY <2>4 DEF ProgramInit
    <3> QED
      BY <2>1, <3>1 DEF Granted, Visible, Bare
  <2> QED
    BY <2>2, <2>3, <2>5 DEF Promise!GateInit
<1>2. GateInv /\ [ProgramNext]_programVars => [Promise!GateNext]_(Promise!gvars)
  <2> SUFFICES ASSUME GateInv, [ProgramNext]_programVars
               PROVE  [Promise!GateNext]_(Promise!gvars)
    OBVIOUS
  <2>1. CASE Handler \/ \E c \in Calls : EntryRefuses(c) \/ Enter(c)
    BY <2>1, CommitServes, ReturnFinishes, InsideStutters DEF Promise!GateNext
  <2>2. CASE Administration \/ Donate
    BY <2>2, AdministrationRefines, DonationBlocks DEF Promise!GateNext
  <2>3. CASE \/ \E a \in {"wsol", "nft"}, perm \in Permissions : SetPermissions(a, perm)
             \/ \E isAta \in BOOLEAN : ReopenNative(isAta)
    BY <2>3, SignerGrants DEF Promise!GateNext
  <2>4. CASE UNCHANGED programVars
    BY <2>4, ProgramStutters
  <2> QED
    BY <2>1, <2>2, <2>3, <2>4 DEF ProgramNext
<1> QED
  BY <1>1, <1>2, GateInvariance, PTL DEF ProgramSpec, ImplementsGate, Promise!GateSpec

=============================================================================

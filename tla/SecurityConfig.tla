---------------------------- MODULE SecurityConfig ----------------------------
(***************************************************************************)
(* The security_config PDA: its instructions (instructions/                *)
(* security_config.rs), its layout (state/security_config.rs) and the      *)
(* parsers by which the entry check reads it without deserialising it      *)
(* (security/mod.rs).                                                      *)
(*                                                                         *)
(* The account data is a function from 1..SIZE to cells.  A cell is a      *)
(* 32-byte key or a 4-byte length; the discriminator takes one cell.       *)
(* Borsh writes discriminator, authority, pool count, pools, fee owner     *)
(* count, fee owners from the start of the data and leaves what lies       *)
(* beyond as it was: after an update with shorter lists the old entries    *)
(* are still in the data.                                                  *)
(***************************************************************************)
EXTENDS Naturals, Sequences

CONSTANTS
  Keys,                       \* the public keys considered
  Disc,                       \* Anchor's discriminator of SecurityConfig
  NoAdmin,                    \* no administrator (the account does not exist)
  MAX_ALLOWED_POOLS, MAX_FEE_OWNERS,
  RentMin,                    \* rent-exempt minimum of the account
  MaxLamports                 \* bound on the lamports the account may hold

ASSUME ConfigAssumption ==
  /\ MAX_ALLOWED_POOLS \in Nat \ {0} /\ MAX_FEE_OWNERS \in Nat
  /\ RentMin \in Nat /\ MaxLamports \in Nat
  /\ Disc \notin Nat /\ Disc \notin Keys
  /\ NoAdmin \notin Keys
  /\ Keys \cap Nat = {}

VARIABLES owner, data, lamports

vars == <<owner, data, lamports>>

SIZE == 1 + 1 + 1 + MAX_ALLOWED_POOLS + 1 + MAX_FEE_OWNERS

Cells == Keys \cup Nat \cup {Disc}

\* Offsets of the serialised fields, for a list of n pools.
AuthorityAt == 2
PoolsLenAt == 3
PoolsStart == 4
FeeLenAt(n) == PoolsStart + n
FeeStart(n) == FeeLenAt(n) + 1

KeyLists(max) == UNION {[1..n -> Keys] : n \in 0..max}

Listed(list) == {list[i] : i \in DOMAIN list}

(***************************************************************************)
(* Serialisation.                                                          *)
(***************************************************************************)
\* The bytes Borsh writes, over what the account held.
Serialize(old, authority, ps, fs) ==
  [i \in 1..SIZE |->
     IF i = 1 THEN Disc
     ELSE IF i = AuthorityAt THEN authority
     ELSE IF i = PoolsLenAt THEN Len(ps)
     ELSE IF i < FeeLenAt(Len(ps)) THEN ps[i - PoolsLenAt]
     ELSE IF i = FeeLenAt(Len(ps)) THEN Len(fs)
     ELSE IF i < FeeStart(Len(ps)) + Len(fs) THEN fs[i - FeeLenAt(Len(ps))]
     ELSE old[i]]

Zeroed == [i \in 1..SIZE |-> 0]
NoData == <<>>

(***************************************************************************)
(* The parsers of the entry check.                                         *)
(***************************************************************************)
ConfigUninitialized == owner = "system" /\ data = NoData

\* u32::from_le_bytes: the bytes of a key read as a length.  The value is
\* arbitrary, never one the code relies on.
LenAt(off) == IF data[off] \in Nat THEN data[off] ELSE SIZE

PoolsLen == LenAt(PoolsLenAt)
PoolsLenOk == PoolsLen <= MAX_ALLOWED_POOLS /\ PoolsLenAt + PoolsLen <= SIZE

FeeOwnersLen == LenAt(FeeLenAt(PoolsLen))
FeeOwnersLenOk ==
  /\ FeeLenAt(PoolsLen) <= SIZE
  /\ FeeOwnersLen <= MAX_FEE_OWNERS
  /\ FeeLenAt(PoolsLen) + FeeOwnersLen <= SIZE

\* A bug: the scan ignores the length and reads entries of earlier lists.
MutContainsPool(k) == \E i \in 0..(MAX_ALLOWED_POOLS - 1) : data[PoolsStart + i] = k

ContainsPool(k) == \E i \in 0..(PoolsLen - 1) : data[PoolsStart + i] = k
ContainsFeeOwner(k) ==
  \E i \in 0..(FeeOwnersLen - 1) : data[FeeStart(PoolsLen) + i] = k

\* load_security_config and the whitelist part of entry_check_and_snapshot
WhitelistError(pool) ==
  IF ConfigUninitialized THEN "SecurityPoolWhitelistMissing"
  ELSE IF owner # "lp_handler" THEN "SecurityPoolWhitelistInvalid"
  ELSE IF ~PoolsLenOk \/ ~FeeOwnersLenOk THEN "SecurityPoolWhitelistInvalid"
  ELSE IF PoolsLen = 0 THEN "SecurityPoolWhitelistInvalid"
  ELSE IF ~ContainsPool(pool) THEN "SecurityPoolNotAllowed"
  ELSE "none"

FeeOwnerAllowed(k) ==
  /\ owner = "lp_handler"
  /\ FeeOwnersLen # 0
  /\ ContainsFeeOwner(k)

(***************************************************************************)
(* Instructions.                                                           *)
(***************************************************************************)
\* A bug: the number of fee owners is not checked.
MutListsError(ps, fs) ==
  IF Len(ps) = 0 THEN "SecurityConfigPoolsEmpty"
  ELSE IF Len(ps) > MAX_ALLOWED_POOLS THEN "MathOverflow" ELSE "none"

ListsError(ps, fs) ==
  IF Len(ps) = 0 THEN "SecurityConfigPoolsEmpty"
  ELSE IF Len(ps) > MAX_ALLOWED_POOLS \/ Len(fs) > MAX_FEE_OWNERS THEN "MathOverflow"
  ELSE "none"

\* A bug: the payer pays the whole rent, also to an address that was funded before.
MutInitSecurityConfig(authority, ps, fs) ==
  /\ owner = "system"
  /\ ListsError(ps, fs) = "none"
  /\ owner' = "lp_handler"
  /\ lamports' = lamports + RentMin
  /\ data' = Serialize(Zeroed, authority, ps, fs)

\* Anchor creates the account (the payer brings it up to the rent, a PDA that was
\* funded before keeps what it has), zeroes it, and writes the struct.
InitSecurityConfig(authority, ps, fs) ==
  /\ owner = "system"
  /\ ListsError(ps, fs) = "none"
  /\ owner' = "lp_handler"
  /\ lamports' = IF lamports >= RentMin THEN lamports ELSE RentMin
  /\ data' = Serialize(Zeroed, authority, ps, fs)

\* A bug: whoever signs becomes the authority.
MutUpdateSecurityConfig(authority, ps, fs) ==
  /\ owner = "lp_handler"
  /\ ListsError(ps, fs) = "none"
  /\ data' = Serialize(data, authority, ps, fs)
  /\ UNCHANGED <<owner, lamports>>

\* Only the authority in the account; it stays the authority.
UpdateSecurityConfig(authority, ps, fs) ==
  /\ owner = "lp_handler"
  /\ authority = data[AuthorityAt]
  /\ ListsError(ps, fs) = "none"
  /\ data' = Serialize(data, data[AuthorityAt], ps, fs)
  /\ UNCHANGED <<owner, lamports>>

\* A bug: the data survives the closing.
MutCloseSecurityConfig(authority) ==
  /\ owner = "lp_handler"
  /\ authority = data[AuthorityAt]
  /\ owner' = "system" /\ lamports' = 0
  /\ UNCHANGED data

\* Anchor's close: lamports to the receiver, account back to the system program.
CloseSecurityConfig(authority) ==
  /\ owner = "lp_handler"
  /\ authority = data[AuthorityAt]
  /\ owner' = "system"
  /\ data' = NoData
  /\ lamports' = 0

\* Anybody may send lamports to the address of the PDA.
ReceiveLamports ==
  /\ lamports < MaxLamports
  /\ lamports' = lamports + 1
  /\ UNCHANGED <<owner, data>>

Init == owner = "system" /\ data = NoData /\ lamports = 0

Next ==
  \/ \E a \in Keys : \E ps \in KeyLists(MAX_ALLOWED_POOLS + 1) :
       \E fs \in KeyLists(MAX_FEE_OWNERS + 1) :
         InitSecurityConfig(a, ps, fs) \/ UpdateSecurityConfig(a, ps, fs)
  \/ \E a \in Keys : CloseSecurityConfig(a)
  \/ ReceiveLamports

Spec == Init /\ [][Next]_vars

(***************************************************************************)
(* Properties.                                                             *)
(***************************************************************************)

\* The account is either absent or holds SIZE cells.
TypeOK ==
  /\ owner \in {"system", "lp_handler"}
  /\ owner = "system" => data = NoData
  /\ owner = "lp_handler" => data \in [1..SIZE -> Cells]
  /\ lamports \in Nat

\* Whatever lists were written over whatever longer lists, the raw parsers of the
\* entry check find a well-formed, non-empty whitelist in a live account: it is
\* never rejected as invalid.
LiveConfigParses ==
  owner = "lp_handler" =>
    /\ PoolsLenOk /\ FeeOwnersLenOk /\ PoolsLen > 0
    /\ data[AuthorityAt] \in Keys

\* The registry the entry points see through the parsers.
AllowedPools == {k \in Keys : WhitelistError(k) = "none"}
AllowedFeeOwners == {k \in Keys : FeeOwnerAllowed(k)}

Registry == INSTANCE SecurityRegistry WITH
  admin <- IF owner = "lp_handler" THEN data[AuthorityAt] ELSE NoAdmin,
  pools <- AllowedPools,
  feeOwners <- AllowedFeeOwners

\* What the entry points see is a registry: the lists change only by the two
\* instructions of its administrator, both at once, and no entry of an earlier,
\* longer list comes back.
RefinesRegistry == Registry!Spec

\* After an instruction that writes the lists, exactly those lists are allowed.
WritesAreExact ==
  [][\A a \in Keys, ps \in KeyLists(MAX_ALLOWED_POOLS), fs \in KeyLists(MAX_FEE_OWNERS) :
       InitSecurityConfig(a, ps, fs) \/ UpdateSecurityConfig(a, ps, fs) =>
         AllowedPools' = Listed(ps) /\ AllowedFeeOwners' = Listed(fs)]_vars

(***************************************************************************)
(* What a comment says and the entry check does not do.                    *)
(***************************************************************************)

\* decrease_liquidity.rs:122-124 says that with an uninitialised configuration the
\* pool whitelist is skipped.
UninitializedSkipsWhitelist ==
  ConfigUninitialized => \A k \in Keys : WhitelistError(k) = "none"

=============================================================================

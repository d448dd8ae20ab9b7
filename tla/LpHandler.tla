------------------------------ MODULE LpHandler ------------------------------
(***************************************************************************)
(* The program as a whole, seen by the security layer: the security_config *)
(* account with its instructions, and the three business entry points of   *)
(* lib.rs, each an entry check, a body and an exit check                   *)
(* (secure_entrypoint!).  A body is modelled by what it does to the        *)
(* accounts the checks look at; the amounts it moves are the subject of    *)
(* DecreaseLiquidity and Zap.                                              *)
(*                                                                         *)
(* The signer has three token accounts: "wsol" of the native mint, "token" *)
(* of another one, and "nft" with the NFT of a position.  Between calls    *)
(* administrators rewrite, close and create the configuration, anybody     *)
(* sends lamports to it, and the signer changes permissions and opens the  *)
(* wSOL account again.                                                     *)
(***************************************************************************)
EXTENDS SecurityConfig, SecurityLayer, TokenLedger

CONSTANTS
  Lists,        \* what an administrator may list: [pools, feeOwners], two sequences
  Users, Signer,
  Calls,        \* the calls the signer may submit, see CallType
  Permissions   \* what the signer may set on an account between calls

Accounts == {"wsol", "token", "nft"}

\* native: the pool has a wSOL side.  executables are the programs among the accounts,
\* remaining the signer's accounts among the remaining accounts.
CallType == [op : {"deposit", "increase", "decrease"}, pool : Keys, native : BOOLEAN,
             recipient : Users, feeOwner : Users \cup Keys, separators : Nat,
             executables : SUBSET STRING, remaining : SUBSET Accounts]

NoCall == [op |-> "none"]

ASSUME HandlerAssumption ==
  /\ Signer \in Users
  /\ Calls \subseteq CallType
  \* lib.rs passes the signer as the recipient of increase_liquidity
  /\ \A c \in Calls : c.op = "increase" => c.recipient = Signer
  /\ Permissions \subseteq [delegate : BOOLEAN, closeAuth : BOOLEAN]
  /\ Lists \subseteq [pools : Seq(Keys), feeOwners : Seq(Keys)]

VARIABLES
  acct,                    \* the signer's accounts
  pc, call,
  saved,                   \* acct at the start of the call
  snapshot,                \* SecuritySnapshot.signer_token_accounts
  created,                 \* the accounts the body created
  outcome,                 \* the result of the body
  status,                  \* the result of the call
  listed,                  \* the lists of the last instruction that wrote them
  donated                  \* lamports sent to the PDA before and after its creation

history == <<listed, donated>>
running == <<call, saved, snapshot, created, outcome>>
programVars == <<vars, acct, pc, running, status, history>>

AccountType == [program : {"token", "system"}, empty : BOOLEAN, authority : Users,
                delegate : BOOLEAN, closeAuth : BOOLEAN, ata : BOOLEAN]

\* A token account the signer has just opened, and one that is closed.
Opened(isAta) == [program |-> "token", empty |-> FALSE, authority |-> Signer,
                  delegate |-> FALSE, closeAuth |-> FALSE, ata |-> isAta]
Closed == [Opened(FALSE) EXCEPT !.program = "system", !.empty = TRUE]

NoLists == [pools |-> {}, feeOwners |-> {}]
NoDonation == [before |-> 0, after |-> 0]

(***************************************************************************)
(* Entry.                                                                  *)
(***************************************************************************)
\* The signer's accounts in the account list of the instruction.
MainAccounts(c) ==
  {"token"} \cup (IF c.native THEN {"wsol"} ELSE {})
            \cup (IF c.op = "deposit" THEN {} ELSE {"nft"})

Passed(c) == MainAccounts(c) \cup c.remaining

\* The token accounts of the list that are not the signer's: those of the fee owner and
\* the recipient, and the vaults.
OtherTokens(c) ==
  {[authority |-> c.feeOwner, vault |-> FALSE], [authority |-> c.recipient, vault |-> FALSE],
   [authority |-> c.pool, vault |-> TRUE]}

\* entry_check_and_snapshot
EntryCheck(c) ==
  IF c.separators > 1 THEN "SecuritySeparatorInvalid"
  ELSE IF WhitelistError(c.pool) # "none" THEN WhitelistError(c.pool)
  ELSE AccountsError(c.executables, OtherTokens(c), Signer, c.recipient, AllowedFeeOwners)

\* A bug: the remaining accounts are not scanned.
MutSignerTokenAccounts(c) ==
  {a \in MainAccounts(c) : IsTokenAccount(acct[a]) /\ acct[a].authority = Signer}

SignerTokenAccounts(c) ==
  {a \in Passed(c) : IsTokenAccount(acct[a]) /\ acct[a].authority = Signer}

\* Anchor deserialises the transit accounts and the NFT account: they must exist.
Submit(c) ==
  /\ pc = "idle"
  /\ \A a \in MainAccounts(c) : IsTokenAccount(acct[a])
  /\ call' = c
  /\ saved' = acct
  /\ UNCHANGED <<vars, acct, history>>

EntryRefuses(c) ==
  /\ Submit(c)
  /\ EntryCheck(c) # "none"
  /\ pc' = "refused"
  /\ status' = EntryCheck(c)
  /\ UNCHANGED <<snapshot, created, outcome>>

Enter(c) ==
  /\ Submit(c)
  /\ EntryCheck(c) = "none"
  /\ snapshot' = SignerTokenAccounts(c)
  /\ pc' = "body"
  /\ UNCHANGED <<created, outcome, status>>

\* The runtime drops every change of a failed instruction.
Refuse(err) ==
  /\ acct' = saved
  /\ pc' = "refused"
  /\ status' = err
  /\ UNCHANGED <<vars, running, history>>

(***************************************************************************)
(* The bodies.                                                             *)
(***************************************************************************)
\* What open_position_with_token22_nft creates: the NFT account of the recipient, its
\* mint, which is no token account, and Raydium's accounts.
PositionAccounts ==
  {[program |-> "token", empty |-> FALSE, authority |-> call.recipient],
   [program |-> "raydium", empty |-> FALSE, authority |-> call.recipient]}

\* A deposit closes the wSOL account in every case, a withdrawal when there is something
\* to settle in it.
BodySucceeds(closes) ==
  /\ pc = "body"
  /\ closes => call.native /\ ~CloseRefused(acct["wsol"])
  /\ ~closes => ~call.native \/ call.op = "decrease"
  /\ acct' = IF closes THEN [acct EXCEPT !["wsol"] = Closed] ELSE acct
  /\ created' = IF call.op = "deposit" THEN PositionAccounts ELSE {}
  /\ outcome' = "ok"
  /\ pc' = "exit"
  /\ UNCHANGED <<vars, call, saved, snapshot, status, history>>

\* The body returns an error, before or after the position was opened.  The closing of
\* the wSOL account is followed by cross-program calls only.
BodyFails(opened) ==
  /\ pc = "body"
  /\ opened => call.op = "deposit"
  /\ created' = IF opened THEN PositionAccounts ELSE {}
  /\ outcome' = "error"
  /\ pc' = "exit"
  /\ UNCHANGED <<vars, acct, call, saved, snapshot, status, history>>

\* A failed cross-program call ends the instruction at once.
CpiFails == pc = "body" /\ Refuse("CpiError")

(***************************************************************************)
(* Exit.                                                                   *)
(***************************************************************************)
\* A bug: the lamports of the PDA are not looked at.
MutExitErrors ==
  LET changed == {SignerAccountError(acct[a], a = "wsol" /\ saved[a].ata, Signer) :
                    a \in snapshot} \ {"none"}
      made    == {CreatedAccountError(a, Signer, call.recipient) : a \in created} \ {"none"}
  IN IF changed # {} THEN changed ELSE made

\* The errors of exit_check, in the order of its parts.  Within a part the first account
\* of the list decides; the model takes any of them.
ExitErrors ==
  LET leaked  == owner = "lp_handler" /\ LamportsLeaked(lamports, RentMin)
      changed == {SignerAccountError(acct[a], a = "wsol" /\ saved[a].ata, Signer) :
                    a \in snapshot} \ {"none"}
      made    == {CreatedAccountError(a, Signer, call.recipient) : a \in created} \ {"none"}
  IN IF leaked THEN {"SecurityProgramLamportsLeaked"}
     ELSE IF changed # {} THEN changed ELSE made

\* The exit check comes before the result of the body, also when that is an error.
ExitRefuses == pc = "exit" /\ \E e \in ExitErrors : Refuse(e)

ErrorReturned ==
  /\ pc = "exit"
  /\ ExitErrors = {} /\ outcome = "error"
  /\ Refuse("BodyError")

Commit ==
  /\ pc = "exit"
  /\ ExitErrors = {} /\ outcome = "ok"
  /\ pc' = "done"
  /\ status' = "ok"
  /\ UNCHANGED <<vars, acct, running, history>>

Return ==
  /\ pc \in {"done", "refused"}
  /\ pc' = "idle"
  /\ call' = NoCall
  /\ snapshot' = {} /\ created' = {} /\ outcome' = "none" /\ status' = "none"
  /\ saved' = acct
  /\ UNCHANGED <<vars, acct, history>>

(***************************************************************************)
(* Between two calls.                                                      *)
(***************************************************************************)
WriteLists(l) ==
  /\ pc = "idle"
  /\ listed' = [pools |-> Listed(l.pools), feeOwners |-> Listed(l.feeOwners)]
  /\ UNCHANGED <<acct, pc, running, status, donated>>

CreateConfig(a, l) == WriteLists(l) /\ InitSecurityConfig(a, l.pools, l.feeOwners)
UpdateConfig(a, l) == WriteLists(l) /\ UpdateSecurityConfig(a, l.pools, l.feeOwners)

CloseConfig(a) ==
  /\ pc = "idle"
  /\ CloseSecurityConfig(a)
  /\ listed' = NoLists /\ donated' = NoDonation
  /\ UNCHANGED <<acct, pc, running, status>>

Donate ==
  /\ pc = "idle"
  /\ ReceiveLamports
  /\ donated' = IF owner = "lp_handler" THEN [donated EXCEPT !.after = @ + 1]
                                        ELSE [donated EXCEPT !.before = @ + 1]
  /\ UNCHANGED <<acct, pc, running, status, listed>>

SetPermissions(a, perm) ==
  /\ pc = "idle"
  /\ IsTokenAccount(acct[a])
  /\ acct' = [acct EXCEPT ![a].delegate = perm.delegate, ![a].closeAuth = perm.closeAuth]
  /\ saved' = acct'
  /\ UNCHANGED <<vars, pc, call, snapshot, created, outcome, status, history>>

ReopenNative(isAta) ==
  /\ pc = "idle"
  /\ IsUninitialized(acct["wsol"])
  /\ acct' = [acct EXCEPT !["wsol"] = Opened(isAta)]
  /\ saved' = acct'
  /\ UNCHANGED <<vars, pc, call, snapshot, created, outcome, status, history>>

(***************************************************************************)
(* Specification.                                                          *)
(***************************************************************************)
ProgramInit ==
  /\ Init
  /\ \E isAta \in BOOLEAN :
       acct = [a \in Accounts |-> Opened(isAta /\ a = "wsol")]
  /\ saved = acct
  /\ pc = "idle" /\ call = NoCall
  /\ snapshot = {} /\ created = {} /\ outcome = "none" /\ status = "none"
  /\ listed = NoLists /\ donated = NoDonation

Handler ==
  \/ \E b \in BOOLEAN : BodySucceeds(b) \/ BodyFails(b)
  \/ CpiFails \/ ExitRefuses \/ ErrorReturned \/ Commit \/ Return

Administration ==
  \/ \E a \in Keys, l \in Lists : CreateConfig(a, l) \/ UpdateConfig(a, l)
  \/ \E a \in Keys : CloseConfig(a)

ProgramNext ==
  \/ \E c \in Calls : EntryRefuses(c) \/ Enter(c)
  \/ Handler
  \/ Administration
  \/ Donate
  \/ \E a \in {"wsol", "nft"}, perm \in Permissions : SetPermissions(a, perm)
  \/ \E isAta \in BOOLEAN : ReopenNative(isAta)

ProgramSpec == ProgramInit /\ [][ProgramNext]_programVars

(***************************************************************************)
(* Properties.                                                             *)
(***************************************************************************)

\* Every variable keeps its type; there is a call exactly while one runs.
ProgramTypeOK ==
  /\ TypeOK
  /\ acct \in [Accounts -> AccountType] /\ saved \in [Accounts -> AccountType]
  /\ pc \in {"idle", "body", "exit", "done", "refused"}
  /\ (pc = "idle") <=> (call = NoCall)
  /\ pc # "idle" => call \in Calls
  /\ snapshot \subseteq Accounts
  /\ listed \in [pools : SUBSET Keys, feeOwners : SUBSET Keys]
  /\ donated \in [before : Nat, after : Nat]

\* A call takes effect only for a pool and a fee owner that the administrator listed
\* last (or a fee account of the signer or the recipient): the parsers of the entry
\* check neither serve an entry of an earlier, longer list nor one of a closed account.
ServedAsListed ==
  pc = "done" => /\ call.pool \in listed.pools
                 /\ call.feeOwner \in listed.feeOwners \cup {Signer, call.recipient}

HasPermission(a) == saved[a].delegate \/ saved[a].closeAuth

\* What the refusal of a call must be due to.
HasCause(err) ==
  CASE err = "SecuritySeparatorInvalid" -> call.separators > 1
    [] err = "SecurityPoolWhitelistMissing" -> listed.pools = {}
    [] err = "SecurityPoolNotAllowed" -> listed.pools # {} /\ call.pool \notin listed.pools
    [] err = "SecurityUnauthorizedExecutableProgram" ->
         ~(call.executables \subseteq ALLOWED_EXECUTABLE_PROGRAMS)
    [] err = "SecurityNonWhitelistTokenAccount" ->
         call.feeOwner \notin listed.feeOwners \cup {Signer, call.recipient}
    [] err = "SecurityProgramLamportsLeaked" ->
         donated.after > 0 \/ donated.before > RentMin
    [] err \in {"SecurityTokenDelegateNotAllowed",
                "SecurityTokenCloseAuthorityNotAllowed"} ->
         \E a \in Passed(call) : HasPermission(a)
    [] err = "SecurityTokenAccountCorrupted" -> call.native /\ ~saved["wsol"].ata
    [] OTHER -> err \in {"CpiError", "BodyError"}

\* No call is turned away by the security layer without a cause outside the program:
\* what the caller passed, what the administrator listed, what was sent to the PDA, or
\* a permission the signer had set before.  What the bodies themselves do (the new
\* position, the closed wSOL account of the signer) never trips the exit check, and
\* the configuration the instructions write is never an invalid one.
RefusedForCause == pc = "refused" => HasCause(status)

\* The limit of exit check part 1: while the configuration lives, it holds more than
\* its rent, and every business call is refused, exactly when lamports were sent to it
\* after its creation, or more than the rent before.  The instructions never get the
\* program into that state, and only closing the account leads out of it.
BlockedByDonations ==
  owner = "lp_handler" =>
    (LamportsLeaked(lamports, RentMin) <=> donated.after > 0 \/ donated.before > RentMin)

\* When a call takes effect, no account of the signer in the main or the remaining
\* accounts carries a permission, and none but the wSOL associated account was closed.
CommittedAccountsClean ==
  pc = "done" =>
    \A a \in Passed(call) : IsTokenAccount(saved[a]) =>
      \/ IsUninitialized(acct[a]) /\ a = "wsol" /\ saved[a].ata
      \/ IsTokenAccount(acct[a]) /\ ~acct[a].delegate /\ ~acct[a].closeAuth

\* While a call runs its outcome is open: what counts are the accounts before it.
Visible == IF pc \in {"body", "exit"} THEN saved ELSE acct

Admin == IF owner = "lp_handler" THEN data[AuthorityAt] ELSE NoAdmin
Blocked == owner = "lp_handler" /\ LamportsLeaked(lamports, RentMin)
Granted == {a \in Accounts : Visible[a].delegate \/ Visible[a].closeAuth}

LastServed ==
  IF pc = "done"
  THEN [pool |-> call.pool, feeOwner |-> call.feeOwner, recipient |-> call.recipient,
        accounts |-> Passed(call)]
  ELSE [pool |-> NoAdmin]

Promise == INSTANCE Gate WITH
  admin <- Admin, pools <- AllowedPools, feeOwners <- AllowedFeeOwners,
  blocked <- Blocked, granted <- Granted, served <- LastServed, Wsol <- "wsol"

\* The program as a whole is a gate: whatever is rewritten, closed, sent or granted
\* between calls, and however a body ends, each call either takes effect under the lists
\* of the registry as it stands, with the lamports of the PDA within its rent and no
\* permission left on an account that took part, or changes nothing; and no call
\* changes the registry, no instruction of the registry the accounts.
ImplementsGate == Promise!GateSpec

=============================================================================

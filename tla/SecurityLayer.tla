---------------------------- MODULE SecurityLayer ----------------------------
(***************************************************************************)
(* The checks of security/mod.rs that every business entry point runs      *)
(* before and after its body (the secure_entrypoint! macro of lib.rs).     *)
(*                                                                         *)
(* An account is a record                                                  *)
(*   program   : the program that owns it ("system", "token", "lp", ...)   *)
(*   empty     : its data has length 0                                     *)
(*   authority : the token authority, when it is a token account           *)
(*   delegate  : a delegate is set                                         *)
(*   closeAuth : a close authority is set                                  *)
(* Token stands for SPL Token and for Token-2022, which the code parses    *)
(* into the same snapshot.  The operators return the name of the error, or *)
(* "none".                                                                 *)
(***************************************************************************)

EXTENDS Naturals

\* consts.rs.  Token-2022 has the same name as SPL Token here.
ALLOWED_EXECUTABLE_PROGRAMS ==
  {"lp_handler", "system", "token", "associated_token", "memo", "raydium"}
ALLOWED_ACCOUNT_OWNERS == {"system", "token", "associated_token", "raydium"}

\* system owner and no data: never created, or closed
IsUninitialized(a) == a.program = "system" /\ a.empty

\* parse_token_account returns Some
IsTokenAccount(a) == a.program = "token" /\ ~a.empty

\* A token account may take part in a call when its authority is the signer or
\* the recipient, when its authority is a listed fee owner, or when it is a
\* vault of the pool.
TokenAccountAllowed(t, signer, recipient, feeOwners) ==
  \/ t.authority \in {signer, recipient}
  \/ t.authority \in feeOwners
  \/ t.vault

\* The pass over the accounts of the call: `executables' are the programs among them,
\* `tokens' the token accounts.  When both are wrong the model reports the program.
AccountsError(executables, tokens, signer, recipient, feeOwners) ==
  IF ~(executables \subseteq ALLOWED_EXECUTABLE_PROGRAMS)
  THEN "SecurityUnauthorizedExecutableProgram"
  ELSE IF \E t \in tokens : ~TokenAccountAllowed(t, signer, recipient, feeOwners)
       THEN "SecurityNonWhitelistTokenAccount"
  ELSE "none"

\* entry_check_and_snapshot.  `config' is the parsed security_config PDA.
EntryError(separators, config, pool, executables, tokens, signer, recipient) ==
  IF separators > 1 THEN "SecuritySeparatorInvalid"
  ELSE IF ~config.live THEN "SecurityPoolWhitelistMissing"
  ELSE IF config.pools = {} THEN "SecurityPoolWhitelistInvalid"
  ELSE IF pool \notin config.pools THEN "SecurityPoolNotAllowed"
  ELSE AccountsError(executables, tokens, signer, recipient, config.feeOwners)

\* exit_check, part 2: one token account the entry snapshot found to be the
\* signer's.  Only the signer's wSOL ATA may have been closed.
SignerAccountError(now, wasWsolAta, signer) ==
  IF ~IsTokenAccount(now)
  THEN IF wasWsolAta /\ IsUninitialized(now) THEN "none"
                                            ELSE "SecurityTokenAccountCorrupted"
  ELSE IF now.authority # signer THEN "SecurityTokenAuthorityChanged"
  ELSE IF now.delegate THEN "SecurityTokenDelegateNotAllowed"
  ELSE IF now.closeAuth THEN "SecurityTokenCloseAuthorityNotAllowed"
  ELSE "none"

\* exit_check, part 1: an account of the program may hold its rent and no more.
LamportsLeaked(lamports, rentMin) == lamports > rentMin

\* A bug: only the signer may own a token account the call created.
MutCreatedAccountError(a, signer, recipient) ==
  IF IsUninitialized(a) THEN "none"
  ELSE IF a.program \notin ALLOWED_ACCOUNT_OWNERS THEN "SecurityDisallowedAccountOwner"
  ELSE IF IsTokenAccount(a) /\ a.authority # signer
       THEN "SecurityNewTokenAccountAuthorityInvalid"
  ELSE "none"

\* exit_check, part 3: an account that was uninitialised on entry.
CreatedAccountError(a, signer, recipient) ==
  IF IsUninitialized(a) THEN "none"
  ELSE IF a.program \notin ALLOWED_ACCOUNT_OWNERS THEN "SecurityDisallowedAccountOwner"
  ELSE IF IsTokenAccount(a) /\ a.authority \notin {signer, recipient}
       THEN "SecurityNewTokenAccountAuthorityInvalid"
  ELSE "none"

=============================================================================

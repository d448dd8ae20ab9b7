----------------------------- MODULE TokenLedger -----------------------------
(***************************************************************************)
(* What the token and system programs do with balances, as the handlers    *)
(* use them.  Sides 0 and 1 are the two tokens of a pool.  A token ledger  *)
(* t has t[w][s], the balance of wallet w's account on side s; a lamport   *)
(* ledger b has b[w].  A transit account of the signer is a record         *)
(*   live      : the account exists                                        *)
(*   ata       : it is the signer's wSOL associated token account          *)
(*   delegate, closeAuth : a delegate, a close authority is set.           *)
(***************************************************************************)
EXTENDS Integers

Sides == {0, 1}
NoSide == 2
Other(s) == 1 - s
Zero == [s \in Sides |-> 0]

TransitType == [live : BOOLEAN, ata : BOOLEAN, delegate : BOOLEAN, closeAuth : BOOLEAN]

\* A transfer between accounts; an account may be sent to itself.
MoveToken(t, from, to, s, n) ==
  IF from = to THEN t
  ELSE [t EXCEPT ![from][s] = @ - n, ![to][s] = @ + n]

MoveSol(b, from, to, n) ==
  IF from = to THEN b ELSE [b EXCEPT ![from] = @ - n, ![to] = @ + n]

\* Closing a wSOL account pays its balance and its rent to the signer in lamports.
\* The token program lets only the close authority close an account that has one.
CloseRefused(a) == a.closeAuth
CloseTokens(t, signer, s) == [t EXCEPT ![signer][s] = 0]
CloseLamports(t, b, signer, s, rent) == [b EXCEPT ![signer] = @ + t[signer][s] + rent]
CloseAccount(a, s) == [a EXCEPT ![s].live = FALSE]

\* The transit account as the security layer reads it.
AccountView(a, signer) ==
  [program   |-> IF a.live THEN "token" ELSE "system",
   empty     |-> ~a.live,
   authority |-> signer,
   delegate  |-> a.delegate,
   closeAuth |-> a.closeAuth]

\* The token accounts of a call as the entry check reads them: those of the given
\* wallets, and the vaults of the pool.
CallTokens(wallets) ==
  {[authority |-> w, vault |-> FALSE] : w \in wallets}
    \cup {[authority |-> "pool", vault |-> TRUE]}

\* What wallet w has on side s: tokens, and on the native side lamports and the
\* rent locked in the signer's account.
HoldingOf(t, b, a, w, s, native, signer, rent) ==
  t[w][s] + (IF s # native THEN 0
             ELSE b[w] + (IF w = signer /\ a[s].live THEN rent ELSE 0))

=============================================================================

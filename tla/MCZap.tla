-------------------------------- MODULE MCZap --------------------------------
(* Instances of Zap for TLC. *)
EXTENDS Zap, TLC

CONSTANTS sam, rex, fay, pat   \* signer, recipient, listed and unlisted fee owner

mcWallets == {sam, rex, fay, pat}
mcConfig == [live |-> TRUE, pools |-> {"good"}, feeOwners |-> {fay}]

Amounts(a, b) == [s \in Sides |-> IF s = 0 THEN a ELSE b]

\* A deposit of both tokens in a range around the price, with a swap of 2 of token0.
Plain == [op |-> "deposit", recipient |-> rex, feeOwner |-> fay, pool |-> "good",
          amountIn |-> Amounts(3, 3), returnMint |-> NoSide, lower |-> 3, upper |-> 5,
          posLower |-> 3, posUpper |-> 5, slippage |-> 0, planIn |-> 2,
          planMinOut |-> 1, planSide |-> 0, executables |-> {"token", "raydium"},
          separators |-> 1, swapAccountsOk |-> TRUE]

\* Calls that fail before the first cross-program call, one per check.
Malformed ==
  {[Plain EXCEPT !.separators = 2], [Plain EXCEPT !.separators = 0],
   [Plain EXCEPT !.pool = "other"], [Plain EXCEPT !.feeOwner = pat],
   [Plain EXCEPT !.executables = {"token", "other"}],
   [Plain EXCEPT !.upper = 3, !.posUpper = 3], [Plain EXCEPT !.amountIn = Zero],
   [Plain EXCEPT !.returnMint = Foreign], [Plain EXCEPT !.slippage = 5000],
   [Plain EXCEPT !.amountIn = Amounts(5, 0)], [Plain EXCEPT !.planIn = 4],
   [Plain EXCEPT !.planIn = 0]}

\* Every combination of input, wanted return, plan and fee owner.
mcAllCalls ==
  Malformed \cup {[Plain EXCEPT !.swapAccountsOk = FALSE]} \cup
  {[Plain EXCEPT !.amountIn = a, !.returnMint = r, !.planIn = p, !.planSide = v,
                 !.planMinOut = IF p = 0 THEN 0 ELSE 1, !.feeOwner = f] :
     a \in {Amounts(3, 0), Amounts(0, 3), Amounts(3, 3)}, r \in {0, 1, NoSide},
     p \in {0, 2, 3}, v \in Sides, f \in {fay, sam}} \cup
  {[Plain EXCEPT !.op = "increase", !.recipient = sam, !.posLower = 2, !.posUpper = u,
                 !.amountIn = Amounts(0, 3), !.planIn = 0, !.planMinOut = 0] : u \in {3, 5}}

\* Few calls, for sequences: a deposit without a swap whose rest is sold back, a swap of
\* the whole input and one that may take the whole input, and increase_liquidity into a
\* position with another range.
mcFewCalls ==
  {[Plain EXCEPT !.returnMint = 1, !.planIn = 0, !.planMinOut = 0,
                 !.amountIn = Amounts(3, 1)],
   [Plain EXCEPT !.planIn = 3], Plain,
   [Plain EXCEPT !.op = "increase", !.recipient = sam, !.posLower = 2,
                 !.returnMint = 0, !.planIn = 0, !.planMinOut = 0]}

mcDocCalls == mcFewCalls \cup {[Plain EXCEPT !.separators = 0]}

mcNoPermissions == {}
mcPermissions == [delegate : BOOLEAN, closeAuth : BOOLEAN]

\* A swap takes what was asked, one unit more (a transfer fee) or one less.
mcSwapExtras == {-1, 0, 1}

=============================================================================

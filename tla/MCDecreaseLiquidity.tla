------------------------- MODULE MCDecreaseLiquidity -------------------------
(* Instances of DecreaseLiquidity for TLC. *)
EXTENDS DecreaseLiquidity, TLC

CONSTANTS sam, rex, fay, pat   \* signer, recipient, listed and unlisted fee owner

mcWallets == {sam, rex, fay, pat}
mcConfig == [live |-> TRUE, pools |-> {"good"}, feeOwners |-> {fay}]

\* A plain call: withdraw to rex, fee to fay, no conversion.
Plain == [recipient |-> rex, feeOwner |-> fay, pool |-> "good", liquidity |-> 1,
          target |-> 0, slippage |-> 0, feePercent |-> 5000, convert |-> FALSE,
          executables |-> {"token", "raydium"}, separators |-> 1, swapAccountsOk |-> TRUE]

\* Calls that fail before the first cross-program call, one per check.
Malformed ==
  {[Plain EXCEPT !.separators = 2], [Plain EXCEPT !.separators = 0],
   [Plain EXCEPT !.pool = "other"], [Plain EXCEPT !.feeOwner = pat],
   [Plain EXCEPT !.executables = {"token", "other"}],
   [Plain EXCEPT !.feePercent = 10001], [Plain EXCEPT !.slippage = 5001],
   [Plain EXCEPT !.target = NoSide], [Plain EXCEPT !.liquidity = 3]}

\* Every combination of roles, claim or withdraw, fee and conversion.
mcAllCalls ==
  Malformed \cup {[Plain EXCEPT !.convert = TRUE, !.swapAccountsOk = FALSE]} \cup
  {[Plain EXCEPT !.recipient = r, !.feeOwner = f, !.liquidity = l, !.feePercent = p,
                 !.convert = v, !.target = t] :
     r \in {sam, rex}, f \in {fay, sam, rex}, l \in {0, 1}, p \in {0, 3333, 10000},
     v \in BOOLEAN, t \in Sides}

\* A few calls, for sequences of calls.
mcFewCalls ==
  {Plain, [Plain EXCEPT !.recipient = sam, !.liquidity = 0],
   [Plain EXCEPT !.convert = TRUE, !.target = 1, !.slippage = 5000],
   [Plain EXCEPT !.convert = TRUE], [Plain EXCEPT !.feePercent = 7000],
   [Plain EXCEPT !.liquidity = 3]}

PayoutsOf(exact0, exact1, reward0, reward1) ==
  {[exact |-> [s \in Sides |-> IF s = 0 THEN e0 ELSE e1],
    reward |-> [s \in Sides |-> IF s = 0 THEN r0 ELSE r1]] :
     e0 \in exact0, e1 \in exact1, r0 \in reward0, r1 \in reward1}

\* A principal that is no u64.
Oversized == PayoutsOf({60000}, {1}, {0}, {1})

mcAllPayouts == Oversized \cup PayoutsOf({0, 3}, {1, 4}, {0, 2}, {0, 1, 3})
mcFewPayouts ==
  Oversized \cup PayoutsOf({3}, {1}, {0, 2}, {1}) \cup PayoutsOf({0}, {1}, {3}, {1})

\* A swap takes what was asked, one unit more (a transfer fee) or one less.
mcSwapRests == {-1, 0, 1}

\* Token1 may have a transfer fee.
mcNoTransferFee == [s \in Sides |-> 0]
mcTransferFee == [s \in Sides |-> IF s = 1 THEN 3000 ELSE 0]

mcNoPermissions == {}
mcPermissions == [delegate : BOOLEAN, closeAuth : BOOLEAN]

=============================================================================

-------------------------------- MODULE MinOut --------------------------------
(***************************************************************************)
(* calc_min_amount_out (state/utils.rs) over a walk through its inputs,    *)
(* compared with the exact quote of the pool, amount * sqrt_price^2 / 2^128*)
(* for token0 and its inverse for token1.  A step changes one input, so    *)
(* that action properties can compare the thresholds of two calls.         *)
(***************************************************************************)
EXTENDS LpMath

CONSTANTS MaxAmount, MaxSqrtPrice, Slippages, TradeFees

ASSUME MinOutAssumption ==
  /\ MaxAmount \in Nat /\ MaxSqrtPrice \in Nat
  /\ Slippages \subseteq 0..BPS
  /\ TradeFees \subseteq 0..FEE_UNIT

VARIABLES amount, inputIsToken0, sqrtPrice, slippage,
          tradeFee    \* amm_config.trade_fee_rate of the pool

vars == <<amount, inputIsToken0, sqrtPrice, slippage, tradeFee>>

Threshold == CalcMinAmountOut(amount, inputIsToken0, sqrtPrice, slippage, tradeFee)
Quotable ==
  MinOutError(amount, inputIsToken0, sqrtPrice, slippage, tradeFee) = "none"

Init ==
  /\ amount = 0
  /\ inputIsToken0 \in BOOLEAN
  /\ sqrtPrice \in 1..MaxSqrtPrice
  /\ slippage \in Slippages
  /\ tradeFee \in TradeFees

AskMore ==
  /\ amount < MaxAmount
  /\ amount' = amount + 1
  /\ UNCHANGED <<inputIsToken0, sqrtPrice, slippage, tradeFee>>

SetSlippage(s) ==
  /\ slippage' = s
  /\ UNCHANGED <<amount, inputIsToken0, sqrtPrice, tradeFee>>

MovePrice ==
  /\ sqrtPrice < MaxSqrtPrice
  /\ sqrtPrice' = sqrtPrice + 1
  /\ UNCHANGED <<amount, inputIsToken0, slippage, tradeFee>>

Next == AskMore \/ (\E s \in Slippages : SetSlippage(s)) \/ MovePrice

Spec == Init /\ [][Next]_vars

(***************************************************************************)
(* Properties.                                                             *)
(***************************************************************************)

\* Every input is a natural number, and so is the threshold.
TypeOK ==
  /\ amount \in 0..MaxAmount /\ inputIsToken0 \in BOOLEAN
  /\ sqrtPrice \in 1..MaxSqrtPrice /\ slippage \in 0..BPS
  /\ tradeFee \in 0..FEE_UNIT
  /\ Quotable => Threshold \in 0..U64_MAX

\* Selling token0 never asks for more than the pool's price pays: the truncation of the
\* price and of the quote only lowers the threshold, so it cannot make a fair swap fail.
NeverOverasksToken0 ==
  Quotable /\ inputIsToken0 =>
    Threshold * Q64 * Q64 <= amount * sqrtPrice * sqrtPrice

\* Selling token1 divides by the truncated price P, which can ask for more than the pool
\* pays, but never by more than the factor (P + 1) / P.  The factor matters for pools
\* whose price is near the smallest representable one.
OveraskBounded ==
  Quotable /\ ~inputIsToken0 =>
    Threshold * sqrtPrice * sqrtPrice * PriceOf(sqrtPrice)
      <= amount * Q64 * Q64 * (PriceOf(sqrtPrice) + 1)

\* A swap that returns no more than the threshold loses at most the pool's fee and the
\* caller's slippage, as shares of the quote, the dust floor and two units: the code takes
\* the two discounts one after the other and rounds twice, and neither the order nor the
\* roundings let the caller lose more than that.
LossBounded ==
  Quotable =>
    LET quote == QuoteOut(amount, inputIsToken0, sqrtPrice)
    IN  (quote - Threshold - DUST_FLOOR - 2) * FEE_UNIT
          <= quote * (tradeFee + slippage * (FEE_UNIT \div BPS))

\* More input and less slippage never lower the threshold; more price raises it for
\* token0 and lowers it for token1.
ThresholdMonotone ==
  [][Quotable /\ Quotable' =>
       /\ slippage' <= slippage /\ (inputIsToken0 \/ sqrtPrice' = sqrtPrice) =>
            Threshold <= Threshold'
       /\ slippage' >= slippage /\ amount' = amount /\ ~inputIsToken0 =>
            Threshold' <= Threshold]_vars

=============================================================================

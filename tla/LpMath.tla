------------------------------- MODULE LpMath -------------------------------
(***************************************************************************)
(* The integer arithmetic of state/utils.rs and the saturating and checked *)
(* helpers the handlers use.  Every operator is a plain expression: no     *)
(* recursion, so the modules that use this one can be proved about.        *)
(*                                                                         *)
(* The scales of the code are parameters: Q64 is the fixed-point unit      *)
(* (2^64), DUST_FLOOR the amount subtracted from every minimum output      *)
(* (100), U64_MAX the largest u64.  Runs give them small values so that    *)
(* the roundings and the overflow happen on small amounts.                 *)
(***************************************************************************)
EXTENDS Integers

CONSTANTS Q64, DUST_FLOOR, U64_MAX

ASSUME ScaleAssumption ==
  /\ Q64 \in Nat \ {0}
  /\ DUST_FLOOR \in Nat
  /\ U64_MAX \in Nat

\* Basis points of a whole, and Raydium's unit for trade_fee_rate (10^-6).
BPS == 10000
FEE_UNIT == 1000000

\* A bug: an unchecked subtraction.
MutSatSub(a, b) == a - b

\* a.checked_sub(b).unwrap_or(0), a.saturating_sub(b)
SatSub(a, b) == IF a >= b THEN a - b ELSE 0

CeilDiv(a, b) == (a + b - 1) \div b

\* P = sqrt_price^2 >> 64, still in units of Q64
PriceOf(sqrtPrice) == (sqrtPrice * sqrtPrice) \div Q64

\* A bug: the quote is rounded up.
MutQuoteUp(amount, inputIsToken0, sqrtPrice) ==
  IF inputIsToken0
  THEN CeilDiv(amount * PriceOf(sqrtPrice), Q64)
  ELSE CeilDiv(amount * ((Q64 * Q64) \div PriceOf(sqrtPrice)), Q64)

\* The quote of the input at the pool's price, before fee and slippage.
\* token1 -> token0 multiplies by the truncated inverse of the price.
QuoteOut(amount, inputIsToken0, sqrtPrice) ==
  IF inputIsToken0
  THEN (amount * PriceOf(sqrtPrice)) \div Q64
  ELSE (amount * ((Q64 * Q64) \div PriceOf(sqrtPrice))) \div Q64

\* A bug: the slippage is added instead of taken off.
MutDiscountedOut(amount, inputIsToken0, sqrtPrice, slippageBps, tradeFeeRate) ==
  LET afterFee == (QuoteOut(amount, inputIsToken0, sqrtPrice)
                     * (FEE_UNIT - tradeFeeRate)) \div FEE_UNIT
  IN  (afterFee * (BPS + slippageBps)) \div BPS

\* A bug: the slippage is applied to the quote and again to the result.
MutSlippageTwice(amount, inputIsToken0, sqrtPrice, slippageBps, tradeFeeRate) ==
  LET afterFee == (QuoteOut(amount, inputIsToken0, sqrtPrice)
                     * (FEE_UNIT - tradeFeeRate)) \div FEE_UNIT
      once == (afterFee * (BPS - slippageBps)) \div BPS
  IN  (once * (BPS - slippageBps)) \div BPS

\* Fee first, then slippage, each step rounded down.
DiscountedOut(amount, inputIsToken0, sqrtPrice, slippageBps, tradeFeeRate) ==
  LET afterFee == (QuoteOut(amount, inputIsToken0, sqrtPrice)
                     * (FEE_UNIT - tradeFeeRate)) \div FEE_UNIT
  IN  (afterFee * (BPS - slippageBps)) \div BPS

\* A bug: the result is not compared with the largest u64.
MutMinOutError(amount, inputIsToken0, sqrtPrice, slippageBps, tradeFeeRate) ==
  IF slippageBps > BPS THEN "InvalidSlippage"
  ELSE IF PriceOf(sqrtPrice) = 0 THEN "InvalidSqrtPrice" ELSE "none"

\* The error calc_min_amount_out returns, "none" when it returns a value.
MinOutError(amount, inputIsToken0, sqrtPrice, slippageBps, tradeFeeRate) ==
  IF slippageBps > BPS THEN "InvalidSlippage"
  ELSE IF tradeFeeRate > FEE_UNIT THEN "MathOverflow"
  ELSE IF PriceOf(sqrtPrice) = 0 THEN "InvalidSqrtPrice"
  ELSE IF DiscountedOut(amount, inputIsToken0, sqrtPrice, slippageBps, tradeFeeRate)
            > U64_MAX THEN "MathOverflow"
  ELSE "none"

\* calc_min_amount_out: the smallest output a swap of `amount' may return.
\* 0 is the code's mark for dust that is not worth a swap.
CalcMinAmountOut(amount, inputIsToken0, sqrtPrice, slippageBps, tradeFeeRate) ==
  SatSub(DiscountedOut(amount, inputIsToken0, sqrtPrice, slippageBps, tradeFeeRate),
         DUST_FLOOR)

=============================================================================

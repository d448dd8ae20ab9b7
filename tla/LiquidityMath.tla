---------------------------- MODULE LiquidityMath ----------------------------
(***************************************************************************)
(* Raydium's liquidity_math as the deposits use it: the liquidity that the *)
(* maxima of both tokens allow, rounded down, and the amounts a liquidity  *)
(* costs, rounded up.  A range is [lo, hi], both square roots of prices.   *)
(* Token0 covers the part of the range above the price, token1 the part    *)
(* below it.                                                               *)
(***************************************************************************)
EXTENDS LpMath

Smaller(a, b) == IF a <= b THEN a ELSE b

\* get_liquidity_from_amount_0, get_liquidity_from_amount_1
Liquidity0(lo, hi, amount) == (amount * ((lo * hi) \div Q64)) \div (hi - lo)
Liquidity1(lo, hi, amount) == (amount * Q64) \div (hi - lo)

\* get_liquidity_from_single_amount_0 and _1
SingleLiquidity(p, lo, hi, side, amount) ==
  IF side = 0
  THEN IF p <= lo THEN Liquidity0(lo, hi, amount)
       ELSE IF p < hi THEN Liquidity0(p, hi, amount) ELSE 0
  ELSE IF p <= lo THEN 0
       ELSE IF p < hi THEN Liquidity1(lo, p, amount) ELSE Liquidity1(lo, hi, amount)

\* A bug: the lower bound counts as inside the range.
MutLiquidityFor(p, lo, hi, amounts) ==
  LET l == [s \in {0, 1} |-> SingleLiquidity(p, lo, hi, s, amounts[s])]
  IN IF p < lo THEN l[0] ELSE IF p >= hi THEN l[1] ELSE Smaller(l[0], l[1])

\* get_liquidity_from_amounts: in the range the side that allows less decides.
LiquidityFor(p, lo, hi, amounts) ==
  LET l == [s \in {0, 1} |-> SingleLiquidity(p, lo, hi, s, amounts[s])]
  IN IF p <= lo THEN l[0] ELSE IF p >= hi THEN l[1] ELSE Smaller(l[0], l[1])

\* get_delta_amount_0_unsigned, get_delta_amount_1_unsigned, both with round_up
Cost0(lo, hi, liquidity) == CeilDiv(CeilDiv(liquidity * Q64 * (hi - lo), hi), lo)
Cost1(lo, hi, liquidity) == CeilDiv(liquidity * (hi - lo), Q64)

\* What a position with this range pays for the liquidity at price p.
Cost(p, lo, hi, liquidity) ==
  [s \in {0, 1} |->
     IF s = 0
     THEN IF p <= lo THEN Cost0(lo, hi, liquidity)
          ELSE IF p < hi THEN Cost0(p, hi, liquidity) ELSE 0
     ELSE IF p <= lo THEN 0
          ELSE IF p < hi THEN Cost1(lo, p, liquidity) ELSE Cost1(lo, hi, liquidity)]

=============================================================================

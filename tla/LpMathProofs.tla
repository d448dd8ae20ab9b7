---------------------------- MODULE LpMathProofs ----------------------------
(***************************************************************************)
(* The facts about truncated division, quotes and minimum outputs that the *)
(* other proofs rest on.                                                   *)
(***************************************************************************)
EXTENDS LpMath, TLAPS

\* Facts about the truncated division.
LEMMA DivBounds ==
  ASSUME NEW a \in Nat, NEW b \in Nat \ {0}
  PROVE  /\ a \div b \in Nat
         /\ (a \div b) * b <= a
         /\ a < (a \div b + 1) * b
  OBVIOUS

LEMMA DivLeast ==
  ASSUME NEW a \in Nat, NEW b \in Nat \ {0}, NEW n \in Nat, a < (n + 1) * b
  PROVE  a \div b <= n
<1> DEFINE q == a \div b
<1>1. q \in Nat /\ q * b <= a
  BY DivBounds
<1>2. q * b < (n + 1) * b
  BY <1>1
<1> HIDE DEF q
<1>3. q < n + 1
  BY <1>1, <1>2
<1> QED
  BY <1>1, <1>3 DEF q

LEMMA DivMonotone ==
  ASSUME NEW a \in Nat, NEW c \in Nat, NEW b \in Nat \ {0}, a <= c
  PROVE  a \div b <= c \div b
<1>1. c \div b \in Nat /\ c < (c \div b + 1) * b
  BY DivBounds
<1> QED
  BY <1>1, DivLeast

LEMMA DivAntitone ==
  ASSUME NEW a \in Nat, NEW b \in Nat \ {0}, NEW c \in Nat \ {0}, b <= c
  PROVE  a \div c <= a \div b
<1>1. a \div b \in Nat /\ a < (a \div b + 1) * b
  BY DivBounds
<1>2. (a \div b + 1) * b <= (a \div b + 1) * c
  BY <1>1
<1> QED
  BY <1>1, <1>2, DivLeast

LEMMA ProductMonotone ==
  ASSUME NEW a \in Nat, NEW b \in Nat, NEW c \in Nat, NEW d \in Nat, a <= b, c <= d
  PROVE  a * c \in Nat /\ b * d \in Nat /\ a * c <= b * d
  OBVIOUS

\* A share k / n of x, rounded down, is at most x.
LEMMA ShareBound ==
  ASSUME NEW x \in Nat, NEW n \in Nat \ {0}, NEW k \in 0..n
  PROVE  (x * k) \div n \in Nat /\ (x * k) \div n <= x
<1>1. x * k \in Nat /\ x * k < (x + 1) * n
  BY ProductMonotone
<1> QED
  BY <1>1, DivBounds, DivLeast

\* Rounding up stays within a whole number of parts.
LEMMA CeilLeast ==
  ASSUME NEW a \in Nat, NEW b \in Nat \ {0}, NEW n \in Nat, a <= n * b
  PROVE  CeilDiv(a, b) \in Nat /\ CeilDiv(a, b) <= n
<1>1. n * b \in Nat /\ (n + 1) * b = n * b + b
  OBVIOUS
<1>2. a + b - 1 \in Nat /\ a + b - 1 < (n + 1) * b
  BY <1>1
<1> QED
  BY <1>2, DivBounds, DivLeast DEF CeilDiv

LEMMA CeilCovers ==
  ASSUME NEW a \in Nat, NEW b \in Nat \ {0}
  PROVE  CeilDiv(a, b) \in Nat /\ a <= CeilDiv(a, b) * b
<1> DEFINE q == (a + b - 1) \div b
<1>1. a + b - 1 \in Nat
  OBVIOUS
<1>2. q \in Nat /\ a + b - 1 < (q + 1) * b
  BY <1>1, DivBounds
<1> HIDE DEF q
<1>3. (q + 1) * b = q * b + b /\ q * b \in Nat
  BY <1>2
<1>4. a <= q * b
  BY <1>2, <1>3
<1> QED
  BY <1>2, <1>4 DEF CeilDiv, q

\* checked_sub(..).unwrap_or(0) stays in Nat and never exceeds its first argument.
LEMMA SatSubBound ==
  ASSUME NEW a \in Nat, NEW b \in Nat
  PROVE  SatSub(a, b) \in Nat /\ SatSub(a, b) <= a /\ (b <= a => SatSub(a, b) = a - b)
  BY DEF SatSub

LEMMA PriceType == \A p \in Nat : PriceOf(p) \in Nat
<1> SUFFICES ASSUME NEW p \in Nat PROVE PriceOf(p) \in Nat
  OBVIOUS
<1>1. p * p \in Nat
  OBVIOUS
<1> QED
  BY <1>1, ScaleAssumption, DivBounds DEF PriceOf

\* A quote is a number where the price is not 0.
LEMMA QuoteOutType ==
  ASSUME NEW a \in Nat, NEW q \in BOOLEAN, NEW p \in Nat, PriceOf(p) # 0
  PROVE  QuoteOut(a, q, p) \in Nat
<1> DEFINE inverse == (Q64 * Q64) \div PriceOf(p)
<1>1. PriceOf(p) \in Nat \ {0} /\ Q64 * Q64 \in Nat
  BY PriceType, ScaleAssumption
<1>2. inverse \in Nat
  BY <1>1, DivBounds
<1> HIDE DEF inverse
<1>3. a * PriceOf(p) \in Nat /\ a * inverse \in Nat
  BY <1>1, <1>2
<1>4. (a * PriceOf(p)) \div Q64 \in Nat /\ (a * inverse) \div Q64 \in Nat
  BY <1>3, ScaleAssumption, DivBounds
<1> QED
  BY <1>4 DEF QuoteOut, inverse

LEMMA UnitsType == FEE_UNIT \in Nat \ {0} /\ BPS \in Nat \ {0}
  BY DEF FEE_UNIT, BPS

LEMMA UnitsRatio == FEE_UNIT \div BPS \in Nat /\ FEE_UNIT = BPS * (FEE_UNIT \div BPS)
  BY DEF FEE_UNIT, BPS

\* Fee and slippage only lower the quote.
LEMMA DiscountBound ==
  ASSUME NEW a \in Nat, NEW q \in BOOLEAN, NEW p \in Nat, NEW s \in 0..BPS,
         NEW rate \in 0..FEE_UNIT, QuoteOut(a, q, p) \in Nat
  PROVE  /\ DiscountedOut(a, q, p, s, rate) \in Nat
         /\ DiscountedOut(a, q, p, s, rate) <= QuoteOut(a, q, p)
<1> DEFINE quote == QuoteOut(a, q, p)
           afterFee == (quote * (FEE_UNIT - rate)) \div FEE_UNIT
           out == (afterFee * (BPS - s)) \div BPS
<1>0. FEE_UNIT \in Nat \ {0} /\ BPS \in Nat \ {0}
  BY UnitsType
<1>1. FEE_UNIT - rate \in 0..FEE_UNIT
  BY <1>0
<1>2. BPS - s \in 0..BPS
  BY <1>0
<1>3. afterFee \in Nat /\ afterFee <= quote
  BY <1>0, <1>1, ShareBound
<1>4. out \in Nat /\ out <= afterFee
  BY <1>0, <1>2, <1>3, ShareBound
<1>5. out = DiscountedOut(a, q, p, s, rate)
  BY DEF DiscountedOut
<1> HIDE DEF afterFee, out, quote
<1> QED
  BY <1>3, <1>4, <1>5 DEF quote

\* The loss of a quote to the two discounts and their roundings.
LEMMA DiscountLoss ==
  ASSUME NEW a \in Nat, NEW q \in BOOLEAN, NEW p \in Nat, NEW s \in 0..BPS,
         NEW rate \in 0..FEE_UNIT, QuoteOut(a, q, p) \in Nat
  PROVE  (QuoteOut(a, q, p) - DiscountedOut(a, q, p, s, rate) - 2) * FEE_UNIT
           <= QuoteOut(a, q, p) * (rate + s * (FEE_UNIT \div BPS))
<1> DEFINE F == FEE_UNIT
           B == BPS
           k == FEE_UNIT \div BPS
           quote == QuoteOut(a, q, p)
           afterFee == (quote * (F - rate)) \div F
           out == (afterFee * (B - s)) \div B
<1>1. F \in Nat \ {0} /\ B \in Nat \ {0}
  BY UnitsType
<1>2. k \in Nat /\ F = B * k
  BY UnitsRatio
<1>3. out = DiscountedOut(a, q, p, s, rate)
  BY DEF DiscountedOut
<1>4. quote \in Nat /\ rate \in 0..F /\ s \in 0..B
  OBVIOUS
<1> HIDE DEF F, B, k, quote
<1>5. F - rate \in 0..F /\ B - s \in 0..B
  BY <1>1, <1>4
<1>6. quote * (F - rate) \in Nat
  BY <1>4, <1>5
<1>7. /\ afterFee \in Nat /\ afterFee <= quote
      /\ quote * (F - rate) < (afterFee + 1) * F
  BY <1>1, <1>4, <1>5, <1>6, DivBounds, ShareBound
<1> HIDE DEF afterFee
<1>8. afterFee * (B - s) \in Nat
  BY <1>5, <1>7
<1>9. out \in Nat /\ afterFee * (B - s) < (out + 1) * B
  BY <1>1, <1>8, DivBounds
<1> HIDE DEF out
<1>10. (afterFee * (B - s)) * k <= ((out + 1) * B) * k
  BY <1>1, <1>2, <1>8, <1>9
<1>11. afterFee * F - afterFee * (s * k) <= (out + 1) * F
  <2>1. (afterFee * (B - s)) * k = afterFee * (B * k) - afterFee * (s * k)
    BY <1>1, <1>2, <1>4, <1>7
  <2>2. ((out + 1) * B) * k = (out + 1) * (B * k)
    BY <1>1, <1>2, <1>9
  <2> QED
    BY <1>2, <1>10, <2>1, <2>2
<1>12. s * k \in Nat
  BY <1>2, <1>4
<1>13. afterFee * (s * k) <= quote * (s * k)
  BY <1>4, <1>7, <1>12
<1>14. /\ quote * (F - rate) = quote * F - quote * rate
       /\ (afterFee + 1) * F = afterFee * F + F
       /\ (out + 1) * F = out * F + F
       /\ (quote - out - 2) * F = quote * F - out * F - 2 * F
       /\ quote * (rate + s * k) = quote * rate + quote * (s * k)
  BY <1>1, <1>4, <1>7, <1>9, <1>12
<1>15. /\ quote * F \in Nat /\ quote * rate \in Nat /\ afterFee * F \in Nat
       /\ out * F \in Nat /\ quote * (s * k) \in Nat /\ afterFee * (s * k) \in Nat
  BY <1>1, <1>4, <1>7, <1>9, <1>12
<1>16. (quote - out - 2) * F <= quote * (rate + s * k)
  BY <1>1, <1>7, <1>11, <1>13, <1>14, <1>15
<1> QED
  BY <1>3, <1>16 DEF quote, F, k

\* A minimum output is a number within the quote where the code computes one; where it
\* does not, the price is 0 or the quote itself is beyond the largest u64.
LEMMA MinOutBound ==
  ASSUME NEW a \in Nat, NEW q \in BOOLEAN, NEW p \in Nat, NEW s \in 0..BPS,
         NEW rate \in 0..FEE_UNIT
  PROVE  LET err == MinOutError(a, q, p, s, rate)
             min == CalcMinAmountOut(a, q, p, s, rate)
         IN  \/ err = "none" /\ min \in Nat /\ min <= QuoteOut(a, q, p)
             \/ err = "InvalidSqrtPrice" /\ PriceOf(p) = 0
             \/ err = "MathOverflow" /\ QuoteOut(a, q, p) > U64_MAX
<1> DEFINE d == DiscountedOut(a, q, p, s, rate)
<1>1. ~(s > BPS) /\ ~(rate > FEE_UNIT)
  BY UnitsType
<1>2. CASE PriceOf(p) = 0
  BY <1>1, <1>2 DEF MinOutError
<1>3. CASE PriceOf(p) # 0
  <2>1. QuoteOut(a, q, p) \in Nat
    BY <1>3, QuoteOutType
  <2>2. d \in Nat /\ d <= QuoteOut(a, q, p)
    BY <2>1, DiscountBound
  <2>3. MinOutError(a, q, p, s, rate) = IF d > U64_MAX THEN "MathOverflow" ELSE "none"
    BY <1>1, <1>3 DEF MinOutError
  <2>4. CalcMinAmountOut(a, q, p, s, rate) = SatSub(d, DUST_FLOOR)
    BY DEF CalcMinAmountOut
  <2> HIDE DEF d
  <2>5. SatSub(d, DUST_FLOOR) \in Nat /\ SatSub(d, DUST_FLOOR) <= d
    BY <2>2, ScaleAssumption, SatSubBound
  <2> QED
    BY <2>1, <2>2, <2>3, <2>4, <2>5, ScaleAssumption
<1> QED
  BY <1>2, <1>3

=============================================================================

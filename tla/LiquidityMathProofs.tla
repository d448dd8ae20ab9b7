------------------------- MODULE LiquidityMathProofs -------------------------
(***************************************************************************)
(* The liquidity computed from two maxima never costs more than the        *)
(* maxima, for every scale, price and range: the two roundings down of the *)
(* one direction outweigh the two roundings up of the other.               *)
(***************************************************************************)
EXTENDS LiquidityMath, LpMathProofs

\* A range as numbers, the product of its ends in units of Q64 included.
LEMMA RangeFacts ==
  ASSUME NEW lo \in Nat \ {0}, NEW hi \in Nat, lo < hi
  PROVE  /\ hi - lo \in Nat \ {0} /\ lo * hi \in Nat
         /\ (lo * hi) \div Q64 \in Nat /\ ((lo * hi) \div Q64) * Q64 <= lo * hi
<1>1. lo * hi \in Nat
  OBVIOUS
<1> QED
  BY <1>1, DivBounds, ScaleAssumption

LEMMA Liquidity0Type ==
  ASSUME NEW lo \in Nat \ {0}, NEW hi \in Nat, lo < hi, NEW n \in Nat
  PROVE  /\ Liquidity0(lo, hi, n) \in Nat
         /\ Liquidity0(lo, hi, n) * (hi - lo) <= n * ((lo * hi) \div Q64)
<1> DEFINE m == (lo * hi) \div Q64
           d == hi - lo
<1>1. m \in Nat /\ d \in Nat \ {0}
  BY RangeFacts
<1> HIDE DEF m, d
<1>2. n * m \in Nat
  BY <1>1
<1>3. (n * m) \div d \in Nat /\ ((n * m) \div d) * d <= n * m
  BY <1>1, <1>2, DivBounds
<1> QED
  BY <1>3 DEF Liquidity0, m, d

LEMMA Liquidity1Type ==
  ASSUME NEW lo \in Nat, NEW hi \in Nat, lo < hi, NEW n \in Nat
  PROVE  /\ Liquidity1(lo, hi, n) \in Nat
         /\ Liquidity1(lo, hi, n) * (hi - lo) <= n * Q64
<1>1. n * Q64 \in Nat /\ hi - lo \in Nat \ {0}
  BY ScaleAssumption
<1> QED
  BY <1>1, DivBounds DEF Liquidity1

\* Token0: what a liquidity no larger than the one the amount allows costs.
LEMMA Cost0Fits ==
  ASSUME NEW lo \in Nat \ {0}, NEW hi \in Nat, lo < hi, NEW n \in Nat, NEW l \in Nat,
         l <= Liquidity0(lo, hi, n)
  PROVE  Cost0(lo, hi, l) <= n
<1> DEFINE m == (lo * hi) \div Q64
           d == hi - lo
           full == Liquidity0(lo, hi, n)
<1>1. /\ m \in Nat /\ d \in Nat \ {0} /\ Q64 \in Nat \ {0} /\ m * Q64 <= lo * hi
      /\ full \in Nat /\ full * d <= n * m
  BY RangeFacts, Liquidity0Type, ScaleAssumption
<1> HIDE DEF m, full
<1>2. l * d <= n * m
  <2>1. l * d <= full * d
    BY <1>1, ProductMonotone DEF full
  <2> QED
    BY <1>1, <2>1
<1>3. l * Q64 * d <= n * lo * hi
  <2>1. (l * d) * Q64 <= (n * m) * Q64
    BY <1>1, <1>2, ProductMonotone
  <2>2. n * (m * Q64) <= n * (lo * hi)
    BY <1>1, ProductMonotone
  <2>3. (l * d) * Q64 = l * Q64 * d /\ (n * m) * Q64 = n * (m * Q64)
        /\ n * (lo * hi) = n * lo * hi
    BY <1>1
  <2>4. l * Q64 * d \in Nat /\ n * (m * Q64) \in Nat /\ n * lo * hi \in Nat
    BY <1>1
  <2> QED
    BY <2>1, <2>2, <2>3, <2>4
<1>4. l * Q64 * d \in Nat /\ n * lo \in Nat
  BY <1>1
<1>5. CeilDiv(l * Q64 * d, hi) \in Nat /\ CeilDiv(l * Q64 * d, hi) <= n * lo
  <2>1. hi \in Nat \ {0}
    OBVIOUS
  <2> HIDE DEF d
  <2> QED
    BY <1>3, <1>4, <2>1, CeilLeast
<1> QED
  BY <1>5, CeilLeast DEF Cost0, d

\* Token1: the same.
LEMMA Cost1Fits ==
  ASSUME NEW lo \in Nat, NEW hi \in Nat, lo < hi, NEW n \in Nat, NEW l \in Nat,
         l <= Liquidity1(lo, hi, n)
  PROVE  Cost1(lo, hi, l) <= n
<1> DEFINE d == hi - lo
           full == Liquidity1(lo, hi, n)
<1>1. /\ d \in Nat \ {0} /\ Q64 \in Nat \ {0} /\ full \in Nat /\ full * d <= n * Q64
  BY Liquidity1Type, ScaleAssumption
<1> HIDE DEF full
<1>2. l * d <= n * Q64
  <2>1. l * d \in Nat /\ full * d \in Nat /\ l * d <= full * d
    BY <1>1, ProductMonotone DEF full
  <2> QED
    BY <1>1, <2>1
<1>3. l * d \in Nat
  BY <1>1
<1> QED
  BY <1>1, <1>2, <1>3, CeilLeast DEF Cost1

\* The liquidity that get_liquidity_from_amounts computes from two maxima fits both of
\* them, wherever the price is and however the divisions round.
THEOREM CostFits ==
  ASSUME NEW p \in Nat, NEW lo \in Nat \ {0}, NEW hi \in Nat, lo < hi,
         NEW n \in [{0, 1} -> Nat], NEW s \in {0, 1}
  PROVE  Cost(p, lo, hi, LiquidityFor(p, lo, hi, n))[s] <= n[s]
<1>0. n[0] \in Nat /\ n[1] \in Nat /\ hi \in Nat \ {0}
  OBVIOUS
<1>1. CASE p <= lo
  <2>1. LiquidityFor(p, lo, hi, n) = Liquidity0(lo, hi, n[0])
    BY <1>1 DEF LiquidityFor, SingleLiquidity
  <2>2. /\ Liquidity0(lo, hi, n[0]) \in Nat
        /\ Cost0(lo, hi, Liquidity0(lo, hi, n[0])) <= n[0]
    BY <1>0, Liquidity0Type, Cost0Fits
  <2> QED
    BY <1>0, <1>1, <2>1, <2>2 DEF Cost
<1>2. CASE p >= hi
  <2>1. ~(p <= lo) /\ ~(p < hi)
    BY <1>2
  <2>2. LiquidityFor(p, lo, hi, n) = Liquidity1(lo, hi, n[1])
    BY <1>2, <2>1 DEF LiquidityFor, SingleLiquidity
  <2>3. Liquidity1(lo, hi, n[1]) \in Nat
    BY <1>0, Liquidity1Type
  <2> DEFINE l == Liquidity1(lo, hi, n[1])
  <2>4. l \in Nat /\ l <= Liquidity1(lo, hi, n[1])
    BY <2>3
  <2> HIDE DEF l
  <2>5. lo \in Nat /\ Cost1(lo, hi, l) <= n[1]
    BY <1>0, <2>4, Cost1Fits
  <2> QED
    BY <1>0, <2>1, <2>2, <2>5 DEF Cost, l
<1>3. CASE lo < p /\ p < hi
  <2> DEFINE l0 == Liquidity0(p, hi, n[0])
             l1 == Liquidity1(lo, p, n[1])
             l == Smaller(l0, l1)
  <2>0. p \in Nat \ {0} /\ lo \in Nat
    BY <1>3
  <2>1. l0 \in Nat /\ l1 \in Nat
    BY <1>0, <1>3, <2>0, Liquidity0Type, Liquidity1Type
  <2> HIDE DEF l0, l1
  <2>2. l \in Nat /\ l <= l0 /\ l <= l1
    BY <2>1 DEF Smaller
  <2>3. ~(p <= lo) /\ ~(p >= hi)
    BY <1>3
  <2>4. LiquidityFor(p, lo, hi, n) = l
    BY <1>3, <2>3 DEF LiquidityFor, SingleLiquidity, l0, l1
  <2> HIDE DEF l
  <2>5. Cost0(p, hi, l) <= n[0] /\ Cost1(lo, p, l) <= n[1]
    BY <1>0, <1>3, <2>0, <2>1, <2>2, Cost0Fits, Cost1Fits DEF l0, l1
  <2> QED
    BY <1>3, <2>3, <2>4, <2>5 DEF Cost
<1> QED
  BY <1>1, <1>2, <1>3

\* Token1 pays for any liquidity it could not have bought.
LEMMA Cost1Exceeds ==
  ASSUME NEW lo \in Nat, NEW hi \in Nat, lo < hi, NEW n \in Nat, NEW l \in Nat \ {0},
         Liquidity1(lo, hi, n) = 0
  PROVE  Cost1(lo, hi, l) > n
<1> DEFINE d == hi - lo
           c == Cost1(lo, hi, l)
<1>1. d \in Nat \ {0} /\ Q64 \in Nat \ {0} /\ n * Q64 \in Nat /\ l * d \in Nat
  BY ScaleAssumption
<1>2. n * Q64 < d
  <2>1. n * Q64 < ((n * Q64) \div d + 1) * d
    BY <1>1, DivBounds
  <2>2. (n * Q64) \div d = 0
    BY DEF Liquidity1
  <2> QED
    BY <1>1, <2>1, <2>2
<1>3. c \in Nat /\ l * d <= c * Q64
  BY <1>1, CeilCovers DEF Cost1
<1> HIDE DEF c, d
<1>4. d <= l * d
  BY <1>1
<1>5. n * Q64 < c * Q64
  <2>1. c * Q64 \in Nat
    BY <1>1, <1>3
  <2> QED
    BY <1>1, <1>2, <1>3, <1>4, <2>1
<1>6. n < c
  BY <1>1, <1>3, <1>5
<1> QED
  BY <1>6 DEF c

\* Token0 pays for any liquidity at all.
LEMMA Cost0Positive ==
  ASSUME NEW lo \in Nat \ {0}, NEW hi \in Nat, lo < hi, NEW l \in Nat \ {0}
  PROVE  Cost0(lo, hi, l) > 0
<1> DEFINE x == l * Q64 * (hi - lo)
           y == CeilDiv(x, hi)
<1>1. x \in Nat \ {0} /\ hi \in Nat \ {0}
  <2>1. l * Q64 \in Nat \ {0} /\ hi - lo \in Nat \ {0}
    BY ScaleAssumption
  <2> QED
    BY <2>1
<1>2. y \in Nat /\ x <= y * hi
  BY <1>1, CeilCovers
<1> HIDE DEF x
<1>3. y # 0
  BY <1>1, <1>2
<1>4. CeilDiv(y, lo) \in Nat /\ y <= CeilDiv(y, lo) * lo
  BY <1>2, CeilCovers
<1> HIDE DEF y
<1>5. CeilDiv(y, lo) # 0
  BY <1>2, <1>3, <1>4
<1> QED
  BY <1>4, <1>5 DEF Cost0, x, y

\* When two maxima allow no liquidity at all, whatever the base side alone would allow
\* costs more of the other token than there is.
THEOREM BaseSideAlone ==
  ASSUME NEW p \in Nat, NEW lo \in Nat \ {0}, NEW hi \in Nat, lo < hi,
         NEW n \in [{0, 1} -> Nat], LiquidityFor(p, lo, hi, n) = 0,
         NEW b \in {0, 1}, b = (IF n[0] = 0 THEN 1 ELSE 0),
         NEW l \in Nat \ {0}, l = SingleLiquidity(p, lo, hi, b, n[b])
  PROVE  \E s \in {0, 1} : Cost(p, lo, hi, l)[s] > n[s]
<1>0. n[0] \in Nat /\ n[1] \in Nat
  OBVIOUS
<1>1. CASE p <= lo
  BY <1>1 DEF LiquidityFor, SingleLiquidity
<1>2. CASE p >= hi
  <2>1. ~(p <= lo) /\ ~(p < hi)
    BY <1>2
  <2> QED
    BY <1>2, <2>1 DEF LiquidityFor, SingleLiquidity
<1>3. CASE lo < p /\ p < hi
  <2>1. ~(p <= lo) /\ ~(p >= hi) /\ p \in Nat \ {0} /\ lo \in Nat
    BY <1>3
  <2>2. CASE b = 0
    <3>1. l = Liquidity0(p, hi, n[0])
      BY <1>3, <2>1, <2>2 DEF SingleLiquidity
    <3>2. LiquidityFor(p, lo, hi, n) = Smaller(l, Liquidity1(lo, p, n[1]))
      BY <1>3, <2>1, <3>1 DEF LiquidityFor, SingleLiquidity
    <3>3. Liquidity1(lo, p, n[1]) = 0
      BY <3>2 DEF Smaller
    <3>4. Cost1(lo, p, l) > n[1]
      BY <1>0, <1>3, <2>1, <3>3, Cost1Exceeds
    <3>5. Cost(p, lo, hi, l)[1] = Cost1(lo, p, l)
      BY <1>3, <2>1 DEF Cost
    <3> QED
      BY <3>4, <3>5
  <2>3. CASE b = 1
    <3>1. n[0] = 0
      BY <2>3
    <3>2. Cost(p, lo, hi, l)[0] = Cost0(p, hi, l)
      BY <1>3, <2>1 DEF Cost
    <3>3. Cost0(p, hi, l) > 0
      BY <1>3, <2>1, Cost0Positive
    <3> QED
      BY <3>1, <3>2, <3>3
  <2> QED
    BY <2>2, <2>3
<1> QED
  BY <1>1, <1>2, <1>3

-----------------------------------------------------------------------------

\* Token1: a liquidity the amount pays for is at most the computed one.
LEMMA Cost1Tight ==
  ASSUME NEW lo \in Nat, NEW hi \in Nat, lo < hi, NEW n \in Nat, NEW k \in Nat,
         Cost1(lo, hi, k) <= n
  PROVE  k <= Liquidity1(lo, hi, n)
<1> DEFINE d == hi - lo
           c == Cost1(lo, hi, k)
           full == Liquidity1(lo, hi, n)
<1>1. d \in Nat \ {0} /\ Q64 \in Nat \ {0} /\ n * Q64 \in Nat /\ k * d \in Nat
  BY ScaleAssumption
<1>2. c \in Nat /\ k * d <= c * Q64
  BY <1>1, CeilCovers DEF Cost1
<1>3. full \in Nat /\ n * Q64 < (full + 1) * d
  BY <1>1, DivBounds DEF Liquidity1
<1>4. c <= n
  OBVIOUS
<1> HIDE DEF d, c, full
<1>5. c * Q64 \in Nat /\ c * Q64 <= n * Q64
  BY <1>1, <1>2, <1>4
<1>6. k * d < (full + 1) * d
  BY <1>1, <1>2, <1>3, <1>5
<1>7. k < full + 1
  BY <1>1, <1>3, <1>6
<1> QED
  BY <1>3, <1>7 DEF full

\* Token0: the product of the bounds is cut to units before it is multiplied, so the
\* amount may pay for more, but within the next unit of the product.
LEMMA Cost0Near ==
  ASSUME NEW lo \in Nat \ {0}, NEW hi \in Nat, lo < hi, NEW n \in Nat, NEW k \in Nat,
         Cost0(lo, hi, k) <= n
  PROVE  k * (hi - lo) <= n * ((lo * hi) \div Q64 + 1)
<1> DEFINE d == hi - lo
           m == (lo * hi) \div Q64
           x == k * Q64 * d
           y == CeilDiv(x, hi)
           c == CeilDiv(y, lo)
<1>1. /\ d \in Nat \ {0} /\ Q64 \in Nat \ {0} /\ hi \in Nat \ {0} /\ lo * hi \in Nat
      /\ k * Q64 \in Nat
  BY ScaleAssumption
<1>2. m \in Nat /\ lo * hi < (m + 1) * Q64
  BY <1>1, DivBounds
<1>3. x \in Nat
  BY <1>1
<1>4. y \in Nat /\ x <= y * hi
  BY <1>1, <1>3, CeilCovers
<1>5. c \in Nat /\ y <= c * lo
  BY <1>4, CeilCovers
<1>6. c <= n
  BY DEF Cost0
<1> HIDE DEF m, y, c
<1>7. y <= n * lo
  BY <1>4, <1>5, <1>6
<1>8. y * hi <= (n * lo) * hi
  BY <1>1, <1>4, <1>7
<1>9. n * (lo * hi) <= n * ((m + 1) * Q64)
  BY <1>1, <1>2
<1>10. (k * d) * Q64 <= (n * (m + 1)) * Q64
  <2>1. (k * d) * Q64 = x /\ (n * lo) * hi = n * (lo * hi)
        /\ (n * (m + 1)) * Q64 = n * ((m + 1) * Q64)
    BY <1>1, <1>2
  <2>2. /\ n * (lo * hi) \in Nat /\ n * ((m + 1) * Q64) \in Nat /\ y * hi \in Nat
    BY <1>1, <1>2, <1>4
  <2> HIDE DEF x, d
  <2> QED
    BY <1>3, <1>4, <1>8, <1>9, <2>1, <2>2
<1>11. k * d \in Nat /\ n * (m + 1) \in Nat
  BY <1>1, <1>2
<1> HIDE DEF d, x
<1>12. k * d <= n * (m + 1)
  BY <1>1, <1>10, <1>11
<1> QED
  BY <1>12 DEF d, m

\* How much of the amounts the computed liquidity may leave unused: a larger liquidity that
\* both amounts would pay for exists only where token0 decides, and only because the
\* product of the bounds is cut to units (state/utils.rs, get_liquidity_from_amounts, for
\* the deposit of zap_common.rs).
THEOREM LiquidityNearlyLargest ==
  ASSUME NEW p \in Nat, NEW lo \in Nat \ {0}, NEW hi \in Nat, lo < hi,
         NEW n \in [{0, 1} -> Nat], NEW k \in Nat, k > LiquidityFor(p, lo, hi, n),
         \A s \in {0, 1} : Cost(p, lo, hi, k)[s] <= n[s]
  PROVE  LET from == IF p <= lo THEN lo ELSE p
         IN  /\ p < hi
             /\ LiquidityFor(p, lo, hi, n) = Liquidity0(from, hi, n[0])
             /\ k * (hi - from) <= n[0] * ((from * hi) \div Q64 + 1)
<1>0. n[0] \in Nat /\ n[1] \in Nat
  OBVIOUS
<1>1. CASE p <= lo
  <2>1. LiquidityFor(p, lo, hi, n) = Liquidity0(lo, hi, n[0])
    BY <1>1 DEF LiquidityFor, SingleLiquidity
  <2>2. Cost0(lo, hi, k) <= n[0]
    BY <1>1 DEF Cost
  <2>3. k * (hi - lo) <= n[0] * ((lo * hi) \div Q64 + 1)
    BY <1>0, <2>2, Cost0Near
  <2> QED
    BY <1>1, <2>1, <2>3
<1>2. CASE p > lo /\ p < hi
  <2>1. /\ LiquidityFor(p, lo, hi, n)
             = Smaller(Liquidity0(p, hi, n[0]), Liquidity1(lo, p, n[1]))
    BY <1>2 DEF LiquidityFor, SingleLiquidity
  <2>2. Cost0(p, hi, k) <= n[0] /\ Cost1(lo, p, k) <= n[1]
    BY <1>2 DEF Cost
  <2>3. p \in Nat \ {0}
    BY <1>2
  <2>4. k * (hi - p) <= n[0] * ((p * hi) \div Q64 + 1)
    BY <1>0, <1>2, <2>2, <2>3, Cost0Near
  <2>5. k <= Liquidity1(lo, p, n[1])
    BY <1>0, <1>2, <2>2, Cost1Tight
  <2>6. Liquidity0(p, hi, n[0]) \in Nat /\ Liquidity1(lo, p, n[1]) \in Nat
    BY <1>0, <1>2, <2>3, Liquidity0Type, Liquidity1Type
  <2>7. LiquidityFor(p, lo, hi, n) = Liquidity0(p, hi, n[0])
    BY <2>1, <2>5, <2>6 DEF Smaller
  <2>8. ~(p <= lo)
    BY <1>2
  <2> QED
    BY <1>2, <2>4, <2>7, <2>8
<1>3. CASE p >= hi
  <2>1. LiquidityFor(p, lo, hi, n) = Liquidity1(lo, hi, n[1])
    BY <1>3 DEF LiquidityFor, SingleLiquidity
  <2>2. Cost1(lo, hi, k) <= n[1]
    BY <1>3 DEF Cost
  <2>3. k <= Liquidity1(lo, hi, n[1]) /\ Liquidity1(lo, hi, n[1]) \in Nat
    BY <1>0, <2>2, Cost1Tight, Liquidity1Type
  <2> QED
    BY <2>1, <2>3
<1> QED
  BY <1>1, <1>2, <1>3

=============================================================================

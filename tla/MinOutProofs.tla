---------------------------- MODULE MinOutProofs ----------------------------
(***************************************************************************)
(* Proofs about calc_min_amount_out, for every scale, amount, price, fee   *)
(* and slippage: what the roundings may do to the threshold.               *)
(***************************************************************************)
EXTENDS MinOut, LpMathProofs

-----------------------------------------------------------------------------

InputsOK ==
  /\ amount \in 0..MaxAmount /\ inputIsToken0 \in BOOLEAN
  /\ sqrtPrice \in 1..MaxSqrtPrice /\ slippage \in Slippages
  /\ tradeFee \in TradeFees

LEMMA InputsInvariant == Spec => []InputsOK
<1>1. Init => InputsOK
  BY MinOutAssumption DEF Init, InputsOK
<1>2. InputsOK /\ [Next]_vars => InputsOK'
  BY MinOutAssumption DEF InputsOK, Next, AskMore, SetSlippage, MovePrice, vars
<1> QED
  BY <1>1, <1>2, PTL DEF Spec

\* The inputs as numbers.
LEMMA Inputs ==
  ASSUME InputsOK
  PROVE  /\ amount \in Nat /\ sqrtPrice \in Nat /\ slippage \in 0..BPS
         /\ tradeFee \in 0..FEE_UNIT
         /\ PriceOf(sqrtPrice) \in Nat
         /\ PriceOf(sqrtPrice) * Q64 <= sqrtPrice * sqrtPrice
         /\ sqrtPrice * sqrtPrice < (PriceOf(sqrtPrice) + 1) * Q64
<1>1. /\ amount \in Nat /\ sqrtPrice \in Nat /\ slippage \in 0..BPS
      /\ tradeFee \in 0..FEE_UNIT
  BY MinOutAssumption DEF InputsOK
<1>2. sqrtPrice * sqrtPrice \in Nat
  BY <1>1
<1> QED
  BY <1>1, <1>2, ScaleAssumption, DivBounds DEF PriceOf

\* Fee, slippage and the dust floor only lower the quote.
LEMMA ThresholdBelowQuote ==
  ASSUME NEW a \in Nat, NEW q \in BOOLEAN, NEW p \in Nat, NEW s \in 0..BPS,
         NEW rate \in 0..FEE_UNIT, QuoteOut(a, q, p) \in Nat
  PROVE  /\ DiscountedOut(a, q, p, s, rate) \in Nat
         /\ CalcMinAmountOut(a, q, p, s, rate) \in Nat
         /\ CalcMinAmountOut(a, q, p, s, rate) <= QuoteOut(a, q, p)
         /\ CalcMinAmountOut(a, q, p, s, rate)
              <= DiscountedOut(a, q, p, s, rate)
<1> DEFINE d == DiscountedOut(a, q, p, s, rate)
<1>1. d \in Nat /\ d <= QuoteOut(a, q, p)
  BY DiscountBound
<1> HIDE DEF d
<1>2. SatSub(d, DUST_FLOOR) \in Nat /\ SatSub(d, DUST_FLOOR) <= d
  BY <1>1, ScaleAssumption, SatSubBound
<1> QED
  BY <1>1, <1>2 DEF CalcMinAmountOut, d

LEMMA Quote0 ==
  ASSUME NEW a \in Nat, NEW p \in Nat, PriceOf(p) \in Nat
  PROVE  /\ QuoteOut(a, TRUE, p) \in Nat
         /\ QuoteOut(a, TRUE, p) * Q64 <= a * PriceOf(p)
<1>1. a * PriceOf(p) \in Nat
  OBVIOUS
<1> QED
  BY <1>1, ScaleAssumption, DivBounds DEF QuoteOut

LEMMA Quote1 ==
  ASSUME NEW a \in Nat, NEW p \in Nat, PriceOf(p) \in Nat \ {0}
  PROVE  /\ QuoteOut(a, FALSE, p) \in Nat
         /\ QuoteOut(a, FALSE, p) * Q64 * PriceOf(p) <= a * Q64 * Q64
<1> DEFINE inverse == (Q64 * Q64) \div PriceOf(p)
           quote == (a * inverse) \div Q64
<1>1. Q64 * Q64 \in Nat
  BY ScaleAssumption
<1>2. inverse \in Nat /\ inverse * PriceOf(p) <= Q64 * Q64
  BY <1>1, DivBounds
<1> HIDE DEF inverse
<1>3. a * inverse \in Nat
  BY <1>2
<1>4. quote \in Nat /\ quote * Q64 <= a * inverse
  BY <1>3, ScaleAssumption, DivBounds
<1>5. quote = QuoteOut(a, FALSE, p)
  BY DEF QuoteOut, inverse
<1> HIDE DEF quote
<1>6. (quote * Q64) * PriceOf(p) <= (a * inverse) * PriceOf(p)
  BY <1>3, <1>4, ScaleAssumption
<1>7. (a * inverse) * PriceOf(p) = a * (inverse * PriceOf(p))
  BY <1>2
<1>8. a * (inverse * PriceOf(p)) <= a * (Q64 * Q64)
  BY <1>1, <1>2
<1>9. (quote * Q64) * PriceOf(p) \in Nat /\ (a * inverse) * PriceOf(p) \in Nat
      /\ a * (Q64 * Q64) \in Nat
  BY <1>1, <1>3, <1>4, ScaleAssumption
<1>10. (quote * Q64) * PriceOf(p) <= a * (Q64 * Q64)
  <2> DEFINE x == (quote * Q64) * PriceOf(p)
             y == (a * inverse) * PriceOf(p)
             z == a * (Q64 * Q64)
  <2>1. x \in Nat /\ y \in Nat /\ z \in Nat /\ x <= y /\ y <= z
    BY <1>6, <1>7, <1>8, <1>9
  <2> HIDE DEF x, y, z
  <2>2. x <= z
    BY <2>1
  <2> QED
    BY <2>2 DEF x, z
<1>11. a * (Q64 * Q64) = a * Q64 * Q64
  BY ScaleAssumption
<1> QED
  BY <1>4, <1>5, <1>10, <1>11

\* Selling token0 never asks for more than amount * price, whatever is truncated on the
\* way (state/utils.rs, calc_min_amount_out).
THEOREM Token0NeverOverasked == Spec => []NeverOverasksToken0
<1>1. ASSUME InputsOK PROVE NeverOverasksToken0
  <2> SUFFICES ASSUME Quotable, inputIsToken0
               PROVE  Threshold * Q64 * Q64 <= amount * sqrtPrice * sqrtPrice
    BY DEF NeverOverasksToken0
  <2> DEFINE P == PriceOf(sqrtPrice)
             quote == QuoteOut(amount, TRUE, sqrtPrice)
  <2>1. amount \in Nat /\ sqrtPrice \in Nat /\ P \in Nat /\ P * Q64 <= sqrtPrice * sqrtPrice
    BY <1>1, Inputs
  <2>2. quote \in Nat /\ quote * Q64 <= amount * P
    BY <2>1, Quote0
  <2>3. inputIsToken0 = TRUE
    BY <1>1 DEF InputsOK
  <2>4. Threshold \in Nat /\ Threshold <= quote
    BY <1>1, <2>1, <2>2, <2>3, Inputs, ThresholdBelowQuote DEF Threshold
  <2> HIDE DEF P, quote
  <2>5. Threshold * Q64 <= amount * P
    BY <2>1, <2>2, <2>4, ScaleAssumption
  <2>6. (Threshold * Q64) * Q64 <= (amount * P) * Q64
    BY <2>1, <2>4, <2>5, ScaleAssumption
  <2>7. amount * (P * Q64) <= amount * (sqrtPrice * sqrtPrice)
    BY <2>1, ScaleAssumption
  <2> QED
    BY <2>1, <2>4, <2>6, <2>7, ScaleAssumption
<1> QED
  BY <1>1, InputsInvariant, PTL

\* Selling token1 may ask for more than the price pays, because it divides by the
\* truncated price P, but for at most (P + 1) / P times as much.
THEOREM Token1OveraskBounded == Spec => []OveraskBounded
<1>1. ASSUME InputsOK PROVE OveraskBounded
  <2> SUFFICES ASSUME Quotable, ~inputIsToken0
               PROVE  Threshold * sqrtPrice * sqrtPrice * PriceOf(sqrtPrice)
                        <= amount * Q64 * Q64 * (PriceOf(sqrtPrice) + 1)
    BY DEF OveraskBounded
  <2> DEFINE P == PriceOf(sqrtPrice)
             quote == QuoteOut(amount, FALSE, sqrtPrice)
  <2>1. /\ amount \in Nat /\ sqrtPrice \in Nat /\ P \in Nat
        /\ sqrtPrice * sqrtPrice < (P + 1) * Q64
    BY <1>1, Inputs
  <2>2. P \in Nat \ {0}
    BY <2>1 DEF Quotable, MinOutError
  <2>3. quote \in Nat /\ quote * Q64 * P <= amount * Q64 * Q64
    BY <2>1, <2>2, Quote1
  <2>4. inputIsToken0 = FALSE
    BY <1>1 DEF InputsOK
  <2>5. Threshold \in Nat /\ Threshold <= quote
    BY <1>1, <2>1, <2>3, <2>4, Inputs, ThresholdBelowQuote DEF Threshold
  <2> HIDE DEF P, quote
  <2>6. Threshold * (Q64 * P) <= quote * (Q64 * P)
    BY <2>1, <2>3, <2>5, ScaleAssumption
  <2>7. Threshold * Q64 * P <= amount * Q64 * Q64
    BY <2>1, <2>3, <2>5, <2>6, ScaleAssumption
  <2>8. (Threshold * P) * (sqrtPrice * sqrtPrice) <= (Threshold * P) * ((P + 1) * Q64)
    BY <2>1, <2>5, ScaleAssumption
  <2>9. (Threshold * Q64 * P) * (P + 1) <= (amount * Q64 * Q64) * (P + 1)
    BY <2>1, <2>5, <2>7, ScaleAssumption
  <2> QED
    BY <2>1, <2>5, <2>8, <2>9, ScaleAssumption DEF P
<1> QED
  BY <1>1, InputsInvariant, PTL

-----------------------------------------------------------------------------

\* A better quote and no more slippage give at least the same threshold.
LEMMA ThresholdCompare ==
  ASSUME NEW a \in Nat, NEW b \in Nat, NEW q \in BOOLEAN, NEW p \in Nat, NEW r \in Nat,
         NEW s \in 0..BPS, NEW u \in 0..BPS, u <= s,
         NEW rate \in 0..FEE_UNIT,
         QuoteOut(a, q, p) \in Nat, QuoteOut(b, q, r) \in Nat,
         QuoteOut(a, q, p) <= QuoteOut(b, q, r)
  PROVE  CalcMinAmountOut(a, q, p, s, rate)
           <= CalcMinAmountOut(b, q, r, u, rate)
<1> DEFINE Fee(x) == (x * (FEE_UNIT - rate)) \div FEE_UNIT
           Cut(x, k) == (x * (BPS - k)) \div BPS
<1>0. FEE_UNIT \in Nat \ {0}
  BY UnitsType
<1>1. FEE_UNIT - rate \in 0..FEE_UNIT
  BY <1>0
<1>2. /\ QuoteOut(a, q, p) * (FEE_UNIT - rate) \in Nat
      /\ QuoteOut(b, q, r) * (FEE_UNIT - rate) \in Nat
      /\ QuoteOut(a, q, p) * (FEE_UNIT - rate)
           <= QuoteOut(b, q, r) * (FEE_UNIT - rate)
  BY <1>0, <1>1, ProductMonotone
<1>3. /\ Fee(QuoteOut(a, q, p)) \in Nat /\ Fee(QuoteOut(b, q, r)) \in Nat
      /\ Fee(QuoteOut(a, q, p)) <= Fee(QuoteOut(b, q, r))
  BY <1>0, <1>2, DivMonotone, DivBounds
<1>4. BPS \in Nat \ {0} /\ BPS - s \in Nat /\ BPS - u \in Nat /\ BPS - s <= BPS - u
  BY SMT DEF BPS
<1> HIDE DEF Fee
<1>5. /\ Fee(QuoteOut(a, q, p)) * (BPS - s) \in Nat
      /\ Fee(QuoteOut(b, q, r)) * (BPS - u) \in Nat
      /\ Fee(QuoteOut(a, q, p)) * (BPS - s) <= Fee(QuoteOut(b, q, r)) * (BPS - u)
  BY <1>3, <1>4, ProductMonotone
<1>6. /\ Cut(Fee(QuoteOut(a, q, p)), s) \in Nat /\ Cut(Fee(QuoteOut(b, q, r)), u) \in Nat
      /\ Cut(Fee(QuoteOut(a, q, p)), s) <= Cut(Fee(QuoteOut(b, q, r)), u)
  BY <1>4, <1>5, DivMonotone, DivBounds
<1>7. /\ DiscountedOut(a, q, p, s, rate) = Cut(Fee(QuoteOut(a, q, p)), s)
      /\ DiscountedOut(b, q, r, u, rate) = Cut(Fee(QuoteOut(b, q, r)), u)
  BY DEF DiscountedOut, Fee
<1> HIDE DEF Cut
<1> QED
  BY <1>6, <1>7, ScaleAssumption DEF CalcMinAmountOut, SatSub

LEMMA PriceMonotone ==
  ASSUME NEW p \in Nat, NEW r \in Nat, p <= r
  PROVE  PriceOf(p) \in Nat /\ PriceOf(r) \in Nat /\ PriceOf(p) <= PriceOf(r)
<1>1. p * p \in Nat /\ r * r \in Nat /\ p * p <= r * r
  BY ProductMonotone
<1> QED
  BY <1>1, ScaleAssumption, DivMonotone, DivBounds DEF PriceOf

LEMMA Quote0Monotone ==
  ASSUME NEW a \in Nat, NEW b \in Nat, NEW p \in Nat, NEW r \in Nat, a <= b, p <= r
  PROVE  QuoteOut(a, TRUE, p) <= QuoteOut(b, TRUE, r)
<1>1. PriceOf(p) \in Nat /\ PriceOf(r) \in Nat /\ PriceOf(p) <= PriceOf(r)
  BY PriceMonotone
<1>2. a * PriceOf(p) \in Nat /\ b * PriceOf(r) \in Nat /\ a * PriceOf(p) <= b * PriceOf(r)
  BY <1>1, ProductMonotone
<1> QED
  BY <1>2, ScaleAssumption, DivMonotone DEF QuoteOut

\* The inverse of a higher price is lower.
LEMMA Quote1Monotone ==
  ASSUME NEW a \in Nat, NEW b \in Nat, NEW p \in Nat, NEW r \in Nat, a <= b, p <= r,
         PriceOf(p) # 0, PriceOf(r) # 0
  PROVE  QuoteOut(a, FALSE, r) <= QuoteOut(b, FALSE, p)
<1>1. /\ PriceOf(p) \in Nat \ {0} /\ PriceOf(r) \in Nat \ {0}
      /\ PriceOf(p) <= PriceOf(r)
  BY PriceMonotone
<1>2. Q64 * Q64 \in Nat
  BY ScaleAssumption
<1> DEFINE x == (Q64 * Q64) \div PriceOf(r)
           y == (Q64 * Q64) \div PriceOf(p)
<1>3. x \in Nat /\ y \in Nat /\ x <= y
  BY <1>1, <1>2, DivAntitone, DivBounds
<1> HIDE DEF x, y
<1>4. a * x \in Nat /\ b * y \in Nat /\ a * x <= b * y
  BY <1>3, ProductMonotone
<1>5. (a * x) \div Q64 <= (b * y) \div Q64
  BY <1>4, ScaleAssumption, DivMonotone
<1> QED
  BY <1>5 DEF QuoteOut, x, y

\* More input and less slippage never lower the threshold, and a price that moves in the
\* seller's favour never does: the client may re-plan with fresher data and the program
\* does not become laxer for it.
THEOREM ThresholdIsMonotone == Spec => ThresholdMonotone
<1> DEFINE Up == slippage' <= slippage /\ (inputIsToken0 \/ sqrtPrice' = sqrtPrice)
           Down == slippage' >= slippage /\ amount' = amount /\ ~inputIsToken0
           Step == Quotable /\ Quotable' =>
                     /\ Up => Threshold <= Threshold'
                     /\ Down => Threshold' <= Threshold
<1>1. ASSUME InputsOK, InputsOK', Next PROVE Step
  <2> SUFFICES ASSUME Quotable, Quotable' PROVE (Up => Threshold <= Threshold')
                                                /\ (Down => Threshold' <= Threshold)
    OBVIOUS
  <2>1. /\ amount \in Nat /\ sqrtPrice \in Nat /\ slippage \in 0..BPS
        /\ tradeFee \in 0..FEE_UNIT /\ tradeFee' = tradeFee
        /\ amount' \in Nat /\ sqrtPrice' \in Nat /\ slippage' \in 0..BPS
        /\ inputIsToken0 \in BOOLEAN
    BY <1>1, MinOutAssumption
    DEF InputsOK, Next, AskMore, SetSlippage, MovePrice
  <2>2. amount <= amount' /\ sqrtPrice <= sqrtPrice' /\ inputIsToken0' = inputIsToken0
    BY <1>1, <2>1 DEF Next, AskMore, SetSlippage, MovePrice
  <2>3. PriceOf(sqrtPrice) # 0 /\ PriceOf(sqrtPrice') # 0
    BY DEF Quotable, MinOutError
  <2>4. /\ QuoteOut(amount, inputIsToken0, sqrtPrice) \in Nat
        /\ QuoteOut(amount', inputIsToken0, sqrtPrice') \in Nat
    BY <2>1, <2>3, QuoteOutType
  <2>5. ASSUME Up PROVE Threshold <= Threshold'
    <3>1. QuoteOut(amount, inputIsToken0, sqrtPrice)
            <= QuoteOut(amount', inputIsToken0, sqrtPrice')
      <4>1. CASE inputIsToken0
        <5>1. inputIsToken0 = TRUE
          BY <2>1, <4>1
        <5> QED
          BY <2>1, <2>2, <5>1, Quote0Monotone
      <4>2. CASE ~inputIsToken0
        <5>1. inputIsToken0 = FALSE /\ sqrtPrice' = sqrtPrice
          BY <2>1, <2>5, <4>2
        <5>2. sqrtPrice <= sqrtPrice
          BY <2>1
        <5>3. QuoteOut(amount, FALSE, sqrtPrice) <= QuoteOut(amount', FALSE, sqrtPrice)
          BY <2>1, <2>2, <2>3, <5>2, Quote1Monotone
        <5> QED
          BY <5>1, <5>3
      <4> QED
        BY <4>1, <4>2
    <3> QED
      BY <2>1, <2>2, <2>4, <2>5, <3>1, ThresholdCompare DEF Threshold
  <2>6. ASSUME Down PROVE Threshold' <= Threshold
    <3>1. inputIsToken0 = FALSE /\ amount' = amount /\ amount' <= amount
      BY <2>1, <2>6
    <3>2. QuoteOut(amount', FALSE, sqrtPrice') <= QuoteOut(amount, FALSE, sqrtPrice)
      BY <2>1, <2>2, <2>3, <3>1, Quote1Monotone
    <3> QED
      BY <2>1, <2>2, <2>4, <2>6, <3>1, <3>2, ThresholdCompare DEF Threshold
  <2> QED
    BY <2>5, <2>6
<1>2. InputsOK /\ InputsOK' /\ [Next]_vars => [Step]_vars
  BY <1>1
<1>3. ThresholdMonotone <=> [][Step]_vars
  BY DEF ThresholdMonotone
<1> QED
  BY <1>2, <1>3, InputsInvariant, PTL DEF Spec

\* The threshold gives away no more than the caller agreed to: the pool's fee, the
\* slippage, the dust floor and two units of rounding (state/utils.rs,
\* calc_min_amount_out).
THEOREM LossIsBounded == Spec => []LossBounded
<1>1. ASSUME InputsOK PROVE LossBounded
  <2> DEFINE quote == QuoteOut(amount, inputIsToken0, sqrtPrice)
             out == DiscountedOut(amount, inputIsToken0, sqrtPrice, slippage, tradeFee)
             share == quote * (tradeFee + slippage * (FEE_UNIT \div BPS))
  <2> SUFFICES ASSUME Quotable
               PROVE  (quote - Threshold - DUST_FLOOR - 2) * FEE_UNIT <= share
    BY DEF LossBounded
  <2>1. /\ amount \in Nat /\ sqrtPrice \in Nat /\ slippage \in 0..BPS
        /\ inputIsToken0 \in BOOLEAN /\ tradeFee \in 0..FEE_UNIT
    BY <1>1, MinOutAssumption DEF InputsOK
  <2>2. PriceOf(sqrtPrice) # 0
    BY DEF Quotable, MinOutError
  <2>3. quote \in Nat
    BY <2>1, <2>2, QuoteOutType
  <2>4. out \in Nat
    BY <2>1, <2>3, ThresholdBelowQuote
  <2>5. (quote - out - 2) * FEE_UNIT <= share
    BY <2>1, <2>3, DiscountLoss
  <2>6. Threshold = SatSub(out, DUST_FLOOR)
    BY DEF Threshold, CalcMinAmountOut
  <2>7. FEE_UNIT \in Nat /\ FEE_UNIT \div BPS \in Nat
    BY UnitsType, UnitsRatio
  <2>8. share \in Nat
    BY <2>1, <2>3, <2>7
  <2> HIDE DEF quote, out, share
  <2>9. Threshold \in Nat /\ quote - Threshold - DUST_FLOOR - 2 <= quote - out - 2
    BY <2>3, <2>4, <2>6, ScaleAssumption DEF SatSub
  <2>10. (quote - Threshold - DUST_FLOOR - 2) * FEE_UNIT <= (quote - out - 2) * FEE_UNIT
    <3> DEFINE x == quote - Threshold - DUST_FLOOR - 2
               y == quote - out - 2
    <3>1. x \in Int /\ y \in Int /\ x <= y
      BY <2>3, <2>4, <2>9, ScaleAssumption
    <3> HIDE DEF x, y
    <3>2. x * FEE_UNIT <= y * FEE_UNIT
      BY <2>7, <3>1
    <3> QED
      BY <3>2 DEF x, y
  <2> QED
    <3> DEFINE x == (quote - Threshold - DUST_FLOOR - 2) * FEE_UNIT
               y == (quote - out - 2) * FEE_UNIT
    <3>1. x \in Int /\ y \in Int
      BY <2>3, <2>4, <2>7, <2>9, ScaleAssumption
    <3>2. x <= y /\ y <= share
      BY <2>5, <2>10
    <3> HIDE DEF x, y
    <3>3. x <= share
      BY <2>8, <3>1, <3>2
    <3> QED
      BY <3>3 DEF x
<1> QED
  BY <1>1, InputsInvariant, PTL

\* A value that is returned fits in the u64 it is cast to (the guard against truncation
\* is in the right place: before the dust floor is subtracted).
THEOREM TypeCorrect == Spec => []TypeOK
<1>1. ASSUME InputsOK PROVE TypeOK
  <2>1. /\ amount \in Nat /\ sqrtPrice \in Nat /\ slippage \in 0..BPS
        /\ inputIsToken0 \in BOOLEAN /\ tradeFee \in 0..FEE_UNIT
    BY <1>1, MinOutAssumption DEF InputsOK
  <2>2. ASSUME Quotable PROVE Threshold \in 0..U64_MAX
    <3> DEFINE out == DiscountedOut(amount, inputIsToken0, sqrtPrice, slippage,
                                    tradeFee)
    <3>1. PriceOf(sqrtPrice) # 0 /\ ~(out > U64_MAX)
      BY <2>2 DEF Quotable, MinOutError
    <3>2. Threshold \in Nat /\ Threshold <= out
      BY <2>1, <3>1, QuoteOutType, ThresholdBelowQuote DEF Threshold
    <3>3. out \in Int
      BY <2>1, <3>1, QuoteOutType, ThresholdBelowQuote
    <3> HIDE DEF out
    <3> QED
      BY <3>1, <3>2, <3>3, ScaleAssumption
  <2> QED
    BY <1>1, <2>1, <2>2 DEF InputsOK, TypeOK
<1> QED
  BY <1>1, InputsInvariant, PTL

=============================================================================

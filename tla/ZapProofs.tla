------------------------------ MODULE ZapProofs ------------------------------
(***************************************************************************)
(* Proofs about Zap, for any wallets, amounts, prices, swap results and    *)
(* number of calls.  ZapInv follows the budget through a call: what the    *)
(* transit accounts lost on a side is the input minus what is still in the *)
(* budget, then minus what is left over, then minus what is returned or    *)
(* unsold; where a swap back took more than the leftover, unsold is below  *)
(* 0.  All that leaves for another wallet is dust.                         *)
(***************************************************************************)
EXTENDS Zap, LiquidityMathProofs

\* What the signer's transit account gained on side s since the call began.
Change(s) == tok[Signer][s] - saved.tok[Signer][s]

\* A balance is a u64, on the signer's accounts because Raydium cannot pay more.
Bounded == \A s \in Sides : tok[Signer][s] <= U64_MAX /\ saved.tok[Signer][s] <= U64_MAX

Checked ==
  pc # "idle" =>
    /\ call \in Calls
    /\ call.lower < call.upper /\ call.slippage < 5000 /\ call.returnMint # Foreign
    /\ \A s \in Sides : saved.acct[s].live /\ call.amountIn[s] <= saved.tok[Signer][s]

\* Lamports and accounts are untouched until the wSOL account is closed.
Untouched == pc \in {"swap", "cpi", "back", "unwrap"} => sol = saved.sol /\ acct = saved.acct

AtSwap == pc = "swap" => tok = saved.tok /\ maxAmt = call.amountIn

AtCpi ==
  pc = "cpi" =>
    /\ preCpi = tok[Signer]
    /\ \A s \in Sides : Change(s) = maxAmt[s] - call.amountIn[s]

AtBack ==
  pc = "back" =>
    \A s \in Sides : /\ principal[s] <= maxAmt[s]
                     /\ Change(s) = maxAmt[s] - principal[s] - call.amountIn[s]

\* Every unit of the budget is returned, left by a swap back (which may also take more),
\* or dust of a fee owner.
OwnDust(s) == IF call.feeOwner = Signer THEN dust[s] ELSE 0

Accounted ==
  pc \in {"unwrap", "exit", "done"} =>
    \A s \in Sides :
      /\ Gain(Signer, s) = returned[s] + unsold[s] + OwnDust(s) - call.amountIn[s]
      /\ dust[s] > 0 => returned[s] = 0 /\ unsold[s] = 0

\* A swap back sells the unwanted token only, and takes what the signer has.
SoldBack ==
  pc \in {"unwrap", "exit", "done"} =>
    \A s \in Sides :
      /\ unsold[s] # 0 =>
           returned[s] = 0 /\ unsold[Other(s)] = 0 /\ call.returnMint = Other(s)
      /\ call.amountIn[s] + Overdrawn(s) <= saved.tok[Signer][s]

EventReturns == pc \in {"exit", "done"} => event.returned = returned

NotYet == pc \in {"idle", "swap", "cpi", "back"} => dust = Zero /\ unsold = Zero

\* Other wallets get dust, and dust is hardly worth anything.
OthersKept ==
  pc # "idle" =>
    \A w \in Wallets \ {Signer} :
      /\ sol[w] = saved.sol[w]
      /\ \A s \in Sides :
           tok[w][s] = saved.tok[w][s] + (IF w = call.feeOwner THEN dust[s] ELSE 0)

HardlyWorth(n, s) ==
  QuoteOut(n, s = 0, price)
    * (FEE_UNIT - TRADE_FEE_RATE - call.slippage * (FEE_UNIT \div BPS))
    <= (DUST_FLOOR + 2) * FEE_UNIT

DustWorthless ==
  \A s \in Sides :
    dust[s] > 0 => /\ s # native /\ call.returnMint = Other(s)
                   /\ HardlyWorth(dust[s], s)

FlowInv ==
  /\ Checked /\ Untouched /\ AtSwap /\ AtCpi /\ AtBack /\ Accounted /\ SoldBack
  /\ EventReturns /\ NotYet /\ OthersKept /\ DustWorthless

ZapInv == TypeOK /\ Bounded /\ FlowInv

(***************************************************************************)
(* Arithmetic.                                                             *)
(***************************************************************************)
LEMMA DivNat == \A a \in Nat, b \in Nat \ {0} : a \div b \in Nat
  OBVIOUS

LEMMA ZeroType == Zero \in [Sides -> Nat] /\ \A s \in Sides : Zero[s] = 0
  BY DEF Zero

\* A minimum output is a number where the code computes one.
LEMMA QuoteType ==
  ASSUME NEW a \in Nat, NEW s \in Sides, NEW bps \in 0..BPS, price \in Nat,
         QuoteError(a, s, bps) = "none"
  PROVE  Quote(a, s, bps) \in Nat
  BY ZapAssumption, MinOutBound DEF Quote, QuoteError

\* What is too little for a swap is hardly worth anything: the quote loses the fee, the
\* slippage and two units to roundings, and then no more than the floor.
LEMMA DustValue ==
  ASSUME NEW a \in Nat, NEW s \in Sides, price \in Nat, call.slippage \in 0..BPS,
         QuoteError(a, s, call.slippage) = "none", Quote(a, s, call.slippage) = 0
  PROVE  HardlyWorth(a, s)
<1> DEFINE quote == QuoteOut(a, s = 0, price)
           out == DiscountedOut(a, s = 0, price, call.slippage, TRADE_FEE_RATE)
           k == call.slippage * (FEE_UNIT \div BPS)
<1>1. FEE_UNIT \in Nat \ {0} /\ k \in Nat
  BY UnitsType, UnitsRatio
<1>2. TRADE_FEE_RATE \in 0..FEE_UNIT /\ DUST_FLOOR \in Nat /\ (s = 0) \in BOOLEAN
  BY ZapAssumption, ScaleAssumption
<1>3. PriceOf(price) # 0
  BY DEF QuoteError, MinOutError
<1>4. quote \in Nat
  BY <1>2, <1>3, QuoteOutType
<1>5. out \in Nat /\ (quote - out - 2) * FEE_UNIT <= quote * (TRADE_FEE_RATE + k)
  BY <1>2, <1>4, DiscountBound, DiscountLoss
<1>6. out <= DUST_FLOOR
  <2>1. SatSub(out, DUST_FLOOR) = 0
    BY DEF Quote, CalcMinAmountOut
  <2> HIDE DEF out
  <2> QED
    BY <1>2, <1>5, <2>1 DEF SatSub
<1> HIDE DEF quote, out, k
<1>7. out * FEE_UNIT <= DUST_FLOOR * FEE_UNIT
  BY <1>1, <1>2, <1>5, <1>6
<1>8. TRADE_FEE_RATE \in Nat
  BY <1>1, <1>2
<1>9. /\ (quote - out - 2) * FEE_UNIT = quote * FEE_UNIT - out * FEE_UNIT - 2 * FEE_UNIT
      /\ quote * (TRADE_FEE_RATE + k) = quote * TRADE_FEE_RATE + quote * k
      /\ quote * (FEE_UNIT - TRADE_FEE_RATE - k)
           = quote * FEE_UNIT - quote * TRADE_FEE_RATE - quote * k
      /\ (DUST_FLOOR + 2) * FEE_UNIT = DUST_FLOOR * FEE_UNIT + 2 * FEE_UNIT
  BY <1>1, <1>2, <1>4, <1>5, <1>8
<1>10. /\ quote * FEE_UNIT \in Int /\ out * FEE_UNIT \in Int /\ DUST_FLOOR * FEE_UNIT \in Int
       /\ quote * TRADE_FEE_RATE \in Int /\ quote * k \in Int
  BY <1>1, <1>2, <1>4, <1>5, <1>8
<1>11. quote * (FEE_UNIT - TRADE_FEE_RATE - k) <= (DUST_FLOOR + 2) * FEE_UNIT
  BY <1>1, <1>5, <1>7, <1>9, <1>10
<1> QED
  BY <1>11 DEF HardlyWorth, quote, k

\* The liquidity of a range is a number.
LEMMA SingleType ==
  ASSUME NEW p \in Nat, NEW lo \in Nat, NEW hi \in Nat, lo < hi,
         NEW s \in Sides, NEW n \in Nat
  PROVE  SingleLiquidity(p, lo, hi, s, n) \in Nat
<1>1. \A a, b \in Nat : a < b => Liquidity0(a, b, n) \in Nat /\ Liquidity1(a, b, n) \in Nat
  <2> SUFFICES ASSUME NEW a \in Nat, NEW b \in Nat, a < b
               PROVE  Liquidity0(a, b, n) \in Nat /\ Liquidity1(a, b, n) \in Nat
    OBVIOUS
  <2>1. a * b \in Nat /\ n * Q64 \in Nat /\ b - a \in Nat \ {0}
    BY ScaleAssumption
  <2>2. (a * b) \div Q64 \in Nat
    BY <2>1, ScaleAssumption, DivNat
  <2>3. n * ((a * b) \div Q64) \in Nat
    BY <2>2
  <2> QED
    BY <2>1, <2>3, DivNat DEF Liquidity0, Liquidity1
<1> QED
  BY <1>1 DEF SingleLiquidity

LEMMA LiquidityType ==
  ASSUME NEW p \in Nat, NEW lo \in Nat, NEW hi \in Nat, lo < hi, NEW m \in [Sides -> Nat]
  PROVE  LiquidityFor(p, lo, hi, m) \in Nat
<1>1. \A s \in {0, 1} : SingleLiquidity(p, lo, hi, s, m[s]) \in Nat
  BY SingleType DEF Sides
<1> QED
  BY <1>1 DEF LiquidityFor, Smaller

(***************************************************************************)
(* The steps that begin, end or stay outside a call.                       *)
(***************************************************************************)
LEMMA InitZapInv == Init => ZapInv
<1> SUFFICES ASSUME Init PROVE ZapInv
  OBVIOUS
<1>1. Image \in ImageType /\ saved = Image
  <2>1. OwnToken \in Nat /\ OwnSol \in Nat /\ price \in Nat
    BY ZapAssumption DEF Init
  <2>2. tok \in BalanceType
    BY <2>1 DEF Init, BalanceType
  <2>3. sol \in [Wallets -> Nat]
    BY <2>1 DEF Init
  <2>4. acct \in [Sides -> TransitType]
    <3>1. PICK isAta \in BOOLEAN :
            acct = [s \in Sides |-> [live |-> TRUE, ata |-> isAta /\ s = native,
                                     delegate |-> FALSE, closeAuth |-> FALSE]]
      BY DEF Init
    <3>2. \A s \in Sides : (isAta /\ s = native) \in BOOLEAN
      BY Zenon
    <3> QED
      BY <3>1, <3>2, Zenon DEF TransitType
  <2> QED
    BY <2>1, <2>2, <2>3, <2>4 DEF Init, Image, ImageType
<1>2. TypeOK
  BY <1>1, ZapAssumption, ZeroType DEF Init, TypeOK, Steps, NoSwap, NoEvent, Sides, NoSide
<1>3. Bounded
  BY <1>1, ZapAssumption DEF Init, Bounded, Image
<1> QED
  BY <1>2, <1>3, ZeroType
  DEF Init, ZapInv, FlowInv, Checked, Untouched, AtSwap, AtCpi, AtBack, Accounted, SoldBack,
      EventReturns, NotYet, OthersKept, DustWorthless

LEMMA IdleFlow ==
  ASSUME pc' = "idle", dust' = Zero, unsold' = Zero
  PROVE  FlowInv'
  BY ZeroType
  DEF FlowInv, Checked, Untouched, AtSwap, AtCpi, AtBack, Accounted, SoldBack, EventReturns,
      NotYet, OthersKept, DustWorthless

LEMMA AbortInv ==
  ASSUME ZapInv, NEW err, Abort(err)
  PROVE  ZapInv'
<1>1. TypeOK'
  BY ZeroType
  DEF ZapInv, TypeOK, Abort, EmptyLocals, Image, ImageType, NoSwap, NoEvent, Steps, Sides
<1>2. Bounded'
  BY DEF ZapInv, Bounded, Abort
<1> QED
  BY <1>1, <1>2, IdleFlow DEF ZapInv, Abort, EmptyLocals

LEMMA RefuseInv ==
  ASSUME ZapInv, NEW err, Refuse(err)
  PROVE  ZapInv'
  BY AbortInv DEF Refuse

LEMMA ImageFields ==
  ASSUME ZapInv
  PROVE  /\ tok \in BalanceType /\ sol \in [Wallets -> Nat] /\ price \in Nat
         /\ acct \in [Sides -> TransitType]
         /\ saved.tok \in BalanceType /\ saved.sol \in [Wallets -> Nat]
         /\ saved.acct \in [Sides -> TransitType] /\ saved.price \in Nat
  BY DEF ZapInv, TypeOK, Image, ImageType

LEMMA RejectInv ==
  ASSUME ZapInv, NEW c \in Calls, Reject(c)
  PROVE  ZapInv'
<1>1. /\ pc' = "idle" /\ pc = "idle" /\ saved' = Image /\ calls' = calls + 1 /\ calls < MaxCalls
      /\ UNCHANGED <<tok, sol, acct, native, price, call, exec, maxAmt, preCpi, liquidity,
                     added, principal, returned, dust, unsold, event>>
  BY DEF Reject, Submit, ledger, locals, plan, deposit
<1>2. TypeOK'
  BY <1>1, ZapAssumption DEF ZapInv, TypeOK, Image
<1>3. Bounded'
  BY <1>1 DEF ZapInv, Bounded, Image
<1>4. dust' = Zero /\ unsold' = Zero
  BY <1>1 DEF ZapInv, FlowInv, NotYet
<1> QED
  BY <1>1, <1>2, <1>3, <1>4, IdleFlow DEF ZapInv

LEMMA ArgumentFacts ==
  ASSUME ZapInv, NEW c \in Calls, ArgumentError(c) = "none"
  PROVE  /\ c.lower < c.upper /\ c.slippage < 5000 /\ c.returnMint # Foreign
         /\ \A s \in Sides : c.amountIn[s] <= tok[Signer][s]
         /\ ExecPlan(c) \in [side : Sides, amount : Nat, minOut : Nat]
<1>1. /\ c \in CallType /\ c.amountIn \in [Sides -> Nat] /\ c.planIn \in Nat
      /\ c.planMinOut \in Nat /\ c.planSide \in Sides /\ c.slippage \in Nat
      /\ c.lower \in Nat /\ c.upper \in Nat
  BY ZapAssumption DEF CallType
<1>2. c.lower < c.upper /\ c.slippage < 5000 /\ c.returnMint # Foreign
  BY <1>1 DEF ArgumentError
<1>3. \A s \in Sides : c.amountIn[s] <= tok[Signer][s]
  <2>1. ~(\E s \in Sides : tok[Signer][s] < c.amountIn[s])
    BY DEF ArgumentError
  <2>2. \A s \in Sides : tok[Signer][s] \in Nat /\ c.amountIn[s] \in Nat
    BY <1>1, ImageFields, ZapAssumption DEF BalanceType
  <2> QED
    BY <2>1, <2>2
<1>4. Swapped(c).side \in Sides /\ Swapped(c).amount \in Nat
  BY <1>1 DEF Swapped, Sides
<1>5. /\ OutOfRange(c) /\ Swapped(c).amount > 0 =>
           QuoteError(Swapped(c).amount, Swapped(c).side, c.slippage) = "none"
  BY DEF ArgumentError
<1>6. c.slippage \in 0..BPS /\ price \in Nat
  <2>1. price \in Nat
    BY ImageFields
  <2>2. c.slippage \in Nat /\ c.slippage < 5000
    BY <1>1, <1>2
  <2>3. \A n \in Nat : n < 5000 => n \in 0..BPS
    BY DEF BPS
  <2> QED
    BY <2>1, <2>2, <2>3
<1>7. OutOfRange(c) /\ Swapped(c).amount > 0 =>
        Quote(Swapped(c).amount, Swapped(c).side, c.slippage) \in Nat
  BY <1>4, <1>5, <1>6, QuoteType
<1> QED
  BY <1>1, <1>2, <1>3, <1>4, <1>7 DEF ExecPlan

LEMMA BeginInv ==
  ASSUME ZapInv, NEW c \in Calls, Begin(c)
  PROVE  ZapInv'
<1>1. /\ pc = "idle" /\ pc' \in {"swap", "cpi"} /\ call' = c /\ saved' = Image
      /\ calls' = calls + 1 /\ calls < MaxCalls
      /\ exec' = ExecPlan(c) /\ maxAmt' = c.amountIn /\ preCpi' = tok[Signer]
      /\ ArgumentError(c) = "none" /\ \A s \in Sides : acct[s].live
      /\ UNCHANGED <<tok, sol, acct, native, price, liquidity,
                     added, principal, returned, dust, unsold, event>>
  BY DEF Begin, Submit, ledger, deposit
<1>2. saved'.tok = tok /\ saved'.sol = sol /\ saved'.acct = acct
  BY <1>1 DEF Image
<1>3. /\ c.amountIn \in [Sides -> Nat] /\ tok[Signer] \in [Sides -> Nat] /\ Signer \in Wallets
  BY ImageFields, ZapAssumption DEF CallType, BalanceType
<1>4. TypeOK'
  BY <1>1, <1>3, ArgumentFacts, ZapAssumption DEF ZapInv, TypeOK, Image, Steps
<1>5. Bounded'
  BY <1>1, <1>2 DEF ZapInv, Bounded
<1>6. Checked'
  BY <1>1, <1>2, ArgumentFacts DEF Checked
<1>7. Untouched' /\ AtSwap'
  BY <1>1, <1>2 DEF Untouched, AtSwap
<1>8. AtCpi'
  BY <1>1, <1>2, <1>3 DEF AtCpi, Change
<1>9. NotYet'
  BY <1>1 DEF ZapInv, FlowInv, NotYet
<1>10. OthersKept' /\ DustWorthless'
  <2>1. \A s \in Sides : dust'[s] = 0
    BY <1>1, ZeroType DEF ZapInv, FlowInv, NotYet
  <2>2. \A w \in Wallets, s \in Sides : tok[w][s] \in Nat
    BY ImageFields DEF BalanceType
  <2> QED
    BY <1>1, <1>2, <2>1, <2>2 DEF OthersKept, DustWorthless
<1> QED
  BY <1>1, <1>4, <1>5, <1>6, <1>7, <1>8, <1>9, <1>10
  DEF ZapInv, FlowInv, AtBack, Accounted, SoldBack, EventReturns

LEMMA EnvironmentInv ==
  ASSUME ZapInv, Environment
  PROVE  ZapInv'
<1>1. /\ pc = "idle" /\ pc' = "idle"
      /\ UNCHANGED <<native, saved, call, exec, maxAmt, preCpi, liquidity, added, principal,
                     returned, dust, unsold, event, calls>>
  BY DEF Environment, ReopenNative, SetPermissions, PriceMoves, Between, locals, plan, deposit
<1> DEFINE Fine == /\ tok' \in BalanceType /\ sol' \in [Wallets -> Nat] /\ price' \in Nat
                   /\ acct' \in [Sides -> TransitType]
                   /\ \A s \in Sides : tok'[Signer][s] <= U64_MAX
<1>2. Fine
  <2>0. /\ tok \in BalanceType /\ sol \in [Wallets -> Nat] /\ price \in Nat
        /\ acct \in [Sides -> TransitType] /\ \A s \in Sides : tok[Signer][s] <= U64_MAX
        /\ Signer \in Wallets /\ Rent \in Nat /\ OwnToken \in Nat /\ OwnToken <= U64_MAX
        /\ U64_MAX \in Nat
    BY ImageFields, ZapAssumption, ScaleAssumption DEF ZapInv, Bounded
  <2>1. ASSUME NEW isAta \in BOOLEAN, NEW n \in 0..OwnToken, ReopenNative(isAta, n)
        PROVE  Fine
    <3>1. /\ sol[Signer] >= Rent + n /\ sol' = [sol EXCEPT ![Signer] = @ - (Rent + n)]
          /\ tok' = [tok EXCEPT ![Signer][native] = n] /\ price' = price
          /\ acct' = [acct EXCEPT ![native] =
                [live |-> TRUE, ata |-> isAta, delegate |-> FALSE, closeAuth |-> FALSE]]
      BY <2>1 DEF ReopenNative
    <3>2. sol' \in [Wallets -> Nat]
      BY <2>0, <3>1
    <3>3. tok' \in BalanceType
      <4>1. tok[Signer] \in [Sides -> Nat] /\ n \in Nat
        BY <2>0 DEF BalanceType
      <4>2. [tok[Signer] EXCEPT ![native] = n] \in [Sides -> Nat]
        BY <4>1
      <4>3. tok' = [tok EXCEPT ![Signer] = [tok[Signer] EXCEPT ![native] = n]]
        BY <3>1
      <4> QED
        BY <2>0, <4>2, <4>3 DEF BalanceType
    <3>4. acct' \in [Sides -> TransitType]
      BY <2>0, <3>1 DEF TransitType
    <3>5. \A s \in Sides : tok'[Signer][s] <= U64_MAX
      BY <2>0, <3>1 DEF BalanceType
    <3> QED
      BY <2>0, <3>1, <3>2, <3>3, <3>4, <3>5
  <2>2. ASSUME NEW s \in Sides, NEW perm \in Permissions, SetPermissions(s, perm)
        PROVE  Fine
    <3>1. perm.delegate \in BOOLEAN /\ perm.closeAuth \in BOOLEAN
      BY ZapAssumption
    <3>2. /\ UNCHANGED <<tok, sol, price>>
          /\ acct' = [acct EXCEPT ![s].delegate = perm.delegate,
                                  ![s].closeAuth = perm.closeAuth]
      BY <2>2 DEF SetPermissions
    <3>3. acct' \in [Sides -> TransitType]
      BY <2>0, <3>1, <3>2 DEF TransitType
    <3> QED
      BY <2>0, <3>2, <3>3
  <2>3. ASSUME NEW p \in SqrtPrices, PriceMoves(p)
        PROVE  Fine
    BY <2>0, <2>3, ZapAssumption DEF PriceMoves, ledger
  <2> QED
    BY <2>1, <2>2, <2>3 DEF Environment
<1>3. TypeOK'
  BY <1>1, <1>2 DEF ZapInv, TypeOK, Image, ImageType
<1>4. Bounded'
  BY <1>1, <1>2 DEF ZapInv, Bounded
<1> QED
  BY <1>1, <1>3, <1>4, IdleFlow DEF ZapInv, FlowInv, NotYet

(***************************************************************************)
(* The steps of the handler.                                               *)
(***************************************************************************)
LEMMA CallFacts ==
  ASSUME ZapInv, pc # "idle"
  PROVE  /\ call \in Calls /\ call.amountIn \in [Sides -> Nat] /\ call.feeOwner \in Wallets
         /\ call.lower \in Nat \ {0} /\ call.upper \in Nat \ {0} /\ call.lower < call.upper
         /\ call.posLower \in Nat \ {0} /\ call.posUpper \in Nat \ {0}
         /\ call.posLower < call.posUpper
         /\ call.slippage \in 0..BPS /\ call.returnMint \in {0, 1, NoSide}
<1>1. /\ call \in Calls /\ call \in CallType
      /\ call.lower < call.upper /\ call.slippage < 5000 /\ call.returnMint # Foreign
  BY ZapAssumption DEF ZapInv, FlowInv, Checked
<1>2. /\ call.amountIn \in [Sides -> Nat] /\ call.feeOwner \in Wallets
      /\ call.lower \in Nat \ {0} /\ call.upper \in Nat \ {0}
      /\ call.posLower \in Nat \ {0} /\ call.posUpper \in Nat \ {0}
      /\ call.slippage \in Nat /\ call.returnMint \in 0..3
      /\ call.op \in {"deposit", "increase"}
  BY <1>1 DEF CallType
<1>3. call.posLower < call.posUpper
  BY <1>1, <1>2, ZapAssumption
<1>4. \A n \in Nat : n < 5000 => n \in 0..BPS
  BY DEF BPS
<1>5. call.returnMint \in {0, 1, NoSide}
  BY <1>1, <1>2 DEF NoSide, Foreign
<1> QED
  BY <1>1, <1>2, <1>3, <1>4, <1>5

\* With the same lamports and accounts, a gain is a gain in tokens.
LEMMA TokenGain ==
  ASSUME NEW t \in BalanceType, NEW u \in BalanceType, NEW b \in [Wallets -> Nat],
         NEW a \in [Sides -> TransitType], NEW w \in Wallets, NEW s \in Sides
  PROVE  Holding(t, b, a, w, s) - Holding(u, b, a, w, s) = t[w][s] - u[w][s]
<1>1. t[w][s] \in Nat /\ u[w][s] \in Nat /\ b[w] \in Nat /\ Rent \in Nat
  BY ZapAssumption DEF BalanceType
<1> QED
  BY <1>1 DEF Holding, HoldingOf

LEMMA SwapInv ==
  ASSUME ZapInv, NEW r \in SwapOuts, NEW x \in SwapExtras, NEW p \in SqrtPrices, Swap(r, x, p)
  PROVE  ZapInv'
<1> DEFINE i == exec.side
           taken == exec.amount + x
           held == [tok[Signer] EXCEPT ![i] = @ - taken, ![Other(i)] = @ + r]
<1>1. CASE SwapError(i, taken, r) # "none"
  BY <1>1, RefuseInv DEF Swap
<1>2. CASE SwapError(i, taken, r) = "none"
  <2>1. /\ pc = "swap" /\ pc' = "cpi" /\ taken \in 0..tok[Signer][i] /\ CanReceive(Other(i), r)
        /\ tok' = [tok EXCEPT ![Signer] = held] /\ preCpi' = held /\ price' = p
        /\ maxAmt' = SwapBudget(i, taken, r)
        /\ UNCHANGED <<sol, acct, native, saved, call, exec, liquidity, added, principal,
                       returned, dust, unsold, event, calls>>
    BY <1>2 DEF Swap, deposit
  <2>2. /\ i \in Sides /\ Other(i) \in Sides /\ Other(i) # i /\ r \in Nat /\ p \in Nat
        /\ Signer \in Wallets
    BY ZapAssumption DEF ZapInv, TypeOK, Other, Sides
  <2>3. call.amountIn \in [Sides -> Nat]
    BY <2>1, CallFacts
  <2>4. tok = saved.tok /\ tok \in BalanceType /\ tok[Signer] \in [Sides -> Nat]
    BY <2>1, <2>2, ImageFields DEF ZapInv, FlowInv, AtSwap, BalanceType
  <2>5. taken \in Nat /\ taken <= tok[Signer][i] /\ taken <= call.amountIn[i]
    <3>1. tok[Signer][i] \in Nat /\ call.amountIn[i] \in Nat
      BY <2>2, <2>3, <2>4
    <3>2. taken \in Nat /\ taken <= tok[Signer][i]
      BY <2>1, <3>1
    <3> QED
      BY <1>2, <3>1, <3>2 DEF SwapError
  <2> HIDE DEF taken, i
  <2>6. /\ held \in [Sides -> Nat] /\ held[i] = tok[Signer][i] - taken
        /\ held[Other(i)] = tok[Signer][Other(i)] + r
    BY <2>2, <2>4, <2>5
  <2>7. /\ maxAmt' \in [Sides -> Nat] /\ maxAmt'[i] = call.amountIn[i] - taken
        /\ maxAmt'[Other(i)] = call.amountIn[Other(i)] + r
    BY <2>1, <2>2, <2>3, <2>5 DEF ZapInv, TypeOK, SwapBudget
  <2> HIDE DEF held
  <2>8. \A s \in Sides : s = i \/ s = Other(i)
    BY <2>2 DEF Sides, Other
  <2>9. tok' \in BalanceType /\ tok'[Signer] = held
        /\ \A w \in Wallets \ {Signer} : tok'[w] = tok[w]
    BY <2>1, <2>2, <2>4, <2>6 DEF BalanceType
  <2>10. TypeOK'
    BY <2>1, <2>2, <2>6, <2>7, <2>9 DEF ZapInv, TypeOK, Image, ImageType, Steps
  <2>11. Bounded'
    <3>1. tok[Signer][Other(i)] + r <= U64_MAX
      BY <2>1 DEF CanReceive
    <3>2. \A s \in Sides : tok[Signer][s] \in Nat /\ tok[Signer][s] <= U64_MAX
                           /\ saved.tok[Signer][s] <= U64_MAX
      BY <2>4 DEF ZapInv, Bounded
    <3>3. \A s \in Sides : held[s] <= U64_MAX
      <4> TAKE s \in Sides
      <4>1. CASE s = i
        <5>1. tok[Signer][i] \in Nat /\ tok[Signer][i] <= U64_MAX
          BY <2>2, <3>2
        <5> QED
          BY <2>5, <2>6, <4>1, <5>1, ScaleAssumption
      <4>2. CASE s = Other(i)
        BY <2>6, <3>1, <4>2
      <4> QED
        BY <2>8, <4>1, <4>2
    <3> QED
      BY <2>1, <2>9, <3>2, <3>3 DEF Bounded
  <2>12. AtCpi'
    <3> SUFFICES ASSUME NEW s \in Sides
                 PROVE  Change(s)' = maxAmt'[s] - call'.amountIn[s]
      BY <2>1, <2>9 DEF AtCpi
    <3>1. Change(s)' = held[s] - tok[Signer][s]
      BY <2>1, <2>4, <2>9 DEF Change
    <3>2. /\ tok[Signer][i] \in Nat /\ tok[Signer][Other(i)] \in Nat
          /\ call.amountIn[i] \in Nat /\ call.amountIn[Other(i)] \in Nat
      BY <2>2, <2>3, <2>4
    <3>3. CASE s = i
      BY <2>1, <2>5, <2>6, <2>7, <3>1, <3>2, <3>3
    <3>4. CASE s = Other(i)
      BY <2>1, <2>2, <2>6, <2>7, <3>1, <3>2, <3>4
    <3> QED
      BY <2>8, <3>3, <3>4
  <2>13. dust' = Zero /\ unsold' = Zero
    BY <2>1 DEF ZapInv, FlowInv, NotYet
  <2>14. OthersKept' /\ DustWorthless'
    <3>1. \A s \in Sides : dust'[s] = 0 /\ dust[s] = 0
      BY <2>1, <2>13, ZeroType
    <3> QED
      BY <2>1, <2>9, <3>1 DEF ZapInv, FlowInv, OthersKept, DustWorthless
  <2>15. Checked' /\ Untouched'
    BY <2>1 DEF ZapInv, FlowInv, Checked, Untouched
  <2> QED
    BY <2>1, <2>10, <2>11, <2>12, <2>13, <2>14, <2>15
    DEF ZapInv, FlowInv, AtSwap, AtBack, Accounted, SoldBack, EventReturns, NotYet
<1> QED
  BY <1>1, <1>2

LEMMA DepositCpiInv ==
  ASSUME ZapInv, NEW fee \in TokenFees, DepositCpi(fee)
  PROVE  ZapInv'
<1> DEFINE cost == Cost(price, call.posLower, call.posUpper, AddedLiquidity)
           taken == [s \in Sides |-> IF cost[s] = 0 THEN 0 ELSE cost[s] + fee[s]]
<1>1. /\ pc = "cpi" /\ pc' = "back" /\ \A s \in Sides : taken[s] \in 0..maxAmt[s]
      /\ tok' = [tok EXCEPT ![Signer] = [s \in Sides |-> @[s] - taken[s]]]
      /\ liquidity' = ComputedLiquidity /\ added' = AddedLiquidity
      /\ principal' = [s \in Sides |-> SatSub(preCpi[s], tok'[Signer][s])]
      /\ UNCHANGED <<sol, acct, native, price, saved, call, exec, maxAmt, preCpi, returned,
                     dust, unsold, event, calls>>
  BY DEF DepositCpi, plan
<1> HIDE DEF taken
<1>2. ComputedLiquidity \in Nat /\ AddedLiquidity \in Nat
  <2>1. maxAmt \in [Sides -> Nat] /\ price \in Nat /\ BaseSide \in Sides
    BY ImageFields DEF ZapInv, TypeOK, BaseSide, Sides
  <2>2. ComputedLiquidity \in Nat
    BY <1>1, <2>1, CallFacts, LiquidityType DEF ComputedLiquidity
  <2>3. SingleLiquidity(price, call.posLower, call.posUpper, BaseSide, maxAmt[BaseSide]) \in Nat
    BY <1>1, <2>1, CallFacts, SingleType
  <2> QED
    BY <2>2, <2>3 DEF AddedLiquidity
<1>3. /\ tok \in BalanceType /\ Signer \in Wallets /\ maxAmt \in [Sides -> Nat]
      /\ preCpi = tok[Signer] /\ call.amountIn \in [Sides -> Nat] /\ saved.tok \in BalanceType
  BY <1>1, ImageFields, CallFacts, ZapAssumption DEF ZapInv, TypeOK, FlowInv, AtCpi
<1>4. \A s \in Sides : /\ tok[Signer][s] \in Nat /\ saved.tok[Signer][s] \in Nat
                       /\ call.amountIn[s] \in Nat /\ maxAmt[s] \in Nat
                       /\ taken[s] \in Nat /\ taken[s] <= maxAmt[s]
  BY <1>1, <1>3 DEF BalanceType
<1>5. \A s \in Sides :
        /\ tok[Signer][s] = saved.tok[Signer][s] + maxAmt[s] - call.amountIn[s]
        /\ call.amountIn[s] <= saved.tok[Signer][s]
  BY <1>1, <1>4 DEF ZapInv, FlowInv, AtCpi, Change, Checked
<1>6. \A s \in Sides : taken[s] <= tok[Signer][s]
  BY <1>4, <1>5
<1>7. /\ \A s \in Sides : tok'[Signer][s] = tok[Signer][s] - taken[s]
      /\ \A w \in Wallets \ {Signer} : tok'[w] = tok[w]
  BY <1>1, <1>3 DEF BalanceType
<1>8. tok' \in BalanceType
  <2>1. [s \in Sides |-> tok[Signer][s] - taken[s]] \in [Sides -> Nat]
    BY <1>4, <1>6
  <2> QED
    BY <1>1, <1>3, <2>1 DEF BalanceType
<1>9. /\ principal' \in [Sides -> Nat]
      /\ \A s \in Sides : principal'[s] = taken[s]
  <2>1. \A s \in Sides : SatSub(preCpi[s], tok'[Signer][s]) = taken[s]
    BY <1>3, <1>4, <1>6, <1>7 DEF SatSub
  <2> QED
    BY <1>1, <1>4, <2>1
<1>10. TypeOK'
  BY <1>1, <1>2, <1>8, <1>9 DEF ZapInv, TypeOK, Image, ImageType, Steps
<1>11. Bounded'
  <2>1. \A s \in Sides : tok[Signer][s] <= U64_MAX /\ saved.tok[Signer][s] <= U64_MAX
    BY DEF ZapInv, Bounded
  <2> QED
    BY <1>1, <1>4, <1>7, <2>1, ScaleAssumption DEF Bounded
<1>12. AtBack'
  BY <1>1, <1>4, <1>5, <1>7, <1>9 DEF AtBack, Change
<1>13. OthersKept' /\ DustWorthless' /\ NotYet'
  <2>1. dust = Zero /\ dust' = Zero /\ unsold' = Zero
    BY <1>1 DEF ZapInv, FlowInv, NotYet
  <2> QED
    BY <1>1, <1>7, <2>1, ZeroType DEF ZapInv, FlowInv, OthersKept, DustWorthless, NotYet
<1>14. Checked' /\ Untouched'
  BY <1>1 DEF ZapInv, FlowInv, Checked, Untouched
<1> QED
  BY <1>1, <1>10, <1>11, <1>12, <1>13, <1>14
  DEF ZapInv, FlowInv, AtSwap, AtCpi, Accounted, SoldBack, EventReturns

LEMMA BackFacts ==
  ASSUME ZapInv, pc = "back"
  PROVE  /\ tok \in BalanceType /\ saved.tok \in BalanceType /\ Signer \in Wallets
         /\ dust = Zero /\ unsold = Zero /\ Leftover \in [Sides -> Nat]
         /\ \A s \in Sides :
              /\ tok[Signer][s] \in Nat /\ saved.tok[Signer][s] \in Nat
              /\ call.amountIn[s] \in Nat /\ tok[Signer][s] <= U64_MAX
              /\ tok[Signer][s] = saved.tok[Signer][s] + Leftover[s] - call.amountIn[s]
              /\ Leftover[s] <= tok[Signer][s]
<1>1. /\ tok \in BalanceType /\ saved.tok \in BalanceType /\ Signer \in Wallets
      /\ maxAmt \in [Sides -> Nat] /\ principal \in [Sides -> Nat]
      /\ call.amountIn \in [Sides -> Nat]
  BY ImageFields, CallFacts, ZapAssumption DEF ZapInv, TypeOK
<1>2. dust = Zero /\ unsold = Zero
  BY DEF ZapInv, FlowInv, NotYet
<1>3. \A s \in Sides :
        /\ tok[Signer][s] \in Nat /\ saved.tok[Signer][s] \in Nat /\ call.amountIn[s] \in Nat
        /\ maxAmt[s] \in Nat /\ principal[s] \in Nat /\ principal[s] <= maxAmt[s]
        /\ tok[Signer][s] <= U64_MAX /\ call.amountIn[s] <= saved.tok[Signer][s]
        /\ tok[Signer][s] - saved.tok[Signer][s] = maxAmt[s] - principal[s] - call.amountIn[s]
  BY <1>1 DEF BalanceType, ZapInv, Bounded, FlowInv, AtBack, Change, Checked
<1>4. \A s \in Sides : /\ SatSub(maxAmt[s], principal[s]) \in Nat
                       /\ SatSub(maxAmt[s], principal[s]) = maxAmt[s] - principal[s]
  BY <1>3, SatSubBound
<1>5. Leftover \in [Sides -> Nat] /\ \A s \in Sides : Leftover[s] = maxAmt[s] - principal[s]
  BY <1>4 DEF Leftover
<1> QED
  BY <1>1, <1>2, <1>3, <1>5

\* What a step that returns the leftovers has to show.
LEMMA ReturnedInv ==
  ASSUME ZapInv, pc = "back", pc' = "unwrap", price' \in Nat, tok' \in BalanceType,
         UNCHANGED <<sol, acct, native, saved, call, exec, maxAmt, preCpi, liquidity, added,
                     principal, event, calls>>,
         returned' \in [Sides -> Nat], dust' \in [Sides -> Nat], unsold' \in [Sides -> Int],
         \A s \in Sides :
           /\ tok'[Signer][s] <= U64_MAX
           /\ tok'[Signer][s] - saved.tok[Signer][s] =
                returned'[s] + unsold'[s] + (IF call.feeOwner = Signer THEN dust'[s] ELSE 0)
                  - call.amountIn[s]
           /\ dust'[s] > 0 => returned'[s] = 0 /\ unsold'[s] = 0
           /\ unsold'[s] # 0 =>
                returned'[s] = 0 /\ unsold'[Other(s)] = 0 /\ call.returnMint = Other(s),
         \A w \in Wallets \ {Signer}, s \in Sides :
           tok'[w][s] = tok[w][s] + (IF w = call.feeOwner THEN dust'[s] ELSE 0),
         DustWorthless'
  PROVE  ZapInv'
<1>1. TypeOK'
  BY DEF ZapInv, TypeOK, Image, ImageType, Steps
<1>2. Bounded'
  BY DEF ZapInv, Bounded
<1>3. Accounted'
  <2> SUFFICES ASSUME NEW s \in Sides
               PROVE  Gain(Signer, s)' = returned'[s] + unsold'[s] + OwnDust(s)'
                                           - call'.amountIn[s]
    BY DEF Accounted
  <2>1. Gain(Signer, s)' = tok'[Signer][s] - saved.tok[Signer][s]
    <3>1. sol = saved.sol /\ acct = saved.acct
      BY DEF ZapInv, FlowInv, Untouched
    <3>2. Gain(Signer, s)' = Holding(tok', sol, acct, Signer, s) -
                             Holding(saved.tok, sol, acct, Signer, s)
      BY <3>1 DEF Gain, Holding
    <3> QED
      BY <3>2, TokenGain, ImageFields, ZapAssumption
  <2>2. OwnDust(s)' = IF call.feeOwner = Signer THEN dust'[s] ELSE 0
    BY DEF OwnDust
  <2> QED
    BY <2>1, <2>2
<1>4. OthersKept'
  <2>1. sol = saved.sol
    BY DEF ZapInv, FlowInv, Untouched
  <2>2. \A w \in Wallets \ {Signer}, s \in Sides : tok[w][s] = saved.tok[w][s]
    <3>1. \A s \in Sides : dust[s] = 0
      BY BackFacts, ZeroType
    <3>2. \A w \in Wallets, s \in Sides : saved.tok[w][s] \in Nat
      BY BackFacts DEF BalanceType
    <3> QED
      BY <3>1, <3>2 DEF ZapInv, FlowInv, OthersKept
  <2> QED
    BY <2>1, <2>2 DEF OthersKept
<1>5. Checked' /\ Untouched'
  BY DEF ZapInv, FlowInv, Checked, Untouched
<1>6. SoldBack'
  <2> SUFFICES ASSUME NEW s \in Sides
               PROVE  call.amountIn[s] + Overdrawn(s)' <= saved.tok[Signer][s]
    BY DEF SoldBack
  <2>1. /\ saved.tok[Signer][s] \in Nat /\ call.amountIn[s] \in Nat
        /\ call.amountIn[s] <= saved.tok[Signer][s]
    BY BackFacts DEF ZapInv, FlowInv, Checked
  <2>2. /\ returned'[s] \in Nat /\ unsold'[s] \in Int /\ dust'[s] \in Nat
        /\ tok'[Signer][s] \in Nat
    BY ZapAssumption DEF BalanceType
  <2>3. CASE unsold'[s] < 0
    <3>1. returned'[s] = 0 /\ ~(dust'[s] > 0)
      BY <2>2, <2>3
    <3>2. tok'[Signer][s] - saved.tok[Signer][s] = unsold'[s] - call.amountIn[s]
      BY <2>1, <2>2, <3>1
    <3>3. Overdrawn(s)' = -unsold'[s]
      BY <2>3 DEF Overdrawn
    <3> QED
      BY <2>1, <2>2, <3>2, <3>3
  <2>4. CASE ~(unsold'[s] < 0)
    BY <2>1, <2>4 DEF Overdrawn
  <2> QED
    BY <2>3, <2>4
<1> QED
  BY <1>1, <1>2, <1>3, <1>4, <1>5, <1>6
  DEF ZapInv, FlowInv, AtSwap, AtCpi, AtBack, EventReturns, NotYet

LEMMA NothingWorthless ==
  ASSUME dust' = Zero
  PROVE  DustWorthless'
  BY ZeroType DEF DustWorthless

\* What is left fits a u64 with what a swap adds to it.
LEMMA ReturnsType ==
  ASSUME ZapInv, pc = "back", NEW out \in Nat, NEW kept \in Nat,
         call.returnMint \in Sides => tok[Signer][call.returnMint] + out <= U64_MAX
  PROVE  /\ Returns(out, kept) \in [Sides -> Nat]
         /\ \A s \in Sides :
              Returns(out, kept)[s] = IF s = call.returnMint THEN Leftover[s] + out ELSE kept
<1>1. \A s \in Sides : s = call.returnMint => AddOrZero(Leftover[s], out) = Leftover[s] + out
  <2> SUFFICES ASSUME NEW s \in Sides, s = call.returnMint
               PROVE  ~(Leftover[s] + out > U64_MAX)
    BY DEF AddOrZero
  <2>1. Leftover[s] <= tok[Signer][s] /\ tok[Signer][s] \in Nat /\ Leftover[s] \in Nat
    BY BackFacts
  <2> QED
    BY <2>1, ScaleAssumption
<1> QED
  BY <1>1, BackFacts DEF Returns

LEMMA ReturnAsIsInv ==
  ASSUME ZapInv, ReturnAsIs
  PROVE  ZapInv'
<1>1. /\ pc = "back" /\ pc' = "unwrap" /\ ~SellsBack
      /\ returned' = IF call.returnMint = NoSide THEN Leftover ELSE Returns(0, 0)
      /\ UNCHANGED <<tok, sol, acct, native, price, saved, call, exec, maxAmt, preCpi,
                     liquidity, added, principal, event, calls, dust, unsold>>
  BY DEF ReturnAsIs, ledger, plan, deposit
<1>2. /\ tok \in BalanceType /\ dust = Zero /\ unsold = Zero /\ Leftover \in [Sides -> Nat]
      /\ \A s \in Sides :
              /\ tok[Signer][s] \in Nat /\ saved.tok[Signer][s] \in Nat
              /\ call.amountIn[s] \in Nat /\ tok[Signer][s] <= U64_MAX
              /\ tok[Signer][s] = saved.tok[Signer][s] + Leftover[s] - call.amountIn[s]
  BY <1>1, BackFacts
<1>3. returned' \in [Sides -> Nat] /\ \A s \in Sides : returned'[s] = Leftover[s]
  <2>1. CASE call.returnMint = NoSide
    BY <1>1, <1>2, <2>1
  <2>2. CASE call.returnMint \in Sides
    <3>1. call.returnMint # NoSide /\ Leftover[Unwanted] = 0
      BY <1>1, <1>2, <2>2 DEF NoSide, Sides, SellsBack, Unwanted, Other
    <3>2. \A s \in Sides : s = call.returnMint \/ s = Unwanted
      BY <2>2 DEF Sides, Unwanted, Other
    <3>3. Returns(0, 0) \in [Sides -> Nat]
          /\ \A s \in Sides : Returns(0, 0)[s] = IF s = call.returnMint THEN Leftover[s] ELSE 0
      BY <1>1, <1>2, <2>2, ReturnsType
    <3> QED
      BY <1>1, <1>2, <3>1, <3>2, <3>3
  <2> QED
    BY <1>1, <2>1, <2>2, CallFacts DEF Sides
<1>4. price' \in Nat /\ DustWorthless'
  BY <1>1, <1>2, ImageFields, NothingWorthless
<1>5. \A w \in Wallets \ {Signer}, s \in Sides :
        tok'[w][s] = tok[w][s] + (IF w = call.feeOwner THEN dust'[s] ELSE 0)
  BY <1>1, <1>2, ZeroType DEF BalanceType
<1>6. \A s \in Sides :
           /\ tok'[Signer][s] <= U64_MAX
           /\ tok'[Signer][s] - saved.tok[Signer][s] =
                returned'[s] + unsold'[s] + (IF call.feeOwner = Signer THEN dust'[s] ELSE 0)
                  - call.amountIn[s]
           /\ dust'[s] > 0 => returned'[s] = 0 /\ unsold'[s] = 0
           /\ unsold'[s] # 0 =>
                returned'[s] = 0 /\ unsold'[Other(s)] = 0 /\ call.returnMint = Other(s)
  BY <1>1, <1>2, <1>3, ZeroType
<1>7. dust' \in [Sides -> Nat] /\ unsold' \in [Sides -> Int]
  BY <1>1, <1>2, ZeroType
<1> QED
  BY <1>1, <1>2, <1>3, <1>4, <1>5, <1>6, <1>7, ReturnedInv

\* The two sides when leftovers are sold.
LEMMA SellFacts ==
  ASSUME ZapInv, pc = "back", SellsBack
  PROVE  /\ call.returnMint \in Sides /\ Unwanted \in Sides
         /\ Unwanted # call.returnMint /\ call.returnMint = Other(Unwanted)
         /\ \A s \in Sides : s = call.returnMint \/ s = Unwanted
  BY DEF SellsBack, Unwanted, Other, Sides

LEMMA SwapBackInv ==
  ASSUME ZapInv, NEW r \in SwapOuts, NEW x \in SwapExtras, NEW p \in SqrtPrices,
         SwapBack(r, x, p)
  PROVE  ZapInv'
<1> DEFINE taken == Leftover[Unwanted] + x
           i == Unwanted
           o == call.returnMint
           held == [tok[Signer] EXCEPT ![i] = @ - taken, ![o] = @ + r]
<1>1. /\ pc = "back" /\ pc' = "unwrap" /\ SellsBack /\ taken \in 0..tok[Signer][i]
      /\ CanReceive(o, r) /\ price' = p
      /\ tok' = [tok EXCEPT ![Signer][i] = @ - taken, ![Signer][o] = @ + r]
      /\ unsold' = [unsold EXCEPT ![i] = Leftover[i] - taken]
      /\ returned' = Returns(SatSub(tok'[Signer][o], tok[Signer][o]), 0)
      /\ UNCHANGED <<sol, acct, native, saved, call, exec, maxAmt, preCpi,
                     liquidity, added, principal, event, calls, dust>>
  BY DEF SwapBack, plan, deposit
<1>2. /\ tok \in BalanceType /\ Signer \in Wallets
      /\ dust = Zero /\ unsold = Zero /\ Leftover \in [Sides -> Nat]
      /\ \A s \in Sides :
              /\ tok[Signer][s] \in Nat /\ saved.tok[Signer][s] \in Nat
              /\ call.amountIn[s] \in Nat /\ tok[Signer][s] <= U64_MAX
              /\ tok[Signer][s] = saved.tok[Signer][s] + Leftover[s] - call.amountIn[s]
              /\ Leftover[s] <= tok[Signer][s]
  BY <1>1, BackFacts
<1>3. /\ o \in Sides /\ i \in Sides /\ i # o /\ \A s \in Sides : s = o \/ s = i
  BY <1>1, SellFacts
<1>4. r \in Nat /\ p \in Nat /\ x \in Int
  BY ZapAssumption
<1>5. taken \in Nat /\ taken <= tok[Signer][i] /\ tok[Signer][o] + r <= U64_MAX
  BY <1>1, <1>2, <1>3, <1>4 DEF CanReceive
<1> HIDE DEF taken, i, o
<1>6. /\ held \in [Sides -> Nat] /\ held[i] = tok[Signer][i] - taken
      /\ held[o] = tok[Signer][o] + r
  <2>1. tok[Signer] \in [Sides -> Nat]
    BY <1>2 DEF BalanceType
  <2> QED
    BY <1>2, <1>3, <1>4, <1>5, <2>1
<1> HIDE DEF held
<1>7. /\ tok' \in BalanceType /\ tok'[Signer] = held
      /\ \A w \in Wallets \ {Signer} : tok'[w] = tok[w]
  <2>1. tok' = [tok EXCEPT ![Signer] = held]
    BY <1>1, <1>2, <1>3 DEF held, BalanceType
  <2> QED
    BY <1>2, <1>6, <2>1 DEF BalanceType
<1>8. SatSub(tok'[Signer][o], tok[Signer][o]) = r
  BY <1>2, <1>3, <1>4, <1>6, <1>7 DEF SatSub
<1>9. /\ returned' \in [Sides -> Nat]
      /\ returned'[o] = Leftover[o] + r /\ returned'[i] = 0
  <2>1. returned' = Returns(r, 0)
    BY <1>1, <1>8
  <2>2. o = call.returnMint
    BY DEF o
  <2>3. /\ Returns(r, 0) \in [Sides -> Nat]
        /\ \A s \in Sides :
             Returns(r, 0)[s] = IF s = call.returnMint THEN Leftover[s] + r ELSE 0
    BY <1>1, <1>4, <1>5, <2>2, ReturnsType
  <2> QED
    BY <1>3, <2>1, <2>2, <2>3
<1>10. /\ unsold' \in [Sides -> Int] /\ unsold'[i] = Leftover[i] - taken /\ unsold'[o] = 0
  <2>1. Leftover[i] - taken \in Int
    BY <1>2, <1>3, <1>5
  <2> QED
    BY <1>1, <1>2, <1>3, <2>1, ZeroType
<1>11. \A s \in Sides :
           /\ tok'[Signer][s] <= U64_MAX
           /\ tok'[Signer][s] - saved.tok[Signer][s] =
                returned'[s] + unsold'[s] + (IF call.feeOwner = Signer THEN dust'[s] ELSE 0)
                  - call.amountIn[s]
           /\ dust'[s] > 0 => returned'[s] = 0 /\ unsold'[s] = 0
           /\ unsold'[s] # 0 =>
                returned'[s] = 0 /\ unsold'[Other(s)] = 0 /\ call.returnMint = Other(s)
  <2> TAKE s \in Sides
  <2>1. /\ tok[Signer][s] \in Nat /\ saved.tok[Signer][s] \in Nat /\ call.amountIn[s] \in Nat
        /\ tok[Signer][s] <= U64_MAX /\ Leftover[s] \in Nat
        /\ tok[Signer][s] = saved.tok[Signer][s] + Leftover[s] - call.amountIn[s]
    BY <1>2
  <2>4. dust'[s] = 0
    BY <1>1, <1>2, ZeroType
  <2>2. CASE s = o
    <3>1. tok'[Signer][s] = tok[Signer][s] + r /\ returned'[s] = Leftover[s] + r
          /\ unsold'[s] = 0 /\ tok[Signer][s] + r <= U64_MAX
      BY <1>5, <1>6, <1>7, <1>9, <1>10, <2>2
    <3> QED
      BY <1>4, <2>1, <2>4, <3>1
  <2>3. CASE s = i
    <3>1. tok'[Signer][s] = tok[Signer][s] - taken /\ returned'[s] = 0
          /\ unsold'[s] = Leftover[s] - taken
      BY <1>5, <1>6, <1>7, <1>9, <1>10, <2>3
    <3>2. /\ tok'[Signer][s] <= U64_MAX
          /\ tok'[Signer][s] - saved.tok[Signer][s] =
               returned'[s] + unsold'[s] + (IF call.feeOwner = Signer THEN dust'[s] ELSE 0)
                 - call.amountIn[s]
      BY <1>5, <2>1, <2>4, <3>1, ScaleAssumption
    <3>3. Other(s) = o /\ call.returnMint = o
      BY <1>1, <2>3, SellFacts DEF Other, i, o, Sides
    <3> QED
      BY <1>10, <2>4, <3>1, <3>2, <3>3
  <2> QED
    BY <1>3, <2>2, <2>3
<1>12. \A w \in Wallets \ {Signer}, s \in Sides :
        tok'[w][s] = tok[w][s] + (IF w = call.feeOwner THEN dust'[s] ELSE 0)
  BY <1>1, <1>2, <1>7, ZeroType DEF BalanceType
<1>13. DustWorthless' /\ dust' \in [Sides -> Nat]
  BY <1>1, <1>2, NothingWorthless, ZeroType
<1> QED
  BY <1>1, <1>4, <1>7, <1>9, <1>10, <1>11, <1>12, <1>13, ReturnedInv

LEMMA DustToFeeInv ==
  ASSUME ZapInv, DustToFee
  PROVE  ZapInv'
<1> DEFINE i == Unwanted
           o == call.returnMint
           n == Leftover[Unwanted]
           f == call.feeOwner
<1>1. /\ pc = "back" /\ pc' = "unwrap" /\ SellsBack /\ BackError = "none" /\ BackMinOut = 0
      /\ i # native
      /\ tok' = MoveToken(tok, Signer, f, i, n)
      /\ dust' = [dust EXCEPT ![i] = n]
      /\ returned' = Returns(0, 0)
      /\ UNCHANGED <<sol, acct, native, price, saved, call, exec, maxAmt, preCpi,
                     liquidity, added, principal, event, calls, unsold>>
  BY DEF DustToFee, plan, deposit
<1>2. /\ tok \in BalanceType /\ Signer \in Wallets
      /\ dust = Zero /\ unsold = Zero /\ Leftover \in [Sides -> Nat]
      /\ \A s \in Sides :
              /\ tok[Signer][s] \in Nat /\ saved.tok[Signer][s] \in Nat
              /\ call.amountIn[s] \in Nat /\ tok[Signer][s] <= U64_MAX
              /\ tok[Signer][s] = saved.tok[Signer][s] + Leftover[s] - call.amountIn[s]
              /\ Leftover[s] <= tok[Signer][s]
  BY <1>1, BackFacts
<1>3. /\ o \in Sides /\ i \in Sides /\ i # o /\ o = Other(i) /\ \A s \in Sides : s = o \/ s = i
  BY <1>1, SellFacts
<1>4. f \in Wallets /\ n \in Nat
  BY <1>1, <1>2, <1>3, CallFacts
<1>5. /\ dust' \in [Sides -> Nat] /\ dust'[i] = n /\ dust'[o] = 0
      /\ unsold' = Zero
  BY <1>1, <1>2, <1>3, <1>4, ZeroType
<1>6. DustWorthless'
  <2>1. HardlyWorth(n, i)
    <3>1. price \in Nat /\ call.slippage \in 0..BPS
      BY <1>1, ImageFields, CallFacts
    <3> QED
      BY <1>1, <1>3, <1>4, <3>1, DustValue DEF BackError, BackMinOut
  <2>2. \A s \in Sides : dust'[s] > 0 => s = i
    BY <1>3, <1>5
  <2> HIDE DEF i, n, o
  <2>3. i # native' /\ call'.returnMint = Other(i)
    BY <1>1, <1>3 DEF o
  <2>4. ASSUME NEW s \in Sides, s = i
        PROVE  HardlyWorth(dust[s], s)'
    BY <1>1, <1>5, <2>1, <2>4 DEF HardlyWorth
  <2> QED
    BY <2>2, <2>3, <2>4 DEF DustWorthless
<1>7. /\ returned' \in [Sides -> Nat] /\ returned'[o] = Leftover[o] /\ returned'[i] = 0
  BY <1>1, <1>2, <1>3, ReturnsType
<1> HIDE DEF i, o, n
<1>8. /\ tok' \in BalanceType
      /\ tok'[Signer][o] = tok[Signer][o]
      /\ tok'[Signer][i] = IF f = Signer THEN tok[Signer][i] ELSE tok[Signer][i] - n
      /\ \A w \in Wallets \ {Signer}, s \in Sides :
           tok'[w][s] = tok[w][s] + (IF w = call.feeOwner THEN dust'[s] ELSE 0)
  <2>1. \A w \in Wallets : tok[w] \in [Sides -> Nat]
    BY <1>2 DEF BalanceType
  <2>2. n <= tok[Signer][i]
    BY <1>2, <1>3 DEF n, i
  <2>3. CASE f = Signer
    BY <1>1, <1>2, <2>1, <2>3 DEF MoveToken
  <2>4. CASE f # Signer
    <3>1. tok' = [tok EXCEPT ![Signer] = [tok[Signer] EXCEPT ![i] = @ - n],
                             ![f] = [tok[f] EXCEPT ![i] = @ + n]]
      BY <1>1, <1>2, <1>4, <2>4 DEF MoveToken, BalanceType
    <3>2. [tok[Signer] EXCEPT ![i] = @ - n] \in [Sides -> Nat]
      <4>1. tok[Signer][i] \in Nat /\ tok[Signer][i] - n \in Nat
        BY <1>2, <1>3, <1>4, <2>2
      <4> QED
        BY <1>2, <2>1, <4>1
    <3>3. [tok[f] EXCEPT ![i] = @ + n] \in [Sides -> Nat]
      <4>1. tok[f][i] + n \in Nat
        BY <1>3, <1>4, <2>1
      <4> QED
        BY <1>4, <2>1, <4>1
    <3>4. tok' \in BalanceType
      BY <1>2, <1>4, <3>1, <3>2, <3>3 DEF BalanceType
    <3>5. tok'[Signer] = [tok[Signer] EXCEPT ![i] = @ - n]
          /\ tok'[f] = [tok[f] EXCEPT ![i] = @ + n]
          /\ \A w \in Wallets \ {Signer, f} : tok'[w] = tok[w]
      BY <1>2, <1>4, <2>4, <3>1 DEF BalanceType
    <3>6. \A w \in Wallets \ {Signer}, s \in Sides :
           tok'[w][s] = tok[w][s] + (IF w = call.feeOwner THEN dust'[s] ELSE 0)
      <4> TAKE w \in Wallets \ {Signer}, s \in Sides
      <4>1. tok[w][s] \in Nat
        BY <2>1
      <4>2. CASE w # f
        BY <3>5, <4>1, <4>2
      <4>3. CASE w = f /\ s = i
        BY <1>3, <1>4, <1>5, <2>1, <3>5, <4>1, <4>3
      <4>4. CASE w = f /\ s # i
        <5>1. s = o /\ dust'[s] = 0
          BY <1>3, <1>5, <4>4
        <5> QED
          BY <1>3, <1>4, <2>1, <3>5, <4>1, <4>4, <5>1
      <4> QED
        BY <4>2, <4>3, <4>4
    <3> QED
      BY <1>2, <1>3, <2>1, <2>4, <3>4, <3>5, <3>6
  <2> QED
    BY <2>3, <2>4
<1>9. \A s \in Sides :
           /\ tok'[Signer][s] <= U64_MAX
           /\ tok'[Signer][s] - saved.tok[Signer][s] =
                returned'[s] + unsold'[s] + (IF call.feeOwner = Signer THEN dust'[s] ELSE 0)
                  - call.amountIn[s]
           /\ dust'[s] > 0 => returned'[s] = 0 /\ unsold'[s] = 0
           /\ unsold'[s] # 0 =>
                returned'[s] = 0 /\ unsold'[Other(s)] = 0 /\ call.returnMint = Other(s)
  <2> TAKE s \in Sides
  <2>1. /\ tok[Signer][s] \in Nat /\ saved.tok[Signer][s] \in Nat /\ call.amountIn[s] \in Nat
        /\ tok[Signer][s] <= U64_MAX /\ Leftover[s] \in Nat
        /\ tok[Signer][s] = saved.tok[Signer][s] + Leftover[s] - call.amountIn[s]
    BY <1>2
  <2>2. unsold'[s] = 0
    BY <1>5, ZeroType
  <2>3. CASE s = o
    <3>1. tok'[Signer][s] = tok[Signer][s] /\ returned'[s] = Leftover[s]
      BY <1>7, <1>8, <2>3
    <3>2. dust'[s] = 0
      BY <1>5, <2>3
    <3> QED
      BY <2>1, <2>2, <3>1, <3>2
  <2>4. CASE s = i
    <3>1. /\ tok'[Signer][s] = IF f = Signer THEN tok[Signer][s] ELSE tok[Signer][s] - n
          /\ returned'[s] = 0 /\ n = Leftover[s]
      BY <1>7, <1>8, <2>4 DEF n, i
    <3>2. dust'[s] = Leftover[s]
      BY <1>5, <2>4, <3>1
    <3>3. CASE f = Signer
      BY <2>1, <2>2, <3>1, <3>2, <3>3, ScaleAssumption
    <3>4. CASE f # Signer
      BY <2>1, <2>2, <3>1, <3>2, <3>4, ScaleAssumption
    <3> QED
      BY <3>3, <3>4
  <2> QED
    BY <1>3, <2>3, <2>4
<1>10. price' \in Nat /\ unsold' \in [Sides -> Int]
  BY <1>1, <1>5, ImageFields, ZeroType
<1> QED
  BY <1>1, <1>5, <1>6, <1>7, <1>8, <1>9, <1>10, ReturnedInv

LEMMA DustKeptInv ==
  ASSUME ZapInv, DustKept
  PROVE  ZapInv'
<1>1. /\ pc = "back" /\ pc' = "unwrap" /\ SellsBack
      /\ returned' = Returns(0, Leftover[Unwanted])
      /\ UNCHANGED <<tok, sol, acct, native, price, saved, call, exec, maxAmt, preCpi,
                     liquidity, added, principal, event, calls, dust, unsold>>
  BY DEF DustKept, ledger, plan, deposit
<1>2. /\ tok \in BalanceType /\ dust = Zero /\ unsold = Zero /\ Leftover \in [Sides -> Nat]
      /\ \A s \in Sides :
              /\ tok[Signer][s] \in Nat /\ saved.tok[Signer][s] \in Nat
              /\ call.amountIn[s] \in Nat /\ tok[Signer][s] <= U64_MAX
              /\ tok[Signer][s] = saved.tok[Signer][s] + Leftover[s] - call.amountIn[s]
  BY <1>1, BackFacts
<1>3. returned' \in [Sides -> Nat] /\ \A s \in Sides : returned'[s] = Leftover[s]
  <2>1. Leftover[Unwanted] \in Nat
    BY <1>1, <1>2, SellFacts
  <2>2. call.returnMint \in Sides => tok[Signer][call.returnMint] + 0 <= U64_MAX
    BY <1>2
  <2>3. Returns(0, Leftover[Unwanted]) \in [Sides -> Nat]
        /\ \A s \in Sides : Returns(0, Leftover[Unwanted])[s] =
             IF s = call.returnMint THEN Leftover[s] + 0 ELSE Leftover[Unwanted]
    BY <1>1, <2>1, <2>2, ReturnsType
  <2> QED
    BY <1>1, <1>2, <2>3, SellFacts
<1>4. price' \in Nat /\ DustWorthless'
  BY <1>1, <1>2, ImageFields, NothingWorthless
<1>5. \A w \in Wallets \ {Signer}, s \in Sides :
        tok'[w][s] = tok[w][s] + (IF w = call.feeOwner THEN dust'[s] ELSE 0)
  BY <1>1, <1>2, ZeroType DEF BalanceType
<1>6. \A s \in Sides :
           /\ tok'[Signer][s] <= U64_MAX
           /\ tok'[Signer][s] - saved.tok[Signer][s] =
                returned'[s] + unsold'[s] + (IF call.feeOwner = Signer THEN dust'[s] ELSE 0)
                  - call.amountIn[s]
           /\ dust'[s] > 0 => returned'[s] = 0 /\ unsold'[s] = 0
           /\ unsold'[s] # 0 =>
                returned'[s] = 0 /\ unsold'[Other(s)] = 0 /\ call.returnMint = Other(s)
  BY <1>1, <1>2, <1>3, ZeroType
<1>7. dust' \in [Sides -> Nat] /\ unsold' \in [Sides -> Int]
  BY <1>1, <1>2, ZeroType
<1> QED
  BY <1>1, <1>2, <1>3, <1>4, <1>5, <1>6, <1>7, ReturnedInv

\* Closing the wSOL account turns its tokens and its rent into lamports.
LEMMA CloseFacts ==
  ASSUME ZapInv, pc = "unwrap", native \in Sides,
         sol' = CloseLamports(tok, sol, Signer, native, Rent),
         tok' = CloseTokens(tok, Signer, native), acct' = CloseAccount(acct, native),
         UNCHANGED <<native, saved>>
  PROVE  /\ tok' \in BalanceType /\ sol' \in [Wallets -> Nat]
         /\ acct' \in [Sides -> TransitType]
         /\ \A s \in Sides : Gain(Signer, s)' = Gain(Signer, s) /\ tok'[Signer][s] <= U64_MAX
         /\ \A w \in Wallets \ {Signer} : tok'[w] = tok[w] /\ sol'[w] = sol[w]
<1>1. /\ tok \in BalanceType /\ sol \in [Wallets -> Nat] /\ acct \in [Sides -> TransitType]
      /\ Signer \in Wallets /\ Rent \in Nat /\ U64_MAX \in Nat
  BY ImageFields, ZapAssumption, ScaleAssumption
<1>2. tok[Signer] \in [Sides -> Nat] /\ sol[Signer] \in Nat
  BY <1>1 DEF BalanceType
<1>3. /\ tok' \in BalanceType /\ tok'[Signer] = [tok[Signer] EXCEPT ![native] = 0]
      /\ \A w \in Wallets \ {Signer} : tok'[w] = tok[w]
  <2>1. tok' = [tok EXCEPT ![Signer] = [tok[Signer] EXCEPT ![native] = 0]]
    BY DEF CloseTokens
  <2>2. [tok[Signer] EXCEPT ![native] = 0] \in [Sides -> Nat]
    BY <1>2
  <2> QED
    BY <1>1, <2>1, <2>2 DEF BalanceType
<1>4. /\ sol' \in [Wallets -> Nat] /\ sol'[Signer] = sol[Signer] + tok[Signer][native] + Rent
      /\ \A w \in Wallets \ {Signer} : sol'[w] = sol[w]
  <2>1. sol[Signer] + tok[Signer][native] + Rent \in Nat
    BY <1>1, <1>2
  <2>2. sol' = [sol EXCEPT ![Signer] = sol[Signer] + tok[Signer][native] + Rent]
    BY DEF CloseLamports
  <2> QED
    BY <1>1, <2>1, <2>2
<1>5. /\ acct' \in [Sides -> TransitType] /\ acct'[native].live = FALSE
      /\ \A s \in Sides : s # native => acct'[s] = acct[s]
  BY <1>1 DEF CloseAccount, TransitType
<1>6. acct[native].live
  BY DEF ZapInv, FlowInv, Checked, Untouched
<1>7. \A s \in Sides : Gain(Signer, s)' = Gain(Signer, s)
  <2> SUFFICES ASSUME NEW s \in Sides
               PROVE  Holding(tok', sol', acct', Signer, s) = Holding(tok, sol, acct, Signer, s)
    BY DEF Gain, Holding
  <2>1. CASE s = native
    <3>1. Holding(tok, sol, acct, Signer, s) = tok[Signer][s] + (sol[Signer] + Rent)
      BY <1>6, <2>1 DEF Holding, HoldingOf
    <3>2. Holding(tok', sol', acct', Signer, s) = 0 + (sol'[Signer] + 0)
      BY <1>2, <1>3, <1>5, <2>1 DEF Holding, HoldingOf
    <3> QED
      BY <1>1, <1>2, <1>4, <2>1, <3>1, <3>2
  <2>2. CASE s # native
    BY <1>2, <1>3, <2>2 DEF Holding, HoldingOf
  <2> QED
    BY <2>1, <2>2
<1>8. \A s \in Sides : tok'[Signer][s] <= U64_MAX
  BY <1>1, <1>2, <1>3 DEF ZapInv, Bounded
<1> QED
  BY <1>3, <1>4, <1>5, <1>7, <1>8

LEMMA EmitAndUnwrapInv ==
  ASSUME ZapInv, EmitAndUnwrap
  PROVE  ZapInv'
<1>1. CASE native \in Sides /\ CloseRefused(acct[native])
  BY <1>1, AbortInv DEF EmitAndUnwrap
<1>2. CASE ~(native \in Sides /\ CloseRefused(acct[native]))
  <2>1. /\ pc = "unwrap" /\ pc' = "exit"
        /\ event' = [liquidity |-> liquidity, principal |-> principal, returned |-> returned]
        /\ UNCHANGED <<native, price, saved, call, exec, maxAmt, preCpi, liquidity, added,
                       principal, returned, dust, unsold, calls>>
    BY <1>2 DEF EmitAndUnwrap, plan, deposit
  <2>2. /\ tok' \in BalanceType /\ sol' \in [Wallets -> Nat]
        /\ acct' \in [Sides -> TransitType]
        /\ \A s \in Sides : Gain(Signer, s)' = Gain(Signer, s) /\ tok'[Signer][s] <= U64_MAX
        /\ \A w \in Wallets \ {Signer} : tok'[w] = tok[w] /\ sol'[w] = sol[w]
    <3>1. CASE native \in Sides
      BY <1>2, <2>1, <3>1, CloseFacts DEF EmitAndUnwrap
    <3>2. CASE native \notin Sides
      <4>1. UNCHANGED <<tok, sol, acct>>
        BY <1>2, <3>2 DEF EmitAndUnwrap, ledger
      <4> QED
        BY <2>1, <4>1, ImageFields DEF ZapInv, Bounded, Gain, Holding
    <3> QED
      BY <3>1, <3>2
  <2>3. TypeOK'
    BY <2>1, <2>2 DEF ZapInv, TypeOK, Image, ImageType, Steps
  <2>4. Bounded'
    BY <2>1, <2>2 DEF ZapInv, Bounded
  <2>5. Accounted'
    <3>1. \A s \in Sides :
            /\ Gain(Signer, s) = returned[s] + unsold[s] + OwnDust(s) - call.amountIn[s]
            /\ dust[s] > 0 => returned[s] = 0 /\ unsold[s] = 0
      BY <2>1 DEF ZapInv, FlowInv, Accounted
    <3> QED
      BY <2>1, <2>2, <3>1 DEF Accounted, OwnDust
  <2>6. OthersKept'
    BY <2>1, <2>2 DEF ZapInv, FlowInv, OthersKept
  <2>7. DustWorthless'
    BY <2>1 DEF ZapInv, FlowInv, DustWorthless, HardlyWorth
  <2>8. Checked' /\ SoldBack' /\ EventReturns'
    BY <2>1 DEF ZapInv, FlowInv, Checked, SoldBack, Overdrawn, EventReturns
  <2> QED
    BY <2>1, <2>3, <2>4, <2>5, <2>6, <2>7, <2>8
    DEF ZapInv, FlowInv, Untouched, AtSwap, AtCpi, AtBack, NotYet
<1> QED
  BY <1>1, <1>2

LEMMA CommitInv ==
  ASSUME ZapInv, Commit
  PROVE  ZapInv'
<1>1. /\ pc = "exit" /\ pc' = "done"
      /\ UNCHANGED <<tok, sol, acct, native, price, saved, call, exec, maxAmt, preCpi,
                     liquidity, added, principal, returned, dust, unsold, event, calls>>
  BY DEF Commit, ledger, locals, plan, deposit
<1>2. TypeOK' /\ Bounded'
  BY <1>1 DEF ZapInv, TypeOK, Bounded, Image, ImageType, Steps
<1>3. Accounted'
  <2>1. \A s \in Sides : Gain(Signer, s)' = Gain(Signer, s)
    BY <1>1 DEF Gain, Holding
  <2> QED
    BY <1>1, <2>1 DEF ZapInv, FlowInv, Accounted, OwnDust
<1>4. OthersKept' /\ DustWorthless'
  BY <1>1 DEF ZapInv, FlowInv, OthersKept, DustWorthless, HardlyWorth
<1>5. Checked' /\ SoldBack' /\ EventReturns'
  BY <1>1 DEF ZapInv, FlowInv, Checked, SoldBack, Overdrawn, EventReturns
<1> QED
  BY <1>1, <1>2, <1>3, <1>4, <1>5
  DEF ZapInv, FlowInv, Untouched, AtSwap, AtCpi, AtBack, NotYet

LEMMA ReturnInv ==
  ASSUME ZapInv, Return
  PROVE  ZapInv'
<1>1. TypeOK' /\ Bounded'
  BY ZeroType DEF ZapInv, TypeOK, Bounded, Return, EmptyLocals, Image, ImageType, NoSwap, NoEvent,
     Steps, Sides, ledger
<1> QED
  BY <1>1, IdleFlow DEF ZapInv, Return, EmptyLocals

LEMMA StutterInv ==
  ASSUME ZapInv, UNCHANGED vars
  PROVE  ZapInv'
<1>1. UNCHANGED <<tok, sol, acct, native, price, saved, pc, call, exec, maxAmt, preCpi,
                  liquidity, added, principal, returned, dust, unsold, event, status, calls>>
  BY DEF vars, ledger, locals, plan, deposit
<1>2. TypeOK' /\ Bounded'
  BY <1>1 DEF ZapInv, TypeOK, Bounded, Image, ImageType
<1>3. Accounted'
  <2>1. \A s \in Sides : Gain(Signer, s)' = Gain(Signer, s)
    BY <1>1 DEF Gain, Holding
  <2> QED
    BY <1>1, <2>1 DEF ZapInv, FlowInv, Accounted, OwnDust
<1>4. OthersKept' /\ DustWorthless'
  BY <1>1 DEF ZapInv, FlowInv, OthersKept, DustWorthless, HardlyWorth
<1>5. /\ Checked' /\ Untouched' /\ AtSwap' /\ AtCpi' /\ AtBack' /\ SoldBack'
      /\ EventReturns' /\ NotYet'
  BY <1>1 DEF ZapInv, FlowInv, Checked, Untouched, AtSwap, AtCpi, AtBack, Change, SoldBack,
     Overdrawn, EventReturns, NotYet
<1> QED
  BY <1>2, <1>3, <1>4, <1>5 DEF ZapInv, FlowInv

LEMMA HandlerInv ==
  ASSUME ZapInv, Handler
  PROVE  ZapInv'
<1>1. CASE \E r \in SwapOuts, x \in SwapExtras, p \in SqrtPrices :
             Swap(r, x, p) \/ SwapBack(r, x, p)
  BY <1>1, SwapInv, SwapBackInv
<1>2. CASE SwapFails \/ DepositFails \/ SwapBackFails
  BY <1>2, AbortInv, RefuseInv DEF SwapFails, DepositFails, SwapBackFails
<1>3. CASE \E fee \in TokenFees : DepositCpi(fee)
  BY <1>3, DepositCpiInv
<1>4. CASE BackQuoteFails \/ ExitFails
  BY <1>4, AbortInv, RefuseInv DEF BackQuoteFails, ExitFails
<1>5. CASE ReturnAsIs \/ DustToFee \/ DustKept
  BY <1>5, ReturnAsIsInv, DustToFeeInv, DustKeptInv
<1>6. CASE EmitAndUnwrap \/ Commit \/ Return
  BY <1>6, EmitAndUnwrapInv, CommitInv, ReturnInv
<1> QED
  BY <1>1, <1>2, <1>3, <1>4, <1>5, <1>6 DEF Handler

LEMMA NextZapInv == ZapInv /\ [Next]_vars => ZapInv'
<1> SUFFICES ASSUME ZapInv, [Next]_vars PROVE ZapInv'
  OBVIOUS
<1>1. CASE \E c \in Calls : Reject(c) \/ Begin(c)
  BY <1>1, RejectInv, BeginInv
<1>2. CASE Handler
  BY <1>2, HandlerInv
<1>3. CASE Environment
  BY <1>3, EnvironmentInv
<1>4. CASE UNCHANGED vars
  BY <1>4, StutterInv
<1> QED
  BY <1>1, <1>2, <1>3, <1>4 DEF Next

LEMMA ZapInvariance == Spec => []ZapInv
  BY InitZapInv, NextZapInv, PTL DEF Spec

(***************************************************************************)
(* The theorems.                                                           *)
(***************************************************************************)
\* Balances, budgets and leftovers of the deposits are natural numbers in every
\* reachable state: no subtraction of zap_common.rs goes below 0.
THEOREM ZapTypeCorrect == Spec => []TypeOK
<1>1. ZapInv => TypeOK
  BY DEF ZapInv
<1> QED
  BY <1>1, ZapInvariance, PTL

\* The signer pays at most amount_in of either token, however the first swap, the deposit
\* and the closing of the wSOL account turn out.  What a swap back takes beyond the
\* leftover is the whole excess: a call without return_mint never has one, nor has the
\* wanted token, nor a token of which something is returned.
THEOREM BudgetIsRespected == Spec => []BudgetRespected
<1>1. ZapInv => BudgetRespected
  <2> SUFFICES ASSUME ZapInv, pc = "done", NEW s \in Sides
               PROVE  /\ Gain(Signer, s) >= -(call.amountIn[s] + Overdrawn(s))
                      /\ Gain(Signer, s) < -call.amountIn[s] =>
                           call.returnMint = Other(s) /\ event.returned[s] = 0
    BY DEF BudgetRespected
  <2>1. /\ Gain(Signer, s) = returned[s] + unsold[s] + OwnDust(s) - call.amountIn[s]
        /\ unsold[s] # 0 => returned[s] = 0 /\ call.returnMint = Other(s)
        /\ event.returned = returned
    BY DEF ZapInv, FlowInv, Accounted, SoldBack, EventReturns
  <2>2. returned[s] \in Nat /\ unsold[s] \in Int /\ dust[s] \in Nat /\ call.amountIn[s] \in Nat
    BY CallFacts DEF ZapInv, TypeOK
  <2>3. OwnDust(s) \in Nat
    BY <2>2 DEF OwnDust
  <2>4. CASE unsold[s] < 0
    <3>1. Overdrawn(s) = -unsold[s]
      BY <2>4 DEF Overdrawn
    <3> QED
      BY <2>1, <2>2, <2>3, <2>4, <3>1
  <2>5. CASE ~(unsold[s] < 0)
    <3>1. Overdrawn(s) = 0
      BY <2>5 DEF Overdrawn
    <3> QED
      BY <2>1, <2>2, <2>3, <2>5, <3>1
  <2> QED
    BY <2>4, <2>5
<1> QED
  BY <1>1, ZapInvariance, PTL

\* The returned amounts of the event account for every unit of the budget but what a swap
\* back left unsold or took beyond the leftover; no sum overflows to a reported 0.
THEOREM EventIsExact == Spec => []EventMatchesHoldings
<1>1. ZapInv => EventMatchesHoldings
  <2> SUFFICES ASSUME ZapInv, pc = "done", call.feeOwner # Signer, NEW s \in Sides
               PROVE  Gain(Signer, s) = event.returned[s] - call.amountIn[s] + unsold[s]
    BY DEF EventMatchesHoldings
  <2>1. /\ Gain(Signer, s) = returned[s] + unsold[s] + 0 - call.amountIn[s]
        /\ event.returned = returned
    BY DEF ZapInv, FlowInv, Accounted, EventReturns, OwnDust
  <2>2. returned[s] \in Nat /\ unsold[s] \in Int /\ call.amountIn[s] \in Nat
    BY CallFacts DEF ZapInv, TypeOK
  <2> QED
    BY <2>1, <2>2
<1> QED
  BY <1>1, ZapInvariance, PTL

\* Whatever reaches another wallet in a deposit is dust for the fee owner: what the pool
\* pays for it at its price, less its fee and the slippage, is within the dust floor and
\* two units of rounding.
THEOREM OnlyDustIsLost == Spec => []OnlyDustLeaves
<1>1. ZapInv => OnlyDustLeaves
  <2> SUFFICES ASSUME ZapInv, pc = "done", NEW w \in Wallets \ {Signer}, NEW s \in Sides,
                      Gain(w, s) # 0
               PROVE  /\ w = call.feeOwner
                      /\ s # native /\ call.returnMint = Other(s)
                      /\ HardlyWorth(Gain(w, s), s)
    BY DEF OnlyDustLeaves, HardlyWorth
  <2>1. /\ sol[w] = saved.sol[w]
        /\ tok[w][s] = saved.tok[w][s] + (IF w = call.feeOwner THEN dust[s] ELSE 0)
    BY DEF ZapInv, FlowInv, OthersKept
  <2>2. /\ tok[w][s] \in Nat /\ saved.tok[w][s] \in Nat /\ sol[w] \in Nat /\ dust[s] \in Nat
    BY ImageFields DEF BalanceType, ZapInv, TypeOK
  <2>3. Gain(w, s) = tok[w][s] - saved.tok[w][s]
    BY <2>1, <2>2 DEF Gain, Holding, HoldingOf
  <2>4. w = call.feeOwner /\ Gain(w, s) = dust[s] /\ dust[s] > 0
    BY <2>1, <2>2, <2>3
  <2> QED
    BY <2>4 DEF ZapInv, FlowInv, DustWorthless
<1> QED
  BY <1>1, ZapInvariance, PTL

\* Whatever the swap returned and wherever it left the price, the liquidity computed
\* from what is left of the budget costs no more than that.
THEOREM LiquidityFits == Spec => []ComputedLiquidityFits
<1>1. ZapInv => ComputedLiquidityFits
  <2> SUFFICES ASSUME ZapInv, pc = "cpi", NEW s \in Sides
               PROVE  Cost(price, call.lower, call.upper, ComputedLiquidity)[s] <= maxAmt[s]
    BY DEF ComputedLiquidityFits
  <2>1. /\ price \in Nat /\ call.lower \in Nat \ {0} /\ call.upper \in Nat
        /\ call.lower < call.upper /\ maxAmt \in [Sides -> Nat]
    BY ImageFields, CallFacts DEF ZapInv, TypeOK
  <2> QED
    BY <2>1, CostFits DEF ComputedLiquidity, Sides
<1> QED
  BY <1>1, ZapInvariance, PTL

(***************************************************************************)
(* The liquidity of the event.  It is decided at the deposit and only      *)
(* carried from there.                                                     *)
(***************************************************************************)
LiquidityAdded ==
  /\ pc \in {"back", "unwrap", "exit", "done"} =>
       (call.posLower = call.lower /\ call.posUpper = call.upper => liquidity = added)
  /\ pc \in {"exit", "done"} => event.liquidity = liquidity

\* Raydium refuses to add what the handler did not compute.
LEMMA DepositAdds ==
  ASSUME ZapInv, NEW fee \in TokenFees, DepositCpi(fee),
         call.posLower = call.lower, call.posUpper = call.upper
  PROVE  ComputedLiquidity = AddedLiquidity
<1> DEFINE cost == Cost(price, call.posLower, call.posUpper, AddedLiquidity)
           taken == [s \in Sides |-> IF cost[s] = 0 THEN 0 ELSE cost[s] + fee[s]]
<1>1. pc = "cpi" /\ AddedLiquidity > 0 /\ \A s \in Sides : taken[s] \in 0..maxAmt[s]
  BY DEF DepositCpi
<1>2. /\ price \in Nat /\ call.lower \in Nat \ {0} /\ call.upper \in Nat
      /\ call.lower < call.upper /\ maxAmt \in [Sides -> Nat]
  BY <1>1, ImageFields, CallFacts DEF ZapInv, TypeOK
<1> SUFFICES ASSUME ComputedLiquidity = 0
             PROVE  FALSE
  BY DEF AddedLiquidity
<1>3. BaseSide \in {0, 1} /\ BaseSide = (IF maxAmt[0] = 0 THEN 1 ELSE 0)
  BY DEF BaseSide
<1>4. AddedLiquidity = SingleLiquidity(price, call.lower, call.upper, BaseSide, maxAmt[BaseSide])
  BY DEF AddedLiquidity
<1>5. AddedLiquidity \in Nat \ {0}
  <2>1. SingleLiquidity(price, call.lower, call.upper, BaseSide, maxAmt[BaseSide]) \in Nat
    BY <1>2, <1>3, SingleType DEF Sides
  <2> QED
    BY <1>1, <1>4, <2>1
<1>6. PICK s \in Sides : cost[s] > maxAmt[s]
  <2>1. LiquidityFor(price, call.lower, call.upper, maxAmt) = 0
    BY DEF ComputedLiquidity
  <2> DEFINE l == AddedLiquidity
  <2>2. l \in Nat \ {0} /\
        l = SingleLiquidity(price, call.lower, call.upper, BaseSide, maxAmt[BaseSide])
    BY <1>4, <1>5
  <2> HIDE DEF l
  <2>3. \E s \in {0, 1} : Cost(price, call.lower, call.upper, l)[s] > maxAmt[s]
    BY <1>2, <1>3, <2>1, <2>2, BaseSideAlone DEF Sides
  <2> QED
    BY <2>3 DEF l, Sides
<1>7. maxAmt[s] \in Nat /\ fee[s] \in Nat
  BY <1>2, ZapAssumption DEF TokenFees
<1>8. taken[s] = IF cost[s] = 0 THEN 0 ELSE cost[s] + fee[s]
  OBVIOUS
<1>9. taken[s] \in Nat /\ taken[s] <= maxAmt[s]
  BY <1>1, <1>7
<1>10. cost[s] \in Int
  <2> DEFINE l == AddedLiquidity
  <2>1. l \in Nat /\ Q64 \in Nat \ {0}
    BY <1>5, ScaleAssumption
  <2> HIDE DEF l
  <2>2. \A lo, hi \in Nat \ {0} : lo < hi => Cost0(lo, hi, l) \in Nat /\ Cost1(lo, hi, l) \in Nat
    <3> TAKE lo, hi \in Nat \ {0}
    <3> HAVE lo < hi
    <3>1. l * Q64 * (hi - lo) \in Nat /\ l * (hi - lo) \in Nat
      <4>1. l * Q64 \in Nat /\ hi - lo \in Nat
        BY <2>1
      <4> QED
        BY <2>1, <4>1
    <3>2. CeilDiv(l * Q64 * (hi - lo), hi) \in Nat
      BY <3>1, CeilCovers
    <3> QED
      BY <2>1, <3>1, <3>2, CeilCovers DEF Cost0, Cost1
  <2>3. Cost(price, call.lower, call.upper, l)[s] \in Nat
    BY <1>2, <2>2 DEF Cost, Sides
  <2> QED
    BY <2>3 DEF l
<1> HIDE DEF cost, taken
<1> QED
  BY <1>6, <1>7, <1>8, <1>9, <1>10

LEMMA LiquidityAddedStep ==
  ASSUME ZapInv, LiquidityAdded, [Next]_vars
  PROVE  LiquidityAdded'
<1>1. ASSUME NEW fee \in TokenFees, DepositCpi(fee)
      PROVE  LiquidityAdded'
  <2>1. /\ pc' = "back" /\ liquidity' = ComputedLiquidity /\ added' = AddedLiquidity
        /\ call' = call
    BY <1>1 DEF DepositCpi
  <2> QED
    BY <1>1, <2>1, DepositAdds DEF LiquidityAdded
<1>2. CASE pc' = "back" /\ ~(\E fee \in TokenFees : DepositCpi(fee)) /\ [Next]_vars
  <2>1. UNCHANGED vars
    BY <1>2, ZenonT(40)
    DEF Next, Reject, Begin, Submit, Handler, Swap, SwapBack, SwapFails, DepositFails, ReturnAsIs,
        BackQuoteFails, SwapBackFails, DustToFee, DustKept, EmitAndUnwrap, ExitFails, Commit,
        Return, Abort, Refuse, Environment, ReopenNative, SetPermissions, PriceMoves, Between
  <2> QED
    BY <1>2, <2>1 DEF LiquidityAdded, vars, locals, deposit
<1>3. CASE pc' # "back"
  <2>1. CASE pc' = "unwrap"
    <3>1. /\ pc \in {"back", "unwrap"} /\ UNCHANGED <<call, liquidity, added>>
      BY <2>1, ZenonT(40)
      DEF Next, Reject, Begin, Submit, Handler, Swap, SwapBack, SwapFails, DepositCpi,
        DepositFails, ReturnAsIs, BackQuoteFails, SwapBackFails, DustToFee, DustKept,
        EmitAndUnwrap, ExitFails, Commit, Return, Abort, Refuse, Environment, ReopenNative,
        SetPermissions, PriceMoves, Between, vars, locals, deposit
    <3> QED
      BY <2>1, <3>1 DEF LiquidityAdded
  <2>2. CASE pc' = "exit"
    <3>1. \/ EmitAndUnwrap
          \/ UNCHANGED vars
      BY <2>2, ZenonT(40)
      DEF Next, Reject, Begin, Submit, Handler, Swap, SwapBack, SwapFails, DepositCpi,
        DepositFails, ReturnAsIs, BackQuoteFails, SwapBackFails, DustToFee, DustKept,
        ExitFails, Commit, Return, Abort, Refuse, Environment, ReopenNative,
        SetPermissions, PriceMoves, Between
    <3>2. CASE EmitAndUnwrap
      <4>1. /\ pc = "unwrap" /\ event'.liquidity = liquidity
            /\ UNCHANGED <<call, liquidity, added>>
        BY <2>2, <3>2 DEF EmitAndUnwrap, Abort, deposit
      <4> QED
        BY <2>2, <4>1 DEF LiquidityAdded
    <3>3. CASE UNCHANGED vars
      BY <2>2, <3>3 DEF LiquidityAdded, vars, locals, deposit
    <3> QED
      BY <3>1, <3>2, <3>3
  <2>3. CASE pc' = "done"
    <3>1. pc \in {"exit", "done"} /\ UNCHANGED <<call, liquidity, added, event>>
      BY <2>3, ZenonT(40)
      DEF Next, Reject, Begin, Submit, Handler, Swap, SwapBack, SwapFails, DepositCpi,
        DepositFails, ReturnAsIs, BackQuoteFails, SwapBackFails, DustToFee, DustKept,
        EmitAndUnwrap, ExitFails, Commit, Return, Abort, Refuse, Environment, ReopenNative,
        SetPermissions, PriceMoves, Between, vars, locals, deposit
    <3> QED
      BY <2>3, <3>1 DEF LiquidityAdded
  <2> QED
    BY <1>3, <2>1, <2>2, <2>3 DEF LiquidityAdded
<1> QED
  BY <1>1, <1>2, <1>3

\* The event reports the liquidity the position got, also where the handler computed
\* none and left the choice to Raydium.
THEOREM EventLiquidityIsAdded == Spec => []EventLiquidityAdded
<1>1. Init => LiquidityAdded
  BY DEF Init, LiquidityAdded
<1>2. LiquidityAdded => EventLiquidityAdded
  BY DEF LiquidityAdded, EventLiquidityAdded
<1> QED
  BY <1>1, <1>2, LiquidityAddedStep, ZapInvariance, PTL DEF Spec


(***************************************************************************)
(* Zap implements Deposit.                                                 *)
(***************************************************************************)
\* A closed account holds nothing, so opening it again changes no holding.
ClosedEmpty ==
  \A s \in Sides : /\ ~acct[s].live => tok[Signer][s] = 0
                   /\ ~saved.acct[s].live => saved.tok[Signer][s] = 0

FullInv == ZapInv /\ ClosedEmpty

\* A step of the handler commits, ends the call, stays inside it, or undoes it.
LEMMA HandlerSteps ==
  ASSUME Handler
  PROVE  \/ Commit
         \/ Return
         \/ /\ pc \notin {"idle", "done"} /\ pc' \notin {"idle", "done"}
            /\ UNCHANGED <<native, saved>>
         \/ /\ pc \notin {"idle", "done"} /\ pc' = "idle"
            /\ tok' = saved.tok /\ sol' = saved.sol /\ acct' = saved.acct
            /\ price' = saved.price /\ UNCHANGED <<native, saved>>
<1> USE DEF Abort, Refuse
<1>1. CASE \E r \in SwapOuts, x \in SwapExtras, p \in SqrtPrices :
             Swap(r, x, p) \/ SwapBack(r, x, p)
  BY <1>1 DEF Swap, SwapBack
<1>2. CASE SwapFails \/ DepositFails \/ SwapBackFails \/ BackQuoteFails \/ ExitFails
  BY <1>2 DEF SwapFails, DepositFails, SwapBackFails, BackQuoteFails, ExitFails
<1>3. CASE \E fee \in TokenFees : DepositCpi(fee)
  BY <1>3 DEF DepositCpi
<1>4. CASE ReturnAsIs \/ DustToFee \/ DustKept \/ EmitAndUnwrap
  BY <1>4 DEF ReturnAsIs, DustToFee, DustKept, EmitAndUnwrap
<1> QED
  BY <1>1, <1>2, <1>3, <1>4 DEF Handler

LEMMA EnvironmentClosed ==
  ASSUME FullInv, Environment
  PROVE  ClosedEmpty'
<1>1. /\ tok \in BalanceType /\ acct \in [Sides -> TransitType] /\ Signer \in Wallets
      /\ saved' = saved
  BY ImageFields, ZapAssumption
  DEF FullInv, Environment, ReopenNative, SetPermissions, PriceMoves
<1>2. ASSUME NEW isAta \in BOOLEAN, NEW n \in 0..OwnToken, ReopenNative(isAta, n)
      PROVE  ClosedEmpty'
  <2>1. /\ tok' = [tok EXCEPT ![Signer][native] = n]
        /\ acct' = [acct EXCEPT ![native] =
              [live |-> TRUE, ata |-> isAta, delegate |-> FALSE, closeAuth |-> FALSE]]
    BY <1>2 DEF ReopenNative
  <2>2. \A s \in Sides : ~acct'[s].live => s # native /\ tok'[Signer][s] = tok[Signer][s]
    BY <1>1, <2>1 DEF BalanceType
  <2> QED
    BY <1>1, <2>1, <2>2 DEF FullInv, ClosedEmpty
<1>3. ASSUME NEW z \in Sides, NEW perm \in Permissions, SetPermissions(z, perm)
      PROVE  ClosedEmpty'
  <2>1. tok' = tok /\ \A s \in Sides : acct'[s].live = acct[s].live
    BY <1>1, <1>3 DEF SetPermissions, TransitType
  <2> QED
    BY <1>1, <2>1 DEF FullInv, ClosedEmpty
<1>4. ASSUME NEW p \in SqrtPrices, PriceMoves(p)
      PROVE  ClosedEmpty'
  BY <1>1, <1>4 DEF PriceMoves, ledger, FullInv, ClosedEmpty
<1> QED
  BY <1>2, <1>3, <1>4 DEF Environment

LEMMA ClosedStep ==
  ASSUME FullInv, [Next]_vars
  PROVE  ClosedEmpty'
<1>1. ZapInv /\ ZapInv'
  BY NextZapInv DEF FullInv
<1>2. pc' # "idle" => \A s \in Sides : saved'.acct[s].live
  BY <1>1 DEF ZapInv, FlowInv, Checked
<1>3. CASE pc' \in {"swap", "cpi", "back", "unwrap"}
  <2>1. acct' = saved'.acct
    BY <1>1, <1>3 DEF ZapInv, FlowInv, Untouched
  <2> QED
    BY <1>2, <1>3, <2>1 DEF ClosedEmpty
<1>4. CASE EmitAndUnwrap /\ pc' = "exit"
  <2>1. /\ pc = "unwrap" /\ tok \in BalanceType /\ Signer \in Wallets
        /\ acct \in [Sides -> TransitType]
    BY <1>1, <1>4, ImageFields, ZapAssumption DEF EmitAndUnwrap
  <2>2. \A s \in Sides : acct[s].live
    BY <1>1, <2>1 DEF ZapInv, FlowInv, Untouched, Checked
  <2>3. CASE native \in Sides
    <3>1. tok' = CloseTokens(tok, Signer, native) /\ acct' = CloseAccount(acct, native)
      BY <1>4, <2>3 DEF EmitAndUnwrap, Abort
    <3>2. \A s \in Sides : ~acct'[s].live => s = native
      BY <2>1, <2>2, <3>1 DEF CloseAccount
    <3>3. tok'[Signer][native] = 0
      BY <2>1, <2>3, <3>1 DEF CloseTokens, BalanceType
    <3> QED
      BY <1>2, <1>4, <3>2, <3>3 DEF ClosedEmpty
  <2>4. CASE native \notin Sides
    <3>1. acct' = acct
      BY <1>4, <2>4 DEF EmitAndUnwrap, ledger, Abort
    <3> QED
      BY <1>2, <1>4, <2>2, <3>1 DEF ClosedEmpty
  <2> QED
    BY <2>3, <2>4
<1>5. CASE Commit \/ Return \/ UNCHANGED vars \/ \E c \in Calls : Reject(c)
  <2>1. /\ UNCHANGED <<tok, acct>>
        /\ saved' = saved \/ saved' = Image
    BY <1>5 DEF Commit, Return, Reject, Submit, ledger, vars
  <2> QED
    BY <2>1 DEF FullInv, ClosedEmpty, Image
<1>6. CASE Environment
  BY <1>6, EnvironmentClosed
<1>7. CASE pc \notin {"idle", "done"} /\ pc' = "idle" /\ Handler
  <2>1. tok' = saved.tok /\ acct' = saved.acct /\ saved' = saved
    BY <1>7, HandlerSteps DEF Commit, Return
  <2> QED
    BY <2>1 DEF FullInv, ClosedEmpty
<1>8. ASSUME NEW c \in Calls, Begin(c) PROVE pc' \in {"swap", "cpi"}
  BY <1>8 DEF Begin
<1>9. CASE Handler /\ pc' \notin {"swap", "cpi", "back", "unwrap", "idle"}
  <2>1. Commit \/ Return \/ (EmitAndUnwrap /\ pc' = "exit")
    BY <1>9, ZenonT(40)
    DEF Handler, Swap, SwapBack, SwapFails, DepositCpi, DepositFails, ReturnAsIs,
        BackQuoteFails, SwapBackFails, DustToFee, DustKept, EmitAndUnwrap, ExitFails, Abort,
        Refuse
  <2> QED
    BY <1>4, <1>5, <2>1
<1>10. CASE Handler /\ pc' = "idle"
  <2>1. Return \/ (pc \notin {"idle", "done"} /\ pc' = "idle")
    BY <1>10, HandlerSteps DEF Commit
  <2> QED
    BY <1>5, <1>7, <1>10, <2>1
<1> QED
  BY <1>3, <1>5, <1>6, <1>8, <1>9, <1>10 DEF Next

LEMMA FullInvariance == Spec => []FullInv
<1>1. Init => FullInv
  <2> SUFFICES ASSUME Init PROVE ClosedEmpty
    BY InitZapInv DEF FullInv
  <2>1. saved.acct = acct /\ \A s \in Sides : acct[s].live
    BY DEF Init, Image
  <2> QED
    BY <2>1 DEF ClosedEmpty
<1>2. FullInv /\ [Next]_vars => FullInv'
  BY NextZapInv, ClosedStep DEF FullInv
<1> QED
  BY <1>1, <1>2, PTL DEF Spec

LEMMA SameSides == Promise!Sides = Sides
  BY DEF Promise!Sides, Sides

LEMMA HoldingType ==
  ASSUME NEW t \in BalanceType, NEW b \in [Wallets -> Nat],
         NEW a \in [Sides -> TransitType], NEW w \in Wallets, NEW s \in Sides
  PROVE  /\ Holding(t, b, a, w, s) \in Int
         /\ Holding(t, b, a, w, s) >= t[w][s]
<1>1. t[w][s] \in Nat /\ b[w] \in Nat /\ Rent \in Nat
  BY ZapAssumption DEF BalanceType
<1> QED
  BY <1>1 DEF Holding, HoldingOf

LEMMA HeldType ==
  ASSUME ZapInv
  PROVE  Held \in [Wallets -> [Sides -> Int]]
<1>1. /\ Visible.tok \in BalanceType /\ Visible.sol \in [Wallets -> Nat]
      /\ Visible.acct \in [Sides -> TransitType]
  BY ImageFields DEF Visible, Image
<1>2. \A w \in Wallets, s \in Sides :
        Holding(Visible.tok, Visible.sol, Visible.acct, w, s) \in Int
  BY <1>1, HoldingType
<1> QED
  BY <1>2 DEF Held

\* Equal accounts are equal holdings.
LEMMA HeldKept ==
  ASSUME Visible' = Visible, UNCHANGED native
  PROVE  Held' = Held
  BY DEF Held, Holding, HoldingOf

LEMMA NotDone == pc # "done" <=> LastDeposit = Promise!Nothing
<1>1. Made.done = TRUE /\ Promise!Nothing.done = FALSE
  BY DEF Made, Promise!Nothing
<1> QED
  BY <1>1 DEF LastDeposit, Promise!Nothing

\* A step that begins, ends or stays outside of "done" with the same holdings is a stutter.
LEMMA Stutters ==
  ASSUME pc # "done", pc' # "done", Held' = Held
  PROVE  UNCHANGED Promise!dvars
  BY DEF Promise!dvars, LastDeposit

\* The deposit a call makes has the type, the cover and the rests that Deposit asks for.
LEMMA MadeFair ==
  ASSUME ZapInv, pc = "exit"
  PROVE  /\ Made \in Promise!DepositType
         /\ Promise!Affordable(Made) /\ Promise!OnlyRests(Made)
<1>1. /\ call.feeOwner \in Wallets /\ call.amountIn \in [Sides -> Nat]
      /\ event.returned \in [Sides -> Nat] /\ unsold \in [Sides -> Int]
      /\ dust \in [Sides -> Nat] /\ event.returned = returned
  BY CallFacts DEF ZapInv, TypeOK, FlowInv, EventReturns
<1>2. Made \in Promise!DepositType
  BY <1>1, SameSides DEF Made, Promise!DepositType
<1>3. ASSUME NEW s \in Sides
      PROVE  call.amountIn[s] + Promise!Overdrawn(Made, s) <= Held[Signer][s]
  <2>1. Held[Signer][s] = Holding(saved.tok, saved.sol, saved.acct, Signer, s)
    BY ZapAssumption DEF Held, Visible
  <2>2. /\ Held[Signer][s] >= saved.tok[Signer][s] /\ Held[Signer][s] \in Int
    BY <2>1, ImageFields, HoldingType, ZapAssumption
  <2>3. Promise!Overdrawn(Made, s) = Overdrawn(s)
    BY DEF Promise!Overdrawn, Overdrawn, Made
  <2>4. call.amountIn[s] + Overdrawn(s) <= saved.tok[Signer][s]
    BY DEF ZapInv, FlowInv, SoldBack
  <2>5. saved.tok[Signer][s] \in Nat /\ call.amountIn[s] \in Nat /\ Overdrawn(s) \in Int
    BY <1>1, ImageFields, ZapAssumption DEF BalanceType, Overdrawn
  <2> QED
    BY <2>2, <2>3, <2>4, <2>5
<1>4. ASSUME NEW s \in Sides, dust[s] > 0
      PROVE  returned[s] = 0 /\ unsold[s] = 0 /\ dust[1 - s] = 0
  <2>1. returned[s] = 0 /\ unsold[s] = 0
    BY <1>4 DEF ZapInv, FlowInv, Accounted
  <2>2. 1 - s \in Sides /\ Other(s) # Other(1 - s)
    BY DEF Sides, Other
  <2>3. ~(dust[1 - s] > 0)
    BY <1>4, <2>2 DEF ZapInv, FlowInv, DustWorthless
  <2>4. dust[1 - s] \in Nat
    BY <1>1, <2>2
  <2> QED
    BY <2>1, <2>3, <2>4
<1>5. ASSUME NEW s \in Sides, unsold[s] # 0
      PROVE  returned[s] = 0 /\ unsold[1 - s] = 0
  BY <1>5 DEF ZapInv, FlowInv, SoldBack, Other
<1>6. Promise!Affordable(Made)
  BY <1>3, SameSides DEF Made, Promise!Affordable
<1>7. Promise!OnlyRests(Made)
  BY <1>1, <1>4, <1>5, SameSides DEF Made, Promise!OnlyRests
<1> QED
  BY <1>2, <1>6, <1>7

LEMMA CommitMakes ==
  ASSUME ZapInv, Commit
  PROVE  Promise!Make
<1>1. /\ pc = "exit" /\ pc' = "done"
      /\ UNCHANGED <<tok, sol, acct, native, price, saved, call, returned, dust, unsold, event>>
  BY DEF Commit, ledger, locals
<1>2. LastDeposit = Promise!Nothing /\ LastDeposit' = Made
  BY <1>1, NotDone DEF LastDeposit, Made
<1>3. Visible = saved /\ Visible' = Image
  BY <1>1 DEF Visible, Image
<1>4. ASSUME NEW w \in Wallets, NEW s \in Sides
      PROVE  Holding(tok, sol, acct, w, s) = Held[w][s] + Promise!Share(Made, w, s)
  <2>1. Held[w][s] = Holding(saved.tok, saved.sol, saved.acct, w, s)
    BY <1>3 DEF Held
  <2>2. /\ Holding(tok, sol, acct, w, s) \in Int
        /\ Holding(saved.tok, saved.sol, saved.acct, w, s) \in Int
    BY ImageFields, HoldingType
  <2>3. Gain(w, s) = Holding(tok, sol, acct, w, s)
                       - Holding(saved.tok, saved.sol, saved.acct, w, s)
    BY DEF Gain
  <2>4. /\ returned[s] \in Nat /\ unsold[s] \in Int /\ dust[s] \in Nat
        /\ call.amountIn[s] \in Nat /\ event.returned = returned
    BY <1>1, CallFacts DEF ZapInv, TypeOK, FlowInv, EventReturns
  <2>5. Promise!Share(Made, w, s) =
          (IF w = Signer THEN returned[s] + unsold[s] - call.amountIn[s] ELSE 0)
            + (IF w = call.feeOwner THEN dust[s] ELSE 0)
    BY <2>4 DEF Promise!Share, Made
  <2>6. Gain(w, s) = Promise!Share(Made, w, s)
    <3>1. CASE w = Signer
      <4>1. Gain(w, s) = returned[s] + unsold[s] + OwnDust(s) - call.amountIn[s]
        BY <1>1, <3>1 DEF ZapInv, FlowInv, Accounted
      <4> QED
        BY <2>4, <2>5, <3>1, <4>1 DEF OwnDust
    <3>2. CASE w # Signer
      <4>1. /\ sol[w] = saved.sol[w]
            /\ tok[w][s] = saved.tok[w][s] + (IF w = call.feeOwner THEN dust[s] ELSE 0)
        BY <1>1, <3>2 DEF ZapInv, FlowInv, OthersKept
      <4>2. tok[w][s] \in Nat /\ saved.tok[w][s] \in Nat /\ sol[w] \in Nat
        BY ImageFields DEF BalanceType
      <4>3. Gain(w, s) = tok[w][s] - saved.tok[w][s]
        BY <3>2, <4>1, <4>2 DEF Gain, Holding, HoldingOf
      <4> QED
        BY <2>4, <2>5, <3>2, <4>1, <4>2, <4>3
    <3> QED
      BY <3>1, <3>2
  <2> QED
    BY <2>1, <2>2, <2>3, <2>6
<1>5. Held' = [w \in Wallets |-> [s \in Sides |-> Holding(tok, sol, acct, w, s)]]
  BY <1>1, <1>3 DEF Held, Holding, Image
<1>6. Held' = [w \in Wallets |-> [s \in Sides |-> Held[w][s] + Promise!Share(Made, w, s)]]
  BY <1>4, <1>5
<1> QED
  BY <1>1, <1>2, <1>6, MadeFair, SameSides DEF Promise!Make

LEMMA ReturnFinishes ==
  ASSUME Return
  PROVE  Promise!Finish
<1>1. pc = "done" /\ pc' = "idle" /\ UNCHANGED <<tok, sol, acct, native, price>>
  BY DEF Return, ledger
<1>2. Visible' = Visible
  BY <1>1 DEF Visible, Image
<1>3. LastDeposit # Promise!Nothing /\ LastDeposit' = Promise!Nothing
  BY <1>1, NotDone DEF LastDeposit, Promise!Nothing
<1> QED
  BY <1>1, <1>2, <1>3, HeldKept DEF Promise!Finish

\* Between two calls lamports move into a wSOL account of the same wallet, and
\* permissions change.
LEMMA EnvironmentStutters ==
  ASSUME FullInv, Environment
  PROVE  UNCHANGED Promise!dvars
<1>1. pc = "idle" /\ pc' = "idle" /\ UNCHANGED native
  BY DEF Environment, ReopenNative, SetPermissions, PriceMoves, Between
<1>2. /\ Visible.tok = tok /\ Visible.sol = sol /\ Visible.acct = acct
      /\ Visible'.tok = tok' /\ Visible'.sol = sol' /\ Visible'.acct = acct'
  BY <1>1 DEF Visible, Image
<1>3. ASSUME NEW w \in Wallets, NEW s \in Sides
      PROVE  HoldingOf(tok', sol', acct', w, s, native, Signer, Rent)
               = HoldingOf(tok, sol, acct, w, s, native, Signer, Rent)
  <2>1. /\ sol \in [Wallets -> Nat] /\ acct \in [Sides -> TransitType] /\ Rent \in Nat
        /\ Signer \in Wallets /\ tok \in BalanceType /\ tok[w][s] \in Nat
    BY ImageFields, ZapAssumption DEF FullInv, BalanceType
  <2>2. ASSUME NEW isAta \in BOOLEAN, NEW n \in 0..OwnToken, ReopenNative(isAta, n)
        PROVE  HoldingOf(tok', sol', acct', w, s, native, Signer, Rent)
                 = HoldingOf(tok, sol, acct, w, s, native, Signer, Rent)
    <3>1. /\ ~acct[native].live /\ sol' = [sol EXCEPT ![Signer] = @ - (Rent + n)]
          /\ tok' = [tok EXCEPT ![Signer][native] = n]
          /\ native \in Sides => acct'[native].live
      BY <2>1, <2>2 DEF ReopenNative
    <3>2. n \in Nat
      BY ZapAssumption
    <3>3. CASE w = Signer /\ s = native
      <4>1. tok[w][s] = 0 /\ tok'[w][s] = n /\ sol'[w] = sol[w] - (Rent + n)
        BY <2>1, <3>1, <3>3 DEF FullInv, ClosedEmpty, BalanceType
      <4> QED
        BY <2>1, <3>1, <3>2, <3>3, <4>1 DEF HoldingOf
    <3>4. CASE ~(w = Signer /\ s = native)
      <4>1. tok'[w][s] = tok[w][s] /\ (w # Signer => sol'[w] = sol[w])
        BY <2>1, <3>1, <3>4 DEF BalanceType
      <4> QED
        BY <2>1, <3>4, <4>1 DEF HoldingOf
    <3> QED
      BY <3>3, <3>4
  <2>3. CASE \E z \in Sides, perm \in Permissions : SetPermissions(z, perm)
    <3>1. tok' = tok /\ sol' = sol /\ acct'[s].live = acct[s].live
      BY <2>1, <2>3 DEF SetPermissions, TransitType
    <3> QED
      BY <3>1 DEF HoldingOf
  <2>4. CASE \E p \in SqrtPrices : PriceMoves(p)
    BY <2>4 DEF PriceMoves, ledger
  <2> QED
    BY <2>2, <2>3, <2>4 DEF Environment
<1>4. Held' = Held
  BY <1>1, <1>2, <1>3 DEF Held, Holding
<1> QED
  BY <1>1, <1>4, Stutters

LEMMA StepRefines ==
  ASSUME FullInv, [Next]_vars
  PROVE  [Promise!Next]_Promise!dvars
<1>1. ASSUME NEW c \in Calls, Reject(c) \/ Begin(c) PROVE UNCHANGED Promise!dvars
  <2>1. /\ pc = "idle" /\ pc' # "done" /\ UNCHANGED <<tok, sol, acct, native, price>>
        /\ pc' = "idle" \/ saved' = Image
    BY <1>1 DEF Reject, Begin, Submit, ledger
  <2>2. Visible' = Visible
    BY <2>1 DEF Visible, Image
  <2> QED
    BY <2>1, <2>2, HeldKept, Stutters
<1>2. CASE Handler
  <2>1. CASE Commit
    BY <2>1, CommitMakes DEF FullInv, Promise!Next
  <2>2. CASE Return
    BY <2>2, ReturnFinishes DEF Promise!Next
  <2>3. CASE /\ pc \notin {"idle", "done"} /\ pc' \notin {"idle", "done"}
             /\ UNCHANGED <<native, saved>>
    <3>1. Visible' = Visible
      BY <2>3 DEF Visible
    <3> QED
      BY <2>3, <3>1, HeldKept, Stutters
  <2>4. CASE /\ pc \notin {"idle", "done"} /\ pc' = "idle"
             /\ tok' = saved.tok /\ sol' = saved.sol /\ acct' = saved.acct
             /\ price' = saved.price /\ UNCHANGED <<native, saved>>
    <3>1. saved = [tok |-> saved.tok, sol |-> saved.sol, acct |-> saved.acct,
                   price |-> saved.price]
      BY DEF FullInv, ZapInv, TypeOK, ImageType
    <3>2. Visible' = Visible
      BY <2>4, <3>1 DEF Visible, Image
    <3> QED
      BY <2>4, <3>2, HeldKept, Stutters
  <2> QED
    BY <1>2, <2>1, <2>2, <2>3, <2>4, HandlerSteps
<1>3. CASE Environment
  BY <1>3, EnvironmentStutters
<1>4. CASE UNCHANGED vars
  <2>1. UNCHANGED <<pc, tok, sol, acct, price, native, saved, call, dust, unsold, event>>
    BY <1>4 DEF vars, ledger, locals
  <2>2. Visible' = Visible
    BY <2>1 DEF Visible, Image
  <2>3. LastDeposit' = LastDeposit
    BY <2>1 DEF LastDeposit, Made
  <2> QED
    BY <2>1, <2>2, <2>3, HeldKept DEF Promise!dvars
<1> QED
  BY <1>1, <1>2, <1>3, <1>4 DEF Next

\* Every behaviour of the two deposit instructions is a behaviour of Deposit: the deposit
\* is made in one step or not at all, and nothing else changes what anybody holds
\* (zap_common.rs and the two handlers, inside secure_entrypoint!).
THEOREM DepositRefined == Spec => ImplementsDeposit
<1>1. Init => Promise!Init
  <2> SUFFICES ASSUME Init PROVE Promise!Init
    OBVIOUS
  <2>1. pc # "done"
    BY DEF Init
  <2> QED
    BY <2>1, NotDone, InitZapInv, HeldType, SameSides DEF Promise!Init
<1>2. FullInv /\ [Next]_vars => [Promise!Next]_Promise!dvars
  BY StepRefines
<1> QED
  BY <1>1, <1>2, FullInvariance, PTL DEF Spec, ImplementsDeposit, Promise!Spec

\* What OnlySignerSpends says of the wallet of a loss.
Blamed(w, s, loss) ==
  /\ w = Signer /\ LastDeposit'.done
  /\ loss <= LastDeposit'.amountIn[s] + Promise!Overdrawn(LastDeposit', s)
  /\ LastDeposit'.amountIn[s] + Promise!Overdrawn(LastDeposit', s) <= Held[w][s]
  /\ Promise!Overdrawn(LastDeposit', s) > 0 =>
       LastDeposit'.returned[s] = 0 /\ Promise!Overdrawn(LastDeposit', 1 - s) = 0

LEMMA MakeBlames ==
  ASSUME Held \in [Wallets -> [Sides -> Int]], Promise!Make,
         NEW w \in Wallets, NEW s \in Sides, Held'[w][s] < Held[w][s]
  PROVE  Blamed(w, s, Held[w][s] - Held'[w][s])
<1> DEFINE d == LastDeposit'
<1>1. d \in Promise!DepositType /\ Promise!Affordable(d) /\ Promise!OnlyRests(d)
  BY DEF Promise!Make
<1>2. Held'[w][s] = Held[w][s] + Promise!Share(d, w, s)
  BY SameSides DEF Promise!Make
<1>3. /\ d.done = TRUE
      /\ d.returned[s] \in Nat /\ d.unsold[s] \in Int /\ d.dust[s] \in Nat
      /\ d.amountIn[s] \in Nat
      /\ d.amountIn[s] + Promise!Overdrawn(d, s) <= Held[Signer][s]
      /\ d.unsold[s] # 0 => d.returned[s] = 0 /\ d.unsold[1 - s] = 0
  BY <1>1, SameSides DEF Promise!DepositType, Promise!Affordable, Promise!OnlyRests
<1> HIDE DEF d
<1>4. Held[w][s] \in Int
  OBVIOUS
<1>5. /\ Promise!Overdrawn(d, s) \in Nat /\ d.unsold[s] >= -Promise!Overdrawn(d, s)
      /\ Promise!Overdrawn(d, s) > 0 =>
           d.returned[s] = 0 /\ Promise!Overdrawn(d, 1 - s) = 0
  BY <1>3 DEF Promise!Overdrawn
<1>6. /\ w = Signer
      /\ Held[w][s] - Held'[w][s] <= d.amountIn[s] + Promise!Overdrawn(d, s)
  BY <1>2, <1>3, <1>4, <1>5 DEF Promise!Share
<1> QED
  BY <1>3, <1>5, <1>6 DEF d, Blamed

\* A deposit takes nothing from any wallet but the signer's, and from that no more than
\* amount_in of either token and what a swap back took beyond the leftover: of one token,
\* of which nothing is returned, and of which the signer had as much (zap_common.rs and
\* the two handlers).
THEOREM OnlySignerSpends == Spec => Promise!OnlySignerSpends
<1> DEFINE Losses ==
      \A w \in Wallets, s \in Promise!Sides :
        Held'[w][s] < Held[w][s] => Blamed(w, s, Held[w][s] - Held'[w][s])
<1>1. FullInv /\ [Next]_vars => [Losses]_Promise!dvars
  <2> SUFFICES ASSUME FullInv, [Next]_vars PROVE [Losses]_Promise!dvars
    OBVIOUS
  <2>1. Held \in [Wallets -> [Sides -> Int]]
    BY HeldType DEF FullInv
  <2>2. CASE Promise!Make
    BY <2>1, <2>2, MakeBlames, SameSides
  <2>3. CASE Promise!Finish
    <3>1. Held' = Held
      BY <2>3 DEF Promise!Finish
    <3>2. \A w \in Wallets, s \in Sides : Held[w][s] \in Int
      BY <2>1
    <3> QED
      BY <3>1, <3>2, SameSides
  <2> QED
    BY <2>2, <2>3, StepRefines DEF Promise!Next
<1>2. Promise!OnlySignerSpends <=> [][Losses]_Promise!dvars
  BY DEF Promise!OnlySignerSpends, Blamed
<1> QED
  BY <1>1, <1>2, FullInvariance, PTL DEF Spec

(***************************************************************************)
(* The errors.  Until the wSOL account is closed the accounts are those of *)
(* before the call, and closing one sets no permission.  The plan fits the *)
(* budget when the call begins, and the budget is within the balances, so  *)
(* that the checks of the swap can fail for the token or the market only.  *)
(***************************************************************************)
AccountsKept ==
  pc # "idle" =>
    \A s \in Sides :
      /\ acct[s].ata = saved.acct[s].ata
      /\ acct[s].delegate = saved.acct[s].delegate
      /\ acct[s].closeAuth = saved.acct[s].closeAuth
      /\ ~acct[s].live => s = native

PlanFits == pc = "swap" => exec.amount <= call.amountIn[exec.side]

CauseInv == AccountsKept /\ PlanFits

\* A step inside a call leaves the accounts alone or closes the wSOL account, and none
\* of them leads back to the swap.
LEMMA InsideSteps ==
  ASSUME Handler, pc' # "idle"
  PROVE  /\ pc # "idle" /\ pc' # "swap" /\ UNCHANGED <<native, saved>>
         /\ acct' = acct \/ (native \in Sides /\ acct' = CloseAccount(acct, native))
<1> USE DEF Abort, Refuse
<1>1. CASE \E r \in SwapOuts, x \in SwapExtras, p \in SqrtPrices :
             Swap(r, x, p) \/ SwapBack(r, x, p)
  BY <1>1 DEF Swap, SwapBack
<1>2. CASE \E fee \in TokenFees : DepositCpi(fee)
  BY <1>2 DEF DepositCpi
<1>3. ~(SwapFails \/ DepositFails \/ SwapBackFails \/ BackQuoteFails \/ ExitFails \/ Return)
  BY DEF SwapFails, DepositFails, SwapBackFails, BackQuoteFails, ExitFails, Return
<1>4. CASE EmitAndUnwrap
  BY <1>4 DEF EmitAndUnwrap, ledger
<1>5. CASE ReturnAsIs \/ DustToFee \/ DustKept \/ Commit
  BY <1>5 DEF ReturnAsIs, DustToFee, DustKept, Commit, ledger
<1> QED
  BY <1>1, <1>2, <1>3, <1>4, <1>5 DEF Handler

\* A plan that passes the checks of the arguments is within the budget of its side.
LEMMA AcceptedPlanFits ==
  ASSUME NEW c \in Calls, ArgumentError(c) = "none"
  PROVE  ExecPlan(c).amount <= c.amountIn[ExecPlan(c).side]
<1>1. /\ c.amountIn \in [Sides -> Nat] /\ c.planIn \in Nat /\ c.planSide \in Sides
  BY ZapAssumption DEF CallType
<1>2. ~PlanRefused(c)
  BY DEF ArgumentError
<1>3. Swapped(c).amount <= c.amountIn[Swapped(c).side]
  <2>1. CASE OutOfRange(c)
    BY <1>1, <2>1 DEF OutOfRange, Swapped, Sides
  <2>2. CASE ~OutOfRange(c)
    <3>1. c.planIn <= c.amountIn[c.planSide]
      BY <1>1, <1>2, <2>2 DEF PlanRefused
    <3> QED
      BY <2>2, <3>1 DEF OutOfRange, Swapped
  <2> QED
    BY <2>1, <2>2
<1> QED
  BY <1>3 DEF ExecPlan

LEMMA CauseNext == ZapInv /\ CauseInv /\ [Next]_vars => CauseInv'
<1> SUFFICES ASSUME ZapInv, CauseInv, [Next]_vars, pc' # "idle" PROVE CauseInv'
  BY DEF CauseInv, AccountsKept, PlanFits
<1>1. ASSUME NEW c \in Calls, Begin(c) PROVE CauseInv'
  <2>1. /\ \A s \in Sides : acct[s].live
        /\ saved'.acct = acct /\ acct' = acct
        /\ call' = c /\ exec' = ExecPlan(c) /\ ArgumentError(c) = "none"
    BY <1>1 DEF Begin, Submit, ledger, Image
  <2>2. exec'.amount <= call'.amountIn[exec'.side]
    BY <2>1, AcceptedPlanFits
  <2> QED
    BY <2>1, <2>2 DEF CauseInv, AccountsKept, PlanFits
<1>2. CASE Handler
  <2>1. /\ pc # "idle" /\ pc' # "swap" /\ UNCHANGED <<native, saved>>
        /\ acct' = acct \/ (native \in Sides /\ acct' = CloseAccount(acct, native))
    BY <1>2, InsideSteps
  <2>2. CASE acct' = acct
    BY <2>1, <2>2 DEF CauseInv, AccountsKept, PlanFits
  <2>3. CASE native \in Sides /\ acct' = CloseAccount(acct, native)
    <3>1. acct \in [Sides -> TransitType]
      BY ImageFields
    <3>2. ASSUME NEW s \in Sides
          PROVE  /\ acct'[s].ata = acct[s].ata /\ acct'[s].delegate = acct[s].delegate
                 /\ acct'[s].closeAuth = acct[s].closeAuth
                 /\ s # native => acct'[s].live = acct[s].live
      BY <2>3, <3>1 DEF CloseAccount, TransitType
    <3> QED
      BY <2>1, <3>2 DEF CauseInv, AccountsKept, PlanFits
  <2> QED
    BY <2>1, <2>2, <2>3
<1>3. ~Environment /\ ~(\E c \in Calls : Reject(c))
  BY DEF Environment, ReopenNative, SetPermissions, PriceMoves, Between, Reject, Submit
<1>4. CASE UNCHANGED vars
  BY <1>4 DEF vars, ledger, locals, plan, CauseInv, AccountsKept, PlanFits
<1> QED
  BY <1>1, <1>2, <1>3, <1>4 DEF Next

\* HasCause, read from the errors.
LEMMA Causes ==
  /\ pc \in {"swap", "cpi", "back"} => HasCause("CpiError")
  /\ ~call.swapAccountsOk => HasCause("InvalidRemainingAccounts")
  /\ (/\ pc = "swap"
      /\ \E x \in SwapExtras : x > 0 /\ exec.amount + x > call.amountIn[exec.side])
       => HasCause("InvalidDepositAmount")
  /\ pc = "back" /\ SellsBack /\ PriceOf(price) = 0 => HasCause("InvalidSqrtPrice")
  /\ (/\ pc = "back" /\ SellsBack
      /\ QuoteOut(Leftover[Unwanted], Unwanted = 0, price) > U64_MAX)
       => HasCause("MathOverflow")
  /\ native \in Sides /\ saved.acct[native].closeAuth => HasCause("OwnerMismatch")
  BY DEF HasCause

\* What the exit check finds was there before the call.
LEMMA ExitCause ==
  ASSUME CauseInv, pc # "idle", ExitError # "none"
  PROVE  HasCause(ExitError)
<1>1. ASSUME NEW s \in Sides, AccountError(s) # "none" PROVE HasCause(AccountError(s))
  <2> DEFINE now == AccountView(acct[s], Signer)
  <2>1. /\ acct[s].ata = saved.acct[s].ata
        /\ acct[s].delegate = saved.acct[s].delegate
        /\ acct[s].closeAuth = saved.acct[s].closeAuth
        /\ ~acct[s].live => s = native
    BY DEF CauseInv, AccountsKept
  <2>2. CASE acct[s].live
    <3>1. IsTokenAccount(now) /\ now.authority = Signer
      BY <2>2 DEF AccountView, IsTokenAccount
    <3>2. now.delegate = acct[s].delegate /\ now.closeAuth = acct[s].closeAuth
      BY DEF AccountView
    <3>3. \/ AccountError(s) = "SecurityTokenDelegateNotAllowed" /\ acct[s].delegate
          \/ AccountError(s) = "SecurityTokenCloseAuthorityNotAllowed" /\ acct[s].closeAuth
      BY <1>1, <3>1, <3>2 DEF AccountError, SignerAccountError
    <3> QED
      BY <2>1, <3>3 DEF HasCause
  <2>3. CASE ~acct[s].live
    <3>1. ~IsTokenAccount(now) /\ IsUninitialized(now)
      BY <2>3 DEF AccountView, IsTokenAccount, IsUninitialized
    <3>2. AccountError(s) = "SecurityTokenAccountCorrupted" /\ ~acct[s].ata
      BY <1>1, <2>1, <2>3, <3>1 DEF AccountError, SignerAccountError
    <3> QED
      BY <2>1, <2>3, <3>2 DEF HasCause
  <2> QED
    BY <2>2, <2>3
<1> QED
  BY <1>1 DEF ExitError, Sides

LEMMA RefusedForCause ==
  ASSUME CauseInv, pc # "idle", NEW err, HasCause(err), Refuse(err)
  PROVE  HasCause(status')
<1>1. status' = Reported(err)
  BY DEF Refuse, Abort
<1> QED
  BY <1>1, ExitCause DEF Reported

LEMMA AbortedForCause ==
  ASSUME NEW err, HasCause(err), Abort(err)
  PROVE  HasCause(status')
  BY DEF Abort

\* The output of a swap fits a u64 on top of the balance, so on top of the budget; and
\* what was asked for fits the budget, so that only a token that takes more exceeds it.
LEMMA SwapCause ==
  ASSUME ZapInv, CauseInv, NEW r \in SwapOuts, NEW x \in SwapExtras, NEW p \in SqrtPrices,
         Swap(r, x, p), pc' = "idle"
  PROVE  HasCause(status')
<1> DEFINE i == exec.side
           taken == exec.amount + x
<1>1. /\ pc = "swap" /\ CanReceive(Other(i), r)
      /\ SwapError(i, taken, r) # "none" /\ Refuse(SwapError(i, taken, r))
  BY DEF Swap
<1>2. /\ i \in Sides /\ Other(i) \in Sides /\ exec.amount \in Nat /\ r \in Nat /\ x \in Int
      /\ call.amountIn \in [Sides -> Nat] /\ Signer \in Wallets
  BY <1>1, ZapAssumption, CallFacts DEF ZapInv, TypeOK, Other, Sides
<1>3. exec.amount <= call.amountIn[i]
  BY <1>1 DEF CauseInv, PlanFits
<1>4. call.amountIn[Other(i)] <= tok[Signer][Other(i)] /\ tok[Signer][Other(i)] \in Nat
  BY <1>1, <1>2, ImageFields DEF ZapInv, FlowInv, AtSwap, Checked, BalanceType
<1>5. U64_MAX \in Nat
  BY ScaleAssumption
<1>6. ~(call.amountIn[Other(i)] + r > U64_MAX)
  <2>1. tok[Signer][Other(i)] + r <= U64_MAX /\ call.amountIn[Other(i)] \in Nat
    BY <1>1, <1>2 DEF CanReceive
  <2> QED
    BY <1>2, <1>4, <1>5, <2>1
<1>7. taken > call.amountIn[i] /\ SwapError(i, taken, r) = "InvalidDepositAmount"
  BY <1>1, <1>6 DEF SwapError
<1>8. x > 0
  <2>1. call.amountIn[i] \in Nat
    BY <1>2
  <2> QED
    BY <1>2, <1>3, <1>7, <2>1
<1> QED
  BY <1>1, <1>7, <1>8, Causes, RefusedForCause

\* The quote of a swap back fails for the price or the size of the output.
LEMMA BackCause ==
  ASSUME ZapInv, CauseInv, BackQuoteFails
  PROVE  HasCause(status')
<1>1. pc = "back" /\ SellsBack /\ BackError # "none" /\ Refuse(BackError)
  BY DEF BackQuoteFails
<1>2. /\ Unwanted \in Sides /\ Leftover[Unwanted] \in Nat /\ price \in Nat
      /\ call.slippage \in 0..BPS
  BY <1>1, BackFacts, SellFacts, CallFacts, ImageFields
<1>3. \/ BackError = "InvalidSqrtPrice" /\ PriceOf(price) = 0
      \/ BackError = "MathOverflow" /\ QuoteOut(Leftover[Unwanted], Unwanted = 0, price) > U64_MAX
  <2>1. TRADE_FEE_RATE \in 0..FEE_UNIT /\ (Unwanted = 0) \in BOOLEAN
    BY ZapAssumption
  <2> QED
    BY <1>1, <1>2, <2>1, MinOutBound DEF BackError, QuoteError
<1> QED
  BY <1>1, <1>3, Causes, RefusedForCause

\* Only a close authority set before the call can stop the unwrapping.
LEMMA UnwrapCause ==
  ASSUME CauseInv, EmitAndUnwrap, pc' = "idle"
  PROVE  HasCause(status')
<1>1. native \in Sides /\ acct[native].closeAuth /\ Abort("OwnerMismatch") /\ pc = "unwrap"
  BY DEF EmitAndUnwrap, CloseRefused
<1>2. saved.acct[native].closeAuth
  BY <1>1 DEF CauseInv, AccountsKept
<1> QED
  BY <1>1, <1>2, Causes, AbortedForCause

LEMMA HandlerCause ==
  ASSUME ZapInv, CauseInv, Handler, pc \notin {"idle", "done"}, pc' = "idle"
  PROVE  HasCause(status')
<1>1. ASSUME NEW r \in SwapOuts, NEW x \in SwapExtras, NEW p \in SqrtPrices,
             Swap(r, x, p) \/ SwapBack(r, x, p)
      PROVE  HasCause(status')
  <2>1. ~SwapBack(r, x, p)
    BY DEF SwapBack
  <2> QED
    BY <1>1, <2>1, SwapCause
<1>2. CASE SwapFails
  <2>1. pc = "swap"
    BY <1>2 DEF SwapFails
  <2>2. CASE call.swapAccountsOk
    BY <1>2, <2>1, <2>2, Causes, AbortedForCause DEF SwapFails
  <2>3. CASE ~call.swapAccountsOk
    BY <1>2, <2>1, <2>3, Causes, RefusedForCause DEF SwapFails
  <2> QED
    BY <2>2, <2>3
<1>3. CASE SwapBackFails
  <2>1. pc = "back"
    BY <1>3 DEF SwapBackFails
  <2>2. CASE call.swapAccountsOk
    BY <1>3, <2>1, <2>2, Causes, AbortedForCause DEF SwapBackFails
  <2>3. CASE ~call.swapAccountsOk
    BY <1>3, <2>1, <2>3, Causes, RefusedForCause DEF SwapBackFails
  <2> QED
    BY <2>2, <2>3
<1>4. CASE DepositFails
  BY <1>4, Causes, AbortedForCause DEF DepositFails
<1>5. CASE ExitFails
  BY <1>5, ExitCause, AbortedForCause DEF ExitFails
<1>6. CASE BackQuoteFails \/ EmitAndUnwrap
  BY <1>6, BackCause, UnwrapCause
<1>7. ~ReturnAsIs /\ ~DustToFee /\ ~DustKept /\ ~Commit /\ ~Return
  BY DEF ReturnAsIs, DustToFee, DustKept, Commit, Return
<1>8. ~(\E fee \in TokenFees : DepositCpi(fee))
  BY DEF DepositCpi
<1> QED
  BY <1>1, <1>2, <1>3, <1>4, <1>5, <1>6, <1>7, <1>8 DEF Handler

LEMMA CauseInvariance == Spec => []CauseInv
<1>1. Init => CauseInv
  BY DEF Init, CauseInv, AccountsKept, PlanFits
<1>2. ZapInv /\ CauseInv /\ [Next]_vars => CauseInv'
  BY CauseNext
<1> QED
  BY <1>1, <1>2, ZapInvariance, PTL DEF Spec

\* What the two handlers do to the accounts of the signer, in all their steps: they close
\* the wSOL account or nothing, and set no permission.  LpHandler takes that for granted
\* of the bodies of swap_and_deposit and increase_liquidity.
THEOREM DepositKeepsAccounts == Spec => []AccountsKept
<1>1. CauseInv => AccountsKept
  BY DEF CauseInv
<1> QED
  BY <1>1, CauseInvariance, PTL

\* A deposit that passed the checks of its arguments fails only for Raydium, a token that
\* takes more than was asked, the price, the size of a quote, or a state of the accounts
\* from before the call: the budget of zap_common.rs never overflows, and a plan within
\* the budget is not refused for what the swap returned.
THEOREM DepositFailsForCause == Spec => FailsForCause
<1> DEFINE Cause == pc \notin {"idle", "done"} /\ pc' = "idle" => HasCause(status')
<1>1. ZapInv /\ CauseInv /\ [Next]_vars => [Cause]_vars
  <2> SUFFICES ASSUME ZapInv, CauseInv, Next, pc \notin {"idle", "done"}, pc' = "idle"
               PROVE  HasCause(status')
    OBVIOUS
  <2>1. ~(\E c \in Calls : Reject(c) \/ Begin(c)) /\ ~Environment
    BY DEF Reject, Begin, Submit, Environment, ReopenNative, SetPermissions, PriceMoves,
           Between
  <2> QED
    BY <2>1, HandlerCause DEF Next
<1> QED
  BY <1>1, ZapInvariance, CauseInvariance, PTL DEF Spec, FailsForCause

=============================================================================

----------------------------- MODULE PayoutProofs -----------------------------
(***************************************************************************)
(* DecreaseLiquidity implements Payout, for every value of its constants:  *)
(* PayoutExact, EventMatchesPayout and FeeOnProceeds are invariants, and   *)
(* every behaviour is a behaviour of Payout.                               *)
(*                                                                         *)
(* Two invariants on top of IInv.  FlowInv is about the amounts of the     *)
(* handler: fee and dust are within the yield, and the computed principal  *)
(* exceeds what arrived by at most one unit and the transfer fee.          *)
(* LedgerInv accounts for every unit of every wallet at every step: sides  *)
(* not settled yet have the yield in the transit account, less the fee and *)
(* the dust already paid and what a conversion took beyond the yield;      *)
(* settled sides have their final distribution.                            *)
(***************************************************************************)
EXTENDS DecreaseLiquidityProofs

(***************************************************************************)
(* The amounts.                                                            *)
(***************************************************************************)

\* What a step has not computed yet is 0.
NotYet ==
  /\ pc \in {"idle", "cpi"} => delta = Zero /\ expected = Zero /\ lost = Zero /\ reward = Zero
  /\ pc \in {"idle", "cpi", "convert"} => spent = 0 /\ out = 0 /\ dust = 0
  /\ pc \in {"idle", "cpi", "convert", "charge"} => feeDue = Zero
  /\ ~call.convert => spent = 0 /\ out = 0 /\ dust = 0

DustOf(s) == IF call.convert /\ s = Input THEN dust ELSE 0

FeeAndDustWithinYield == \A s \in Sides : feeDue[s] + DustOf(s) <= Yield(s)

PrincipalRounding ==
  \A s \in Sides : /\ expected[s] <= delta[s] + lost[s] + 1
                   /\ reward[s] = SatSub(delta[s], expected[s])

DustHasNoPrincipal == dust > 0 => expected[Input] = 0

\* What the event reports as settled on side s, beyond what is settled.
Excess(s) == event.principal[s] + event.reward[s] - (Yield(s) - feeDue[s])

EventClose ==
  pc = "tally" \/ Settling =>
    \A s \in Sides : ~call.convert \/ s = Target => Excess(s) \in 0..(1 + lost[s])

FlowInv ==
  /\ NotYet /\ FeeAndDustWithinYield /\ PrincipalRounding /\ DustHasNoPrincipal
  /\ EventClose

LEMMA YieldType ==
  ASSUME TypeOK, NEW s \in Sides
  PROVE  /\ Yield(s) \in Nat /\ DustOf(s) \in Nat /\ Overspent(s) \in Nat
         /\ Overspent(s) > 0 => call.convert /\ s = Input
  BY DEF TypeOK, Yield, DustOf, Overspent, SatSub

\* The amounts of a call that has not begun.
LEMMA FlowIdle ==
  ASSUME pc' = "idle", delta' = Zero, expected' = Zero, lost' = Zero, reward' = Zero,
         spent' = 0, out' = 0, dust' = 0, feeDue' = Zero
  PROVE  FlowInv'
<1>1. \A s \in Sides : Yield(s)' = 0 /\ DustOf(s)' = 0
  BY ZeroType DEF Yield, DustOf, SatSub
<1>2. FeeAndDustWithinYield'
  BY <1>1, ZeroType DEF FeeAndDustWithinYield
<1>3. PrincipalRounding'
  BY ZeroType DEF PrincipalRounding, SatSub
<1> QED
  BY <1>2, <1>3 DEF FlowInv, NotYet, DustHasNoPrincipal, EventClose, Settling

LEMMA FlowInit == Init => FlowInv
<1> SUFFICES ASSUME Init PROVE FlowInv
  OBVIOUS
<1>1. \A s \in Sides : Yield(s) = 0 /\ DustOf(s) = 0
  BY ZeroType DEF Yield, DustOf, SatSub, Init
<1>2. FeeAndDustWithinYield
  BY <1>1, ZeroType DEF FeeAndDustWithinYield, Init
<1>3. PrincipalRounding
  BY ZeroType DEF PrincipalRounding, SatSub, Init
<1> QED
  BY <1>2, <1>3 DEF FlowInv, NotYet, DustHasNoPrincipal, EventClose, Settling, Init

LEMMA FlowEmpty == EmptyLocals /\ pc' = "idle" => FlowInv'
  BY FlowIdle DEF EmptyLocals

LEMMA FlowAbort == ASSUME NEW err, Abort(err) PROVE FlowInv'
  BY FlowEmpty DEF Abort

LEMMA FlowRefuse == ASSUME NEW err, Refuse(err) PROVE FlowInv'
  BY FlowAbort DEF Refuse

\* Steps that leave the amounts alone.
LEMMA FlowKept ==
  ASSUME FlowInv, UNCHANGED <<call, locals>>,
         \/ pc' = pc
         \/ pc = "convert" /\ pc' = "charge"
         \/ Settling /\ pc' \in {"settle1", "exit", "done"}
  PROVE  FlowInv'
<1>1. UNCHANGED <<call, before, cached, expected, delta, reward, owed, lost, spent, out,
                  dust, feeDue, net, event>>
  BY DEF locals
<1>2. \A s \in Sides : Yield(s)' = Yield(s) /\ DustOf(s)' = DustOf(s)
                       /\ Excess(s)' = Excess(s)
  BY <1>1 DEF Yield, DustOf, Excess, Input, Target
<1>3. Input' = Input /\ Target' = Target
  BY <1>1 DEF Input, Target
<1>4. NotYet'
  BY <1>1 DEF FlowInv, NotYet, Settling
<1>5. FeeAndDustWithinYield' /\ PrincipalRounding' /\ DustHasNoPrincipal'
  BY <1>1, <1>2, <1>3
  DEF FlowInv, FeeAndDustWithinYield, PrincipalRounding, DustHasNoPrincipal
<1>6. EventClose'
  BY <1>1, <1>2, <1>3 DEF FlowInv, EventClose, Settling
<1> QED
  BY <1>4, <1>5, <1>6 DEF FlowInv

LEMMA FlowBegin ==
  ASSUME IInv, FlowInv, NEW c \in Calls, Begin(c)
  PROVE  FlowInv'
<1>1. /\ pc = "idle" /\ pc' = "cpi" /\ call' = c
      /\ UNCHANGED <<expected, delta, reward, lost, spent, out, dust, feeDue>>
  BY DEF Begin, Submit
<1>2. /\ delta' = Zero /\ expected' = Zero /\ lost' = Zero /\ reward' = Zero
      /\ spent' = 0 /\ out' = 0 /\ dust' = 0 /\ feeDue' = Zero
  BY <1>1 DEF FlowInv, NotYet
<1>3. \A s \in Sides : Yield(s)' = 0 /\ DustOf(s)' = 0
  BY <1>2, ZeroType DEF Yield, DustOf, SatSub
<1>4. FeeAndDustWithinYield'
  BY <1>2, <1>3, ZeroType DEF FeeAndDustWithinYield
<1>5. PrincipalRounding'
  BY <1>2, ZeroType DEF PrincipalRounding, SatSub
<1> QED
  BY <1>1, <1>2, <1>4, <1>5
  DEF FlowInv, NotYet, DustHasNoPrincipal, EventClose, Settling

\* What Raydium paid, what the handler computed, and what the mint withheld.
LEMMA CpiAmounts ==
  ASSUME IInv, NEW p \in Payouts, DecreaseCpi(p), pc' # "idle"
  PROVE  /\ pc = "cpi" /\ pc' = IF call.convert THEN "convert" ELSE "charge"
         /\ tok[Signer] = before
         /\ tok' = [tok EXCEPT ![Signer] = [s \in Sides |-> before[s] + delta'[s]]]
         /\ delta' \in [Sides -> Nat] /\ expected' \in [Sides -> Nat]
         /\ lost' \in [Sides -> Nat]
         /\ \A s \in Sides : /\ expected'[s] <= delta'[s] + lost'[s] + 1
                             /\ reward'[s] = SatSub(delta'[s], expected'[s])
         /\ UNCHANGED <<sol, acct, native, price, saved, call, before, spent, out,
                        dust, feeDue, net, event, status, calls>>
<1> DEFINE balance == [s \in Sides |-> tok[Signer][s] + Arrives(s, Paid(p)[s])]
           gained  == [s \in Sides |-> balance[s] - before[s]]
           planned == Planned(p)
<1>1. ~(\A s \in Sides : gained[s] = 0)
  BY DEF DecreaseCpi, Refuse, Abort
<1>2. /\ pc = "cpi" /\ tok' = [tok EXCEPT ![Signer] = balance]
      /\ expected' = planned /\ delta' = gained
      /\ reward' = [s \in Sides |-> SatSub(gained[s], planned[s])]
      /\ lost' = [s \in Sides |-> Withheld(s, Paid(p)[s])]
      /\ pc' = IF call.convert THEN "convert" ELSE "charge"
      /\ UNCHANGED <<sol, acct, native, price, saved, call, before, spent, out,
                     dust, feeDue, net, event, status, calls>>
  BY <1>1 DEF DecreaseCpi
<1>3. tok[Signer] = before /\ before \in [Sides -> Nat]
  BY <1>2 DEF IInv, TypeOK, StepInv, AtCpi
<1>4. IInv'
  BY DecreaseCpiIInv
<1>5. delta' \in [Sides -> Nat] /\ expected' \in [Sides -> Nat] /\ lost' \in [Sides -> Nat]
  BY <1>4 DEF IInv, TypeOK
<1>6. ExactPrincipal(p) \in [Sides -> Nat] /\ p.reward \in [Sides -> Nat]
  BY DecreaseAssumption, ZeroType DEF ExactPrincipal, PayoutType
<1>7. \A s \in Sides : expected'[s] <= delta'[s] + lost'[s] + 1
  <2> TAKE s \in Sides
  <2>1. Paid(p)[s] = ExactPrincipal(p)[s] \div PRECISION + p.reward[s]
    BY DEF Paid
  <2>2. ExactPrincipal(p)[s] \in Nat /\ p.reward[s] \in Nat /\ Paid(p)[s] \in Nat
    BY <1>6, <2>1 DEF PRECISION
  <2>3. expected'[s] <= Paid(p)[s] + 1
    BY <1>2, <2>1, <2>2 DEF Planned, CeilDiv, PRECISION
  <2>4. delta'[s] = Arrives(s, Paid(p)[s]) /\ lost'[s] = Withheld(s, Paid(p)[s])
    BY <1>2, <1>3, <2>2, ArrivesBound
  <2>5. delta'[s] + lost'[s] = Paid(p)[s]
    BY <2>2, <2>4, ArrivesBound DEF Arrives
  <2> QED
    BY <1>5, <2>3, <2>5
<1>8. \A s \in Sides : /\ balance[s] = before[s] + delta'[s]
                       /\ reward'[s] = SatSub(delta'[s], expected'[s])
  <2> TAKE s \in Sides
  <2>1. Paid(p)[s] \in Nat
    BY <1>6 DEF Paid, PRECISION
  <2> QED
    BY <1>2, <1>3, <2>1, ArrivesBound
<1>9. balance = [s \in Sides |-> before[s] + delta'[s]]
  BY <1>8
<1> HIDE DEF balance, gained, planned
<1> QED
  BY <1>2, <1>3, <1>5, <1>7, <1>8, <1>9

LEMMA FlowCpi ==
  ASSUME IInv, FlowInv, NEW p \in Payouts, DecreaseCpi(p)
  PROVE  FlowInv'
<1>1. CASE pc' = "idle"
  <2> DEFINE balance == [s \in Sides |-> tok[Signer][s] + Arrives(s, Paid(p)[s])]
             gained  == [s \in Sides |-> balance[s] - before[s]]
  <2>1. CASE \A s \in Sides : gained[s] = 0
    BY <2>1, FlowRefuse DEF DecreaseCpi
  <2>2. CASE ~(\A s \in Sides : gained[s] = 0)
    BY <1>1, <2>2 DEF DecreaseCpi
  <2> QED
    BY <2>1, <2>2
<1>2. CASE pc' # "idle"
  <2>1. spent' = 0 /\ out' = 0 /\ dust' = 0 /\ feeDue' = Zero
    BY <1>2, CpiAmounts DEF FlowInv, NotYet
  <2>2. \A s \in Sides : Yield(s)' = delta'[s] /\ DustOf(s)' = 0
    BY <1>2, <2>1, CpiAmounts DEF Yield, DustOf, SatSub
  <2>3. FeeAndDustWithinYield'
    BY <1>2, <2>1, <2>2, CpiAmounts, ZeroType DEF FeeAndDustWithinYield
  <2>4. PrincipalRounding'
    BY <1>2, CpiAmounts DEF PrincipalRounding
  <2>5. NotYet'
    BY <1>2, <2>1, CpiAmounts DEF NotYet
  <2> QED
    BY <1>2, <2>1, <2>3, <2>4, <2>5, CpiAmounts
    DEF FlowInv, DustHasNoPrincipal, EventClose, Settling
<1> QED
  BY <1>1, <1>2

LEMMA FlowDust ==
  ASSUME IInv, FlowInv, ConvertDust
  PROVE  FlowInv'
<1>1. CASE native = Input /\ sol[Signer] < TotalIn
  BY <1>1, FlowAbort DEF ConvertDust
<1>2. CASE ~(native = Input /\ sol[Signer] < TotalIn)
  <2>1. /\ pc = "convert" /\ pc' = "charge" /\ dust' = TotalIn /\ TotalIn > 0
        /\ PrincipalIn = 0
        /\ UNCHANGED <<call, expected, delta, reward, lost, spent, out, feeDue>>
    BY <1>2 DEF ConvertDust, IsDust
  <2>2. call.convert /\ spent = 0 /\ out = 0 /\ feeDue = Zero
    BY <2>1 DEF IInv, StepInv, AtConvert, FlowInv, NotYet
  <2>3. Target \in Sides /\ Input \in Sides /\ Target # Input
    BY <2>1, CallFacts
  <2>4. TotalIn = delta[Input] /\ delta \in [Sides -> Nat] /\ expected \in [Sides -> Nat]
        /\ lost \in [Sides -> Nat] /\ reward \in [Sides -> Nat]
    BY <2>1, TotalInIsDelta DEF IInv, TypeOK
  <2>5. Input' = Input /\ Target' = Target
    BY <2>1 DEF Input, Target
  <2>6. expected[Input] = 0
    <3>1. reward[Input] = SatSub(delta[Input], expected[Input])
      BY <2>3 DEF FlowInv, PrincipalRounding
    <3>2. SatSub(delta[Input], reward[Input]) = 0
      BY <2>1 DEF PrincipalIn
    <3>3. delta[Input] > 0 /\ delta[Input] \in Nat /\ expected[Input] \in Nat
          /\ reward[Input] \in Nat
      BY <2>1, <2>3, <2>4
    <3> QED
      BY <3>1, <3>2, <3>3 DEF SatSub
  <2>7. \A s \in Sides : Yield(s)' = delta[s]
                         /\ DustOf(s)' = IF s = Input THEN delta[s] ELSE 0
    BY <2>1, <2>2, <2>3, <2>4, <2>5 DEF Yield, DustOf, SatSub
  <2>8. FeeAndDustWithinYield'
    BY <2>1, <2>2, <2>4, <2>7, ZeroType DEF FeeAndDustWithinYield
  <2>9. PrincipalRounding'
    BY <2>1 DEF FlowInv, PrincipalRounding
  <2> QED
    BY <2>1, <2>2, <2>5, <2>6, <2>8, <2>9
    DEF FlowInv, NotYet, DustHasNoPrincipal, EventClose, Settling
<1> QED
  BY <1>1, <1>2

\* What a swap changes in the transit account and in the locals.
LEMMA SwapAmounts ==
  ASSUME IInv, NEW received \in SwapOuts, NEW unspent \in SwapRests,
         ConvertSwap(received, unspent)
  PROVE  /\ pc = "convert" /\ pc' = "charge" /\ call.convert
         /\ out' = received /\ received \in Nat
         /\ spent' \in Nat
         /\ tok' = [tok EXCEPT ![Signer][Input] = @ - spent',
                               ![Signer][Target] = @ + out']
         /\ UNCHANGED <<sol, acct, native, price, saved, call, before, expected, delta,
                        reward, lost, dust, feeDue, net, event>>
<1>1. /\ pc = "convert" /\ pc' = "charge" /\ TotalIn - unspent \in 0..tok[Signer][Input]
      /\ tok' = [tok EXCEPT ![Signer][Input] = @ - (TotalIn - unspent),
                            ![Signer][Target] = @ + received]
      /\ cached' = tok'[Signer] /\ out' = cached'[Target] - cached[Target]
      /\ spent' = TotalIn - unspent
      /\ UNCHANGED <<sol, acct, native, price, saved, call, before, expected, delta,
                     reward, lost, dust, feeDue, net, event>>
  BY DEF ConvertSwap
<1>2. call.convert /\ cached = tok[Signer]
  BY <1>1 DEF IInv, StepInv, AtConvert
<1>3. Target \in Sides /\ Input \in Sides /\ Target # Input /\ Signer \in Wallets
      /\ tok \in [Wallets -> [Sides -> Nat]]
  BY <1>1, CallFacts DEF IInv, TypeOK
<1>4. received \in Nat
  BY DecreaseAssumption
<1>5. tok'[Signer][Target] = tok[Signer][Target] + received
  BY <1>1, <1>3
<1>6. out' = received
  BY <1>1, <1>2, <1>3, <1>4, <1>5
<1>7. spent' \in Nat
  BY <1>1, <1>3
<1>8. tok' = [tok EXCEPT ![Signer][Input] = @ - spent', ![Signer][Target] = @ + out']
  BY <1>1, <1>6, Zenon
<1> QED
  BY <1>1, <1>2, <1>4, <1>6, <1>7, <1>8

LEMMA FlowSwap ==
  ASSUME IInv, FlowInv, NEW received \in SwapOuts, NEW unspent \in SwapRests,
         ConvertSwap(received, unspent)
  PROVE  FlowInv'
<1>1. dust = 0 /\ feeDue = Zero
  BY SwapAmounts DEF FlowInv, NotYet
<1>2. Target \in Sides /\ Input \in Sides /\ Target # Input /\ delta \in [Sides -> Nat]
  BY SwapAmounts, CallFacts DEF IInv, TypeOK
<1>3. \A s \in Sides : Yield(s)' >= 0 /\ DustOf(s)' = 0
  <2>1. Input' = Input /\ Target' = Target
    BY SwapAmounts DEF Input, Target
  <2>2. \A s \in Sides : s = Input \/ s = Target
    BY <1>2 DEF Sides
  <2> QED
    BY <1>1, <1>2, <2>1, <2>2, SwapAmounts DEF Yield, DustOf, SatSub
<1>4. FeeAndDustWithinYield'
  BY <1>1, <1>3, SwapAmounts, ZeroType, YieldType DEF FeeAndDustWithinYield
<1>5. PrincipalRounding'
  BY SwapAmounts DEF FlowInv, PrincipalRounding
<1> QED
  BY <1>1, <1>4, <1>5, SwapAmounts
  DEF FlowInv, NotYet, DustHasNoPrincipal, EventClose, Settling

\* The fee of a call that gets past it.
LEMMA ChargeAmounts ==
  ASSUME IInv, Charge, pc' # "idle"
  PROVE  /\ pc = "charge" /\ pc' = "tally"
         /\ feeDue' \in [Sides -> Nat]
         /\ feeDue' = [s \in Sides |-> FeeOf(FeeBase[s])]
         /\ \A s \in Sides : feeDue'[s] <= FeeBase[s]
         /\ \A s \in Sides : s # native => feeDue'[s] <= tok[Signer][s]
         /\ tok' = PayTokenFees(feeDue') /\ event' = EventOf(feeDue')
         /\ UNCHANGED <<sol, acct, native, price, saved, call, before, cached, expected,
                        delta, reward, owed, lost, spent, out, dust, net>>
<1> DEFINE fee == [s \in Sides |-> FeeOf(FeeBase[s])]
           overflow == \E s \in Sides : FeeBase[s] * call.feePercent > U64_MAX
           short == \E s \in Sides : s # native /\ tok[Signer][s] < fee[s]
<1>1. ~overflow /\ ~short
  BY DEF Charge, Refuse, Abort
<1>2. /\ pc = "charge" /\ pc' = "tally"
      /\ feeDue' = fee /\ tok' = PayTokenFees(fee) /\ event' = EventOf(fee)
      /\ UNCHANGED <<sol, acct, native, price, saved, call, before, cached, expected,
                     delta, reward, owed, lost, spent, out, dust, net>>
  BY <1>1 DEF Charge
<1>3. FeeBase \in [Sides -> Nat] /\ tok[Signer] \in [Sides -> Nat]
  BY <1>2, FeeBaseBound, CallFacts
<1>4. fee \in [Sides -> Nat] /\ \A s \in Sides : fee[s] <= FeeBase[s]
  BY <1>2, <1>3, FeeOfBound
<1>5. \A s \in Sides : s # native => fee[s] <= tok[Signer][s]
  BY <1>1, <1>3, <1>4
<1> HIDE DEF fee
<1>6. feeDue' = [s \in Sides |-> FeeOf(FeeBase[s])]
  BY <1>2 DEF fee
<1> QED
  BY <1>2, <1>4, <1>5, <1>6

LEMMA FlowCharge ==
  ASSUME IInv, FlowInv, Charge
  PROVE  FlowInv'
<1>1. CASE pc' = "idle"
  <2> DEFINE fee == [s \in Sides |-> FeeOf(FeeBase[s])]
             overflow == \E s \in Sides : FeeBase[s] * call.feePercent > U64_MAX
             short == \E s \in Sides : s # native /\ tok[Signer][s] < fee[s]
  <2>1. CASE overflow
    BY <2>1, FlowRefuse DEF Charge
  <2>2. CASE ~overflow /\ short
    BY <2>2, FlowAbort DEF Charge
  <2>3. CASE ~overflow /\ ~short
    BY <1>1, <2>3 DEF Charge
  <2> QED
    BY <2>1, <2>2, <2>3
<1>2. CASE pc' # "idle"
  <2>1. Target \in Sides /\ Input \in Sides /\ Target # Input
        /\ \A s \in Sides : s = Input \/ s = Target
    BY <1>2, ChargeAmounts, CallFacts DEF Sides
  <2>2. Input' = Input /\ Target' = Target
    BY <1>2, ChargeAmounts DEF Input, Target
  <2>3. /\ delta \in [Sides -> Nat] /\ expected \in [Sides -> Nat] /\ lost \in [Sides -> Nat]
        /\ reward \in [Sides -> Nat] /\ out \in Nat /\ dust \in Nat /\ spent \in Nat
        /\ feeDue = Zero /\ call.convert \in BOOLEAN
    BY <1>2, ChargeAmounts, CallFacts DEF IInv, TypeOK, FlowInv, NotYet
  <2>4. /\ \A s \in Sides : reward[s] = SatSub(delta[s], expected[s])
        /\ \A s \in Sides : expected[s] <= delta[s] + lost[s] + 1
        /\ \A s \in Sides : DustOf(s) <= Yield(s)
    BY <2>3, ZeroType, YieldType DEF FlowInv, PrincipalRounding, FeeAndDustWithinYield, IInv
  <2>5. \A s \in Sides : Yield(s)' = Yield(s) /\ DustOf(s)' = DustOf(s)
    BY <1>2, <2>2, ChargeAmounts DEF Yield, DustOf
  <2>6. PrincipalRounding' /\ DustHasNoPrincipal' /\ NotYet'
    BY <1>2, <2>2, ChargeAmounts
    DEF FlowInv, PrincipalRounding, DustHasNoPrincipal, NotYet
  <2>7. CASE ~call.convert
    <3>1. FeeBase = reward /\ \A s \in Sides : Yield(s) = delta[s] /\ DustOf(s) = 0
      BY <1>2, <2>7, ChargeAmounts, FeeBaseBound DEF Yield, DustOf
    <3>2. FeeAndDustWithinYield'
      BY <1>2, <2>3, <2>4, <2>5, <3>1, ChargeAmounts, SatSubBound DEF FeeAndDustWithinYield
    <3>3. ASSUME NEW s \in Sides
          PROVE  /\ event'.principal[s] = expected[s]
                 /\ event'.reward[s] = reward[s] - feeDue'[s]
      BY <1>2, <2>7, <3>1, <3>3, ChargeAmounts DEF EventOf
    <3>4. \A s \in Sides : Excess(s)' \in 0..(1 + lost[s])
      <4> TAKE s \in Sides
      <4>1. Excess(s)' = expected[s] + (reward[s] - feeDue'[s]) - (delta[s] - feeDue'[s])
        BY <2>5, <3>1, <3>3 DEF Excess
      <4>2. Excess(s)' = expected[s] + reward[s] - delta[s]
        BY <1>2, <2>3, <4>1, ChargeAmounts
      <4> QED
        BY <2>3, <2>4, <4>2 DEF SatSub
    <3> QED
      BY <1>2, <2>6, <3>2, <3>4, ChargeAmounts DEF FlowInv, EventClose
  <2>8. CASE call.convert
    <3>1. /\ FeeBase[Target] = reward[Target] + RewardOut /\ FeeBase[Input] = 0
          /\ RewardOut \in Nat /\ RewardOut <= out
      BY <1>2, <2>8, ChargeAmounts, FeeBaseBound, RewardOutBound
    <3>2. /\ Yield(Target) = delta[Target] + out
          /\ DustOf(Target) = 0
      BY <2>1, <2>8 DEF Yield, DustOf
    <3>3. feeDue'[Input] = 0 /\ feeDue'[Target] <= reward[Target] + RewardOut
          /\ feeDue'[Target] \in Nat
      BY <1>2, <2>1, <3>1, ChargeAmounts
    <3>4. reward[Target] <= delta[Target]
      BY <2>1, <2>3, <2>4, SatSubBound
    <3>5. feeDue'[Target] <= Yield(Target)
      BY <2>1, <2>3, <3>1, <3>2, <3>3, <3>4
    <3>6. FeeAndDustWithinYield'
      <4> SUFFICES ASSUME NEW s \in Sides PROVE feeDue'[s] + DustOf(s) <= Yield(s)
        BY <2>5 DEF FeeAndDustWithinYield
      <4>1. CASE s = Input
        BY <2>1, <2>4, <3>3, <4>1, YieldType DEF IInv
      <4>2. CASE s = Target
        BY <2>1, <3>2, <3>3, <3>5, <4>2
      <4> QED
        BY <2>1, <4>1, <4>2
    <3>7. /\ event'.principal[Target] = expected[Target] + (out - RewardOut)
          /\ event'.reward[Target] = (reward[Target] + RewardOut) - feeDue'[Target]
      BY <1>2, <2>1, <2>8, <3>1, ChargeAmounts DEF EventOf
    <3>8. Excess(Target)' \in 0..(1 + lost[Target])
      <4>1. Excess(Target)' = expected[Target] + (out - RewardOut)
                               + ((reward[Target] + RewardOut) - feeDue'[Target])
                               - ((delta[Target] + out) - feeDue'[Target])
        BY <2>1, <2>2, <2>5, <3>2, <3>7 DEF Excess
      <4>2. Excess(Target)' = expected[Target] + reward[Target] - delta[Target]
        BY <2>1, <2>3, <3>1, <3>3, <4>1
      <4> QED
        BY <2>1, <2>3, <2>4, <4>2 DEF SatSub
    <3> QED
      BY <1>2, <2>2, <2>6, <2>8, <3>6, <3>8, ChargeAmounts DEF FlowInv, EventClose
  <2> QED
    BY <2>3, <2>7, <2>8
<1> QED
  BY <1>1, <1>2

LEMMA FlowTally ==
  ASSUME FlowInv, Tally
  PROVE  FlowInv'
<1>1. /\ pc = "tally" /\ pc' = "settle0"
      /\ UNCHANGED <<call, expected, delta, reward, lost, spent, out, dust, feeDue, event>>
  BY DEF Tally
<1>2. \A s \in Sides : Yield(s)' = Yield(s) /\ DustOf(s)' = DustOf(s)
                       /\ Excess(s)' = Excess(s)
  BY <1>1 DEF Yield, DustOf, Excess, Input, Target
<1>3. Input' = Input /\ Target' = Target
  BY <1>1 DEF Input, Target
<1>4. FeeAndDustWithinYield' /\ PrincipalRounding' /\ DustHasNoPrincipal' /\ NotYet'
  BY <1>1, <1>2, <1>3
  DEF FlowInv, FeeAndDustWithinYield, PrincipalRounding, DustHasNoPrincipal, NotYet
<1>5. EventClose'
  BY <1>1, <1>2, <1>3 DEF FlowInv, EventClose
<1> QED
  BY <1>4, <1>5 DEF FlowInv

LEMMA FlowSettle ==
  ASSUME FlowInv, NEW s \in Sides,
         SettleNothing(s) \/ SettleToken(s) \/ SettleNative(s)
  PROVE  FlowInv'
<1>1. CASE UNCHANGED <<call, locals>> /\ AtSettle(s) /\ AfterSettle(s)
  <2>1. Settling /\ pc' \in {"settle1", "exit", "done"}
    BY <1>1 DEF AtSettle, AfterSettle, Settling, Sides
  <2> QED
    BY <1>1, <2>1, FlowKept
<1>2. CASE ~(UNCHANGED <<call, locals>> /\ AtSettle(s) /\ AfterSettle(s))
  BY <1>2, FlowAbort, FlowRefuse DEF SettleNothing, SettleToken, SettleNative
<1> QED
  BY <1>1, <1>2

LEMMA FlowNext == IInv /\ FlowInv /\ [Next]_vars => FlowInv'
<1> SUFFICES ASSUME IInv, FlowInv, [Next]_vars PROVE FlowInv'
  OBVIOUS
<1>1. ASSUME NEW c \in Calls, Reject(c) PROVE FlowInv'
  BY <1>1, FlowKept DEF Reject
<1>2. ASSUME NEW c \in Calls, Begin(c) PROVE FlowInv'
  BY <1>2, FlowBegin
<1>3. CASE Handler
  <2>1. CASE \E p \in Payouts : DecreaseCpi(p) \/ PrincipalFails(p)
    BY <2>1, FlowCpi, FlowAbort, FlowRefuse DEF PrincipalFails
  <2>2. CASE \E received \in SwapOuts : \E unspent \in SwapRests :
               ConvertSwap(received, unspent)
    BY <2>2, FlowSwap
  <2>3. CASE \E s \in Sides : SettleNothing(s) \/ SettleToken(s) \/ SettleNative(s)
    BY <2>3, FlowSettle
  <2>4. CASE CpiFails \/ ThresholdFails \/ SwapFails \/ ExitFails
    BY <2>4, FlowAbort, FlowRefuse DEF CpiFails, ThresholdFails, SwapFails, ExitFails
  <2>5. CASE ConvertNothing
    BY <2>5, FlowKept DEF ConvertNothing
  <2>6. CASE Commit
    BY <2>6, FlowKept DEF Commit, Settling
  <2>7. CASE Return
    BY <2>7, FlowEmpty DEF Return
  <2>8. CASE ConvertDust \/ Charge \/ Tally
    BY <2>8, FlowDust, FlowCharge, FlowTally
  <2> QED
    BY <1>3, <2>1, <2>2, <2>3, <2>4, <2>5, <2>6, <2>7, <2>8 DEF Handler
<1>4. CASE Environment
  BY <1>4, FlowKept DEF Environment, ReopenNative, SetPermissions, PriceMoves
<1>5. CASE UNCHANGED vars
  BY <1>5, FlowKept DEF vars
<1> QED
  BY <1>1, <1>2, <1>3, <1>4, <1>5 DEF Next

(***************************************************************************)
(* The ledger.                                                             *)
(***************************************************************************)

\* What is left in the transit account of the yield, and what went out of it: fee and
\* dust of a token in tokens, the dust of wSOL in lamports.  What a conversion takes
\* beyond the yield is gone from what was there before the call.
PaidInTokens(s) == IF s = native THEN 0 ELSE FeePaid(s) + DustPaid(s)
Kept(s) == Yield(s) - PaidInTokens(s)

TokenChange(w, s) ==
  (IF w = Signer THEN Kept(s) - Overspent(s) ELSE 0)
    + (IF w = call.feeOwner /\ s # native THEN FeeOwnerGets(s) ELSE 0)

SolChange(w, s) ==
  (IF w = call.feeOwner THEN DustPaid(s) ELSE 0) - (IF w = Signer THEN DustPaid(s) ELSE 0)

\* The change of a holding that PayoutExact promises.
FinalGain(w, s) ==
  (IF w = call.recipient THEN RecipientGets(s) ELSE 0)
    + (IF w = call.feeOwner THEN FeeOwnerGets(s) ELSE 0)
    - (IF w = Signer THEN Advanced(s) + Overspent(s) ELSE 0)

Processed(s) == pc \in {"exit", "done"} \/ (pc = "settle1" /\ s = 0)

OpenLedger(s) ==
  /\ acct[s] = saved.acct[s]
  /\ \A w \in Wallets : tok[w][s] = saved.tok[w][s] + TokenChange(w, s)
  /\ s = native => \A w \in Wallets : sol[w] = saved.sol[w] + SolChange(w, s)
  /\ pc \in {"settle0", "settle1"} => net[s] = Kept(s)

SettledLedger(s) == \A w \in Wallets : Gain(w, s) = FinalGain(w, s)

LedgerInv ==
  pc # "idle" =>
    /\ before = saved.tok[Signer]
    /\ \A s \in Sides : /\ saved.acct[s].live
                        /\ IF Processed(s) THEN SettledLedger(s) ELSE OpenLedger(s)

\* What transfers do to a balance.
LEMMA SendTokenExact ==
  ASSUME NEW t \in [Wallets -> [Sides -> Nat]], NEW to \in Wallets,
         NEW s \in Sides, NEW n \in Nat, NEW w \in Wallets, NEW z \in Sides
  PROVE  SendToken(t, to, s, n)[w][z] =
           IF z # s \/ to = Signer THEN t[w][z]
           ELSE IF w = Signer THEN t[w][z] - n
           ELSE IF w = to THEN t[w][z] + Arrives(s, n) ELSE t[w][z]
<1>1. CASE to = Signer
  BY <1>1 DEF SendToken
<1>2. CASE to # Signer
  <2>1. SendToken(t, to, s, n) =
          [v \in Wallets |-> [y \in Sides |->
             IF y # s THEN t[v][y]
             ELSE IF v = Signer THEN t[v][y] - n
             ELSE IF v = to THEN t[v][y] + Arrives(s, n) ELSE t[v][y]]]
    BY <1>2, DecreaseAssumption DEF SendToken
  <2> QED
    BY <1>2, <2>1
<1> QED
  BY <1>1, <1>2

LEMMA MoveSolExact ==
  ASSUME NEW b \in [Wallets -> Nat], NEW to \in Wallets, NEW n \in Nat, NEW w \in Wallets
  PROVE  MoveSol(b, Signer, to, n)[w] =
           b[w] - (IF w = Signer THEN n ELSE 0) + (IF w = to THEN n ELSE 0)
  BY DecreaseAssumption DEF MoveSol

LEMMA ArrivesZero == \A s \in Sides : Arrives(s, 0) = 0
<1> SUFFICES ASSUME NEW s \in Sides PROVE Arrives(s, 0) = 0
  OBVIOUS
<1> QED
  BY ArrivesBound

\* The amounts of the ledger are numbers, and nothing is paid that was not yielded.
LEMMA LedgerTypes ==
  ASSUME IInv, FlowInv, NEW s \in Sides
  PROVE  /\ Yield(s) \in Nat /\ FeePaid(s) \in Nat /\ DustPaid(s) \in Nat
         /\ feeDue[s] \in Nat /\ FeePaid(s) + DustPaid(s) <= Yield(s)
         /\ feeDue[s] <= Yield(s)
         /\ Kept(s) \in Nat /\ PaidInTokens(s) \in Nat
         /\ FeeOwnerGets(s) \in Nat /\ RecipientGets(s) \in Nat
         /\ Settled(s) \in Nat /\ RecipientGets(s) <= Settled(s)
         /\ FeeOwnerGets(s) <= FeePaid(s) + DustPaid(s)
         /\ Overspent(s) \in Nat
         /\ Overspent(s) > 0 => call.convert /\ s = Input /\ Yield(s) = 0
<1>1. /\ feeDue[s] \in Nat /\ dust \in Nat /\ DustOf(s) \in Nat /\ Yield(s) \in Nat
      /\ feeDue[s] + DustOf(s) <= Yield(s)
  BY YieldType DEF IInv, TypeOK, FlowInv, FeeAndDustWithinYield
<1>2. FeePaid(s) \in Nat /\ FeePaid(s) <= feeDue[s]
  BY <1>1 DEF FeePaid
<1>3. DustPaid(s) \in Nat /\ DustPaid(s) <= DustOf(s)
  BY <1>1 DEF DustPaid, DustOf
<1>4. PaidInTokens(s) \in Nat /\ PaidInTokens(s) <= Yield(s)
  BY <1>1, <1>2, <1>3 DEF PaidInTokens
<1>5. Settled(s) \in Nat
  BY <1>1, <1>2, <1>3 DEF Settled, Advanced
<1>6. /\ Arrives(s, FeePaid(s)) \in Nat /\ Arrives(s, FeePaid(s)) <= FeePaid(s)
      /\ Arrives(s, DustPaid(s)) \in Nat /\ Arrives(s, DustPaid(s)) <= DustPaid(s)
      /\ Arrives(s, Settled(s)) \in Nat /\ Arrives(s, Settled(s)) <= Settled(s)
  BY <1>2, <1>3, <1>5, ArrivesBound
<1>7. /\ Overspent(s) \in Nat
      /\ Overspent(s) > 0 => call.convert /\ s = Input /\ Yield(s) = 0
  <2>1. call.target \in {0, 1, NoSide}
    BY DecreaseAssumption DEF IInv, TypeOK, NoCall, CallType
  <2>2. s = Input => s # Target
    BY <2>1 DEF Input, Target, Other, NoSide, Sides
  <2>3. s = Input => delta[s] \in Nat /\ spent \in Nat
    BY DEF IInv, TypeOK
  <2> QED
    BY <2>2, <2>3 DEF Overspent, Yield, SatSub
<1> QED
  BY <1>1, <1>2, <1>3, <1>4, <1>5, <1>6, <1>7 DEF Kept, FeeOwnerGets, RecipientGets

\* Nothing is withheld of wSOL.
LEMMA NativeArrives == \A s \in Sides, n \in Nat : s = native => Arrives(s, n) = n
  BY DEF Arrives, Withheld

LEMMA AmountsKept ==
  ASSUME UNCHANGED <<native, call, delta, spent, out, dust, feeDue>>
  PROVE  /\ \A s \in Sides : /\ Kept(s)' = Kept(s) /\ Settled(s)' = Settled(s)
                             /\ FeePaid(s)' = FeePaid(s) /\ DustPaid(s)' = DustPaid(s)
                             /\ Overspent(s)' = Overspent(s)
         /\ \A s \in Sides, w \in Wallets : /\ TokenChange(w, s)' = TokenChange(w, s)
                                            /\ SolChange(w, s)' = SolChange(w, s)
                                            /\ FinalGain(w, s)' = FinalGain(w, s)
<1>1. \A s \in Sides : /\ Yield(s)' = Yield(s) /\ FeePaid(s)' = FeePaid(s)
                       /\ DustPaid(s)' = DustPaid(s)
                       /\ Overspent(s)' = Overspent(s)
  BY DEF Yield, FeePaid, DustPaid, Overspent, Input, Target
<1>2. \A s \in Sides : /\ Kept(s)' = Kept(s) /\ Settled(s)' = Settled(s)
                       /\ Advanced(s)' = Advanced(s)
                       /\ FeeOwnerGets(s)' = FeeOwnerGets(s)
  BY <1>1 DEF Kept, PaidInTokens, Settled, Advanced, FeeOwnerGets, Arrives, Withheld
<1>3. \A s \in Sides : RecipientGets(s)' = RecipientGets(s)
  BY <1>2 DEF RecipientGets, Arrives, Withheld
<1> QED
  BY <1>1, <1>2, <1>3 DEF TokenChange, SolChange, FinalGain

\* Before the fee and the dust are known, all of the yield is in the transit account.
LEMMA NothingPaid ==
  ASSUME IInv, NEW s \in Sides, feeDue = Zero, dust = 0
  PROVE  /\ FeePaid(s) = 0 /\ DustPaid(s) = 0 /\ Kept(s) = Yield(s)
         /\ \A w \in Wallets :
              /\ TokenChange(w, s) = IF w = Signer THEN Yield(s) - Overspent(s) ELSE 0
              /\ SolChange(w, s) = 0
<1>1. FeePaid(s) = 0 /\ DustPaid(s) = 0
  BY ZeroType DEF FeePaid, DustPaid
<1>2. Yield(s) \in Nat /\ Overspent(s) \in Nat
  BY YieldType DEF IInv
<1>3. FeeOwnerGets(s) = 0
  BY <1>1, ArrivesZero DEF FeeOwnerGets
<1>4. Kept(s) = Yield(s)
  BY <1>1, <1>2 DEF Kept, PaidInTokens
<1> QED
  BY <1>1, <1>2, <1>3, <1>4 DEF TokenChange, SolChange

LEMMA GetsPrimed ==
  ASSUME UNCHANGED native, NEW s \in Sides
  PROVE  FeeOwnerGets(s)' = Arrives(s, FeePaid(s)') + Arrives(s, DustPaid(s)')
  BY DEF FeeOwnerGets, Arrives, Withheld

LEMMA NothingPaidNext ==
  ASSUME IInv', UNCHANGED native, NEW s \in Sides, feeDue' = Zero, dust' = 0
  PROVE  \A w \in Wallets :
           /\ TokenChange(w, s)' = IF w = Signer THEN Yield(s)' - Overspent(s)' ELSE 0
           /\ SolChange(w, s)' = 0
<1>1. FeePaid(s)' = 0 /\ DustPaid(s)' = 0
  BY ZeroType DEF FeePaid, DustPaid
<1>2. Yield(s)' \in Nat /\ Overspent(s)' \in Nat
  BY DEF IInv, TypeOK, Yield, Overspent, SatSub
<1>3. FeeOwnerGets(s)' = 0
  BY <1>1, ArrivesZero, GetsPrimed
<1>4. Kept(s)' = Yield(s)'
  BY <1>1, <1>2 DEF Kept, PaidInTokens
<1> QED
  BY <1>1, <1>2, <1>3, <1>4 DEF TokenChange, SolChange

LEMMA LedgerBegin ==
  ASSUME IInv, FlowInv, NEW c \in Calls, Begin(c)
  PROVE  LedgerInv'
<1>1. /\ pc = "idle" /\ pc' = "cpi" /\ before' = tok[Signer]
      /\ saved' = [tok |-> tok, sol |-> sol, acct |-> acct]
      /\ \A s \in Sides : acct[s].live
      /\ tok' = tok /\ sol' = sol /\ acct' = acct /\ native' = native
      /\ UNCHANGED <<delta, spent, out, dust, feeDue>>
  BY DEF Begin, Submit, ledger
<1>2. IInv'
  BY BeginIInv
<1>3. delta' = Zero /\ spent' = 0 /\ out' = 0 /\ dust' = 0 /\ feeDue' = Zero
  BY <1>1 DEF FlowInv, NotYet
<1>4. \A s \in Sides : Yield(s)' = 0 /\ Overspent(s)' = 0
  BY <1>3, ZeroType DEF Yield, Overspent, SatSub
<1>5. \A s \in Sides, w \in Wallets : TokenChange(w, s)' = 0 /\ SolChange(w, s)' = 0
  BY <1>1, <1>2, <1>3, <1>4, NothingPaidNext
<1>6. \A s \in Sides, w \in Wallets : tok[w][s] \in Nat /\ sol[w] \in Nat
  BY DEF IInv, TypeOK
<1>7. \A s \in Sides : OpenLedger(s)' /\ ~Processed(s)'
  BY <1>1, <1>5, <1>6 DEF OpenLedger, Processed
<1> QED
  BY <1>1, <1>7 DEF LedgerInv

\* The steps before the settlement keep the accounts and what was saved.
LEMMA OpenNext ==
  ASSUME LedgerInv, pc # "idle", pc' \in {"convert", "charge", "tally"},
         UNCHANGED <<acct, native, saved, before>>,
         \A s \in Sides, w \in Wallets :
           /\ tok'[w][s] = saved.tok[w][s] + TokenChange(w, s)'
           /\ s = native => sol'[w] = saved.sol[w] + SolChange(w, s)',
         \A s \in Sides : ~Processed(s)
  PROVE  LedgerInv'
<1>1. before' = saved'.tok[Signer] /\ \A s \in Sides : saved'.acct[s].live
  BY DEF LedgerInv
<1>2. \A s \in Sides : acct'[s] = saved'.acct[s]
  BY DEF LedgerInv, OpenLedger
<1>3. \A s \in Sides : OpenLedger(s)' /\ ~Processed(s)'
  BY <1>2 DEF OpenLedger, Processed
<1> QED
  BY <1>1, <1>3 DEF LedgerInv

\* The ledger in the steps before the settlement.
LEMMA OpenFacts ==
  ASSUME IInv, LedgerInv, pc \in {"cpi", "convert", "charge", "tally"}
  PROVE  /\ before = saved.tok[Signer]
         /\ \A s \in Sides :
              /\ ~Processed(s) /\ saved.acct[s].live /\ acct[s] = saved.acct[s]
              /\ \A w \in Wallets :
                   /\ tok[w][s] = saved.tok[w][s] + TokenChange(w, s)
                   /\ s = native => sol[w] = saved.sol[w] + SolChange(w, s)
         /\ \A s \in Sides, w \in Wallets :
              /\ tok[w][s] \in Nat /\ saved.tok[w][s] \in Nat
              /\ sol[w] \in Nat /\ saved.sol[w] \in Nat
<1>1. \A s \in Sides : ~Processed(s)
  BY DEF Processed
<1>2. \A s \in Sides, w \in Wallets :
              /\ tok[w][s] \in Nat /\ saved.tok[w][s] \in Nat
              /\ sol[w] \in Nat /\ saved.sol[w] \in Nat
  BY DEF IInv, TypeOK
<1> QED
  BY <1>1, <1>2 DEF LedgerInv, OpenLedger

LEMMA LedgerCpi ==
  ASSUME IInv, FlowInv, LedgerInv, NEW p \in Payouts, DecreaseCpi(p), pc' # "idle"
  PROVE  LedgerInv'
<1>1. IInv'
  BY DecreaseCpiIInv
<1>2. /\ delta = Zero /\ feeDue = Zero /\ dust = 0 /\ spent = 0 /\ out = 0
      /\ feeDue' = Zero /\ dust' = 0 /\ spent' = 0 /\ out' = 0 /\ native' = native
  BY CpiAmounts DEF FlowInv, NotYet
<1>3. \A s \in Sides : /\ Yield(s) = 0 /\ Yield(s)' = delta'[s] /\ delta'[s] \in Nat
                       /\ Overspent(s) = 0 /\ Overspent(s)' = 0
  BY <1>2, CpiAmounts, ZeroType DEF Yield, Overspent, SatSub
<1>4. \A s \in Sides, w \in Wallets :
        /\ TokenChange(w, s) = 0 /\ SolChange(w, s) = 0
        /\ TokenChange(w, s)' = IF w = Signer THEN delta'[s] ELSE 0
        /\ SolChange(w, s)' = 0
  BY <1>1, <1>2, <1>3, NothingPaid, NothingPaidNext
<1>5. tok \in [Wallets -> [Sides -> Nat]] /\ Signer \in Wallets
  BY DecreaseAssumption DEF IInv, TypeOK
<1>6. \A s \in Sides, w \in Wallets :
        tok'[w][s] = IF w = Signer THEN before[s] + delta'[s] ELSE tok[w][s]
  BY <1>5, CpiAmounts
<1>7. \A s \in Sides, w \in Wallets :
        /\ tok'[w][s] = saved.tok[w][s] + TokenChange(w, s)'
        /\ s = native => sol'[w] = saved.sol[w] + SolChange(w, s)'
  BY <1>3, <1>4, <1>6, CpiAmounts, OpenFacts
<1> QED
  BY <1>7, CpiAmounts, OpenFacts, OpenNext

LEMMA LedgerNothing ==
  ASSUME IInv, LedgerInv, ConvertNothing
  PROVE  LedgerInv'
<1>1. pc = "convert" /\ pc' = "charge"
      /\ UNCHANGED <<tok, sol, acct, native, saved, call, before, delta, spent, out, dust,
                     feeDue>>
  BY DEF ConvertNothing, ledger, locals
<1>2. \A s \in Sides, w \in Wallets :
        /\ tok'[w][s] = saved.tok[w][s] + TokenChange(w, s)'
        /\ s = native => sol'[w] = saved.sol[w] + SolChange(w, s)'
  BY <1>1, AmountsKept, OpenFacts
<1> QED
  BY <1>1, <1>2, OpenFacts, OpenNext

LEMMA LedgerSwap ==
  ASSUME IInv, FlowInv, LedgerInv, NEW received \in SwapOuts, NEW unspent \in SwapRests,
         ConvertSwap(received, unspent)
  PROVE  LedgerInv'
<1>1. IInv'
  BY ConvertSwapIInv
<1>2. /\ feeDue = Zero /\ dust = 0 /\ spent = 0 /\ out = 0
      /\ feeDue' = Zero /\ dust' = 0 /\ native' = native
  BY SwapAmounts DEF FlowInv, NotYet
<1>3. Target \in Sides /\ Input \in Sides /\ Target # Input /\ Signer \in Wallets
      /\ delta \in [Sides -> Nat] /\ tok \in [Wallets -> [Sides -> Nat]]
  BY SwapAmounts, CallFacts DEF IInv, TypeOK
<1>4. Input' = Input /\ Target' = Target
  BY SwapAmounts DEF Input, Target
<1>5. \A s \in Sides :
        /\ s = Input \/ s = Target
        /\ Yield(s) = delta[s] /\ delta[s] \in Nat /\ Overspent(s) = 0
        /\ Yield(s)' - Overspent(s)' =
             IF s = Target THEN delta[s] + out' ELSE delta[s] - spent'
  BY <1>2, <1>3, <1>4, SwapAmounts DEF Yield, Overspent, SatSub, Sides
<1>6. \A s \in Sides, w \in Wallets :
        /\ TokenChange(w, s) = IF w = Signer THEN Yield(s) ELSE 0
        /\ TokenChange(w, s)' = IF w = Signer THEN Yield(s)' - Overspent(s)' ELSE 0
        /\ SolChange(w, s) = 0 /\ SolChange(w, s)' = 0
  BY <1>1, <1>2, <1>5, NothingPaid, NothingPaidNext
<1>7. \A s \in Sides, w \in Wallets :
        tok'[w][s] = IF w # Signer THEN tok[w][s]
                     ELSE IF s = Target THEN tok[w][s] + out' ELSE tok[w][s] - spent'
  BY <1>3, <1>5, SwapAmounts
<1>8. \A s \in Sides, w \in Wallets :
        /\ tok'[w][s] = saved.tok[w][s] + TokenChange(w, s)'
        /\ s = native => sol'[w] = saved.sol[w] + SolChange(w, s)'
  BY <1>5, <1>6, <1>7, SwapAmounts, OpenFacts
<1> QED
  BY <1>8, SwapAmounts, OpenFacts, OpenNext

LEMMA LedgerDust ==
  ASSUME IInv, FlowInv, LedgerInv, ConvertDust, pc' # "idle"
  PROVE  LedgerInv'
<1>1. ~(native = Input /\ sol[Signer] < TotalIn)
  BY DEF ConvertDust, Abort
<1>2. /\ pc = "convert" /\ pc' = "charge" /\ dust' = TotalIn
      /\ IF native = Input
         THEN sol' = MoveSol(sol, Signer, call.feeOwner, TotalIn) /\ tok' = tok
         ELSE tok' = SendToken(tok, call.feeOwner, Input, TotalIn) /\ sol' = sol
      /\ UNCHANGED <<acct, native, saved, call, before, delta, spent, out, feeDue>>
  BY <1>1 DEF ConvertDust
<1>3. feeDue = Zero /\ dust = 0 /\ spent = 0 /\ out = 0 /\ call.convert
  BY <1>2 DEF FlowInv, NotYet, IInv, StepInv, AtConvert
<1>4. /\ Target \in Sides /\ Input \in Sides /\ Target # Input /\ Signer \in Wallets
      /\ call.feeOwner \in Wallets /\ TotalIn \in Nat /\ TotalIn = delta[Input]
      /\ delta \in [Sides -> Nat] /\ tok \in [Wallets -> [Sides -> Nat]]
      /\ sol \in [Wallets -> Nat]
  BY <1>2, CallFacts, TotalInIsDelta DEF IInv, TypeOK
<1>5. Input' = Input /\ Target' = Target
  BY <1>2 DEF Input, Target
<1>6. \A s \in Sides : /\ Yield(s) = delta[s] /\ Yield(s)' = delta[s] /\ delta[s] \in Nat
                       /\ Overspent(s) = 0 /\ Overspent(s)' = 0
  BY <1>2, <1>3, <1>4, <1>5 DEF Yield, Overspent, SatSub
<1>7. \A s \in Sides :
        /\ FeePaid(s)' = 0
        /\ DustPaid(s)' = IF s = Input /\ call.feeOwner # Signer THEN TotalIn ELSE 0
  BY <1>2, <1>3, <1>5, ZeroType DEF FeePaid, DustPaid
<1>8. \A s \in Sides, w \in Wallets :
        /\ TokenChange(w, s) = IF w = Signer THEN delta[s] ELSE 0
        /\ SolChange(w, s) = 0
  BY <1>3, <1>6, NothingPaid
<1>9. \A s \in Sides :
        /\ FeeOwnerGets(s)' = Arrives(s, DustPaid(s)')
        /\ DustPaid(s)' \in Nat
        /\ Arrives(s, DustPaid(s)') \in Nat
  <2> TAKE s \in Sides
  <2>1. DustPaid(s)' \in Nat
    BY <1>4, <1>7
  <2>2. FeeOwnerGets(s)' = Arrives(s, 0) + Arrives(s, DustPaid(s)')
    BY <1>2, <1>7, GetsPrimed
  <2> QED
    BY <2>1, <2>2, ArrivesZero, ArrivesBound
<1>10. \A s \in Sides, w \in Wallets :
        /\ TokenChange(w, s)' =
             (IF w = Signer THEN delta[s] - (IF s = native THEN 0 ELSE DustPaid(s)') ELSE 0)
               + (IF w = call.feeOwner /\ s # native THEN Arrives(s, DustPaid(s)') ELSE 0)
        /\ SolChange(w, s)' = (IF w = call.feeOwner THEN DustPaid(s)' ELSE 0)
                                - (IF w = Signer THEN DustPaid(s)' ELSE 0)
  BY <1>2, <1>6, <1>7, <1>9 DEF TokenChange, SolChange, Kept, PaidInTokens
<1>11. \A s \in Sides, w \in Wallets :
        tok'[w][s] = IF s # Input \/ s = native \/ call.feeOwner = Signer THEN tok[w][s]
                     ELSE IF w = Signer THEN tok[w][s] - TotalIn
                     ELSE IF w = call.feeOwner THEN tok[w][s] + Arrives(s, TotalIn)
                     ELSE tok[w][s]
  <2>1. CASE native = Input
    BY <1>2, <2>1
  <2>2. CASE native # Input
    <3> TAKE s \in Sides, w \in Wallets
    <3>1. tok' = SendToken(tok, call.feeOwner, Input, TotalIn)
      BY <1>2, <2>2
    <3>2. SendToken(tok, call.feeOwner, Input, TotalIn)[w][s] =
            IF s # Input \/ call.feeOwner = Signer THEN tok[w][s]
            ELSE IF w = Signer THEN tok[w][s] - TotalIn
            ELSE IF w = call.feeOwner THEN tok[w][s] + Arrives(Input, TotalIn)
            ELSE tok[w][s]
      <4> HIDE <3>1
      <4>1. /\ tok \in [Wallets -> [Sides -> Nat]] /\ call.feeOwner \in Wallets
            /\ Input \in Sides /\ TotalIn \in Nat
        BY <1>4
      <4> QED
        BY <4>1, SendTokenExact
    <3> QED
      BY <2>2, <3>1, <3>2
  <2> QED
    BY <2>1, <2>2
<1>12. \A s \in Sides, w \in Wallets :
        s = native =>
          sol'[w] = IF s # Input \/ call.feeOwner = Signer THEN sol[w]
                    ELSE sol[w] - (IF w = Signer THEN TotalIn ELSE 0)
                                + (IF w = call.feeOwner THEN TotalIn ELSE 0)
  <2>1. CASE native = Input
    BY <1>2, <1>4, <2>1, MoveSolExact
  <2>2. CASE native # Input
    BY <1>2, <1>4, <2>2
  <2> QED
    BY <2>1, <2>2
<1>13. \A s \in Sides, w \in Wallets :
        /\ tok'[w][s] = saved.tok[w][s] + TokenChange(w, s)'
        /\ s = native => sol'[w] = saved.sol[w] + SolChange(w, s)'
  <2> TAKE s \in Sides, w \in Wallets
  <2>1. /\ tok[w][s] = saved.tok[w][s] + (IF w = Signer THEN delta[s] ELSE 0)
        /\ s = native => sol[w] = saved.sol[w]
        /\ tok[w][s] \in Nat /\ saved.tok[w][s] \in Nat
        /\ sol[w] \in Nat /\ saved.sol[w] \in Nat
    BY <1>2, <1>8, OpenFacts
  <2>2. tok'[w][s] = saved.tok[w][s] + TokenChange(w, s)'
    <3>1. delta[s] \in Nat /\ DustPaid(s)' \in Nat /\ Arrives(s, DustPaid(s)') \in Nat
          /\ TotalIn \in Nat
      BY <1>4, <1>6, <1>9
    <3>2. CASE s = native
      BY <1>10, <1>11, <2>1, <3>1, <3>2
    <3>3. CASE s # native /\ (s # Input \/ call.feeOwner = Signer)
      <4>1. DustPaid(s)' = 0 /\ Arrives(s, DustPaid(s)') = 0
        BY <1>7, <3>3, ArrivesZero
      <4>2. tok'[w][s] = tok[w][s]
        BY <1>11, <3>3
      <4>3. TokenChange(w, s)' = IF w = Signer THEN delta[s] ELSE 0
        BY <1>10, <3>1, <4>1
      <4> QED
        BY <2>1, <4>2, <4>3
    <3>4. CASE s # native /\ s = Input /\ call.feeOwner # Signer
      <4>1. DustPaid(s)' = TotalIn
        BY <1>7, <3>4
      <4>2. tok'[w][s] = IF w = Signer THEN tok[w][s] - TotalIn
                         ELSE IF w = call.feeOwner THEN tok[w][s] + Arrives(s, TotalIn)
                         ELSE tok[w][s]
        BY <1>11, <3>4
      <4>3. TokenChange(w, s)' = IF w = Signer THEN delta[s] - TotalIn
                                 ELSE IF w = call.feeOwner THEN Arrives(s, TotalIn) ELSE 0
        BY <1>10, <3>1, <3>4, <4>1
      <4> QED
        BY <2>1, <3>1, <4>1, <4>2, <4>3
    <3> QED
      BY <3>2, <3>3, <3>4
  <2>3. s = native => sol'[w] = saved.sol[w] + SolChange(w, s)'
    BY <1>4, <1>7, <1>10, <1>12, <2>1
  <2> QED
    BY <2>2, <2>3
<1> QED
  BY <1>2, <1>13, OpenFacts, OpenNext

\* The token fees, by wallet and side.
LEMMA PayTokenFeesExact ==
  ASSUME IInv, pc # "idle", NEW fee \in [Sides -> Nat],
         \A s \in Sides : s # native => fee[s] <= tok[Signer][s],
         NEW w \in Wallets, NEW s \in Sides
  PROVE  PayTokenFees(fee)[w][s] =
           IF s = native \/ call.feeOwner = Signer THEN tok[w][s]
           ELSE IF w = Signer THEN tok[w][s] - fee[s]
           ELSE IF w = call.feeOwner THEN tok[w][s] + Arrives(s, fee[s]) ELSE tok[w][s]
<1> DEFINE after0 == IF native = 0 THEN tok
                     ELSE SendToken(tok, call.feeOwner, 0, fee[0])
<1>1. /\ tok \in [Wallets -> [Sides -> Nat]] /\ call.feeOwner \in Wallets
      /\ 0 \in Sides /\ 1 \in Sides /\ s \in {0, 1}
      /\ fee[0] \in Nat /\ fee[1] \in Nat
      /\ native # 0 => fee[0] <= tok[Signer][0]
  BY CallFacts DEF IInv, TypeOK, Sides
<1>2. /\ after0 \in [Wallets -> [Sides -> Nat]]
      /\ after0[w][s] =
           IF s # 0 \/ native = 0 \/ call.feeOwner = Signer THEN tok[w][s]
           ELSE IF w = Signer THEN tok[w][s] - fee[0]
           ELSE IF w = call.feeOwner THEN tok[w][s] + Arrives(0, fee[0]) ELSE tok[w][s]
  <2>1. CASE native = 0
    BY <1>1, <2>1
  <2>2. CASE native # 0
    <3>1. SendToken(tok, call.feeOwner, 0, fee[0]) \in [Wallets -> [Sides -> Nat]]
      BY <1>1, <2>2, SendTokenType
    <3>2. SendToken(tok, call.feeOwner, 0, fee[0])[w][s] =
            IF s # 0 \/ call.feeOwner = Signer THEN tok[w][s]
            ELSE IF w = Signer THEN tok[w][s] - fee[0]
            ELSE IF w = call.feeOwner THEN tok[w][s] + Arrives(0, fee[0]) ELSE tok[w][s]
      <4> DEFINE to == call.feeOwner
                 n == fee[0]
      <4>1. /\ tok \in [Wallets -> [Sides -> Nat]] /\ to \in Wallets
            /\ 0 \in Sides /\ n \in Nat
        BY <1>1
      <4> HIDE DEF to, n
      <4>2. SendToken(tok, to, 0, n)[w][s] =
              IF s # 0 \/ to = Signer THEN tok[w][s]
              ELSE IF w = Signer THEN tok[w][s] - n
              ELSE IF w = to THEN tok[w][s] + Arrives(0, n) ELSE tok[w][s]
        BY <4>1, SendTokenExact
      <4> QED
        BY <4>2 DEF to, n
    <3> QED
      BY <2>2, <3>1, <3>2
  <2> QED
    BY <2>1, <2>2
<1> HIDE DEF after0
<1>3. PayTokenFees(fee) = IF native = 1 THEN after0
                          ELSE SendToken(after0, call.feeOwner, 1, fee[1])
  BY DEF PayTokenFees, after0
<1>4. CASE native = 1
  BY <1>1, <1>2, <1>3, <1>4
<1>5. CASE native # 1
  <2>1. PayTokenFees(fee) = SendToken(after0, call.feeOwner, 1, fee[1])
    BY <1>3, <1>5
  <2>2. SendToken(after0, call.feeOwner, 1, fee[1])[w][s] =
            IF s # 1 \/ call.feeOwner = Signer THEN after0[w][s]
            ELSE IF w = Signer THEN after0[w][s] - fee[1]
            ELSE IF w = call.feeOwner THEN after0[w][s] + Arrives(1, fee[1])
            ELSE after0[w][s]
    <3> HIDE <1>3, <2>1
    <3>1. /\ after0 \in [Wallets -> [Sides -> Nat]] /\ call.feeOwner \in Wallets
          /\ 1 \in Sides /\ fee[1] \in Nat
      BY <1>1, <1>2
    <3> QED
      BY <3>1, DecreaseAssumption DEF SendToken
  <2>3. CASE s = 0
    BY <1>2, <1>5, <2>1, <2>2, <2>3
  <2>4. CASE s = 1
    BY <1>2, <1>5, <2>1, <2>2, <2>4
  <2> QED
    BY <1>1, <2>3, <2>4
<1> QED
  BY <1>4, <1>5

LEMMA LedgerCharge ==
  ASSUME IInv, FlowInv, LedgerInv, Charge, pc' # "idle"
  PROVE  LedgerInv'
<1>1. IInv' /\ FlowInv'
  BY ChargeIInv, FlowCharge
<1>2. /\ pc = "charge" /\ pc' = "tally" /\ feeDue' \in [Sides -> Nat]
      /\ UNCHANGED <<sol, acct, native, saved, call, before, delta, out, spent, dust>>
  BY ChargeAmounts
<1>3. call.feeOwner \in Wallets
  BY <1>2, CallFacts
<1>4. \A s \in Sides :
        /\ FeePaid(s) = 0
        /\ FeePaid(s)' = IF call.feeOwner = Signer /\ s # native THEN 0 ELSE feeDue'[s]
        /\ DustPaid(s)' = DustPaid(s) /\ Yield(s)' = Yield(s)
        /\ Overspent(s)' = Overspent(s)
  BY <1>2, ZeroType
  DEF FeePaid, DustPaid, Yield, Overspent, Input, Target, FlowInv, NotYet
<1>5. \A s \in Sides :
        /\ Yield(s) \in Nat /\ DustPaid(s) \in Nat /\ feeDue'[s] \in Nat
        /\ Overspent(s) \in Nat
        /\ Arrives(s, DustPaid(s)) \in Nat /\ Arrives(s, feeDue'[s]) \in Nat
  BY <1>2, LedgerTypes, ArrivesBound
<1>6. \A s \in Sides :
        /\ FeeOwnerGets(s) = Arrives(s, DustPaid(s))
        /\ FeeOwnerGets(s)' = Arrives(s, FeePaid(s)') + Arrives(s, DustPaid(s))
        /\ call.feeOwner = Signer => DustPaid(s) = 0
  <2> TAKE s \in Sides
  <2>1. FeeOwnerGets(s) = Arrives(s, 0) + Arrives(s, DustPaid(s))
    BY <1>4 DEF FeeOwnerGets
  <2>2. FeeOwnerGets(s)' = Arrives(s, FeePaid(s)') + Arrives(s, DustPaid(s)')
    BY <1>2, GetsPrimed
  <2> QED
    BY <1>4, <1>5, <2>1, <2>2, ArrivesZero DEF DustPaid
<1>7. \A s \in Sides, w \in Wallets :
        /\ TokenChange(w, s) =
             (IF w = Signer
              THEN Yield(s) - (IF s = native THEN 0 ELSE DustPaid(s)) - Overspent(s) ELSE 0)
               + (IF w = call.feeOwner /\ s # native THEN Arrives(s, DustPaid(s)) ELSE 0)
        /\ TokenChange(w, s)' =
             (IF w = Signer
              THEN Yield(s) - (IF s = native THEN 0 ELSE FeePaid(s)' + DustPaid(s))
                     - Overspent(s) ELSE 0)
               + (IF w = call.feeOwner /\ s # native THEN FeeOwnerGets(s)' ELSE 0)
        /\ SolChange(w, s)' = SolChange(w, s)
  BY <1>2, <1>4, <1>5, <1>6 DEF TokenChange, SolChange, Kept, PaidInTokens
<1>8. \A s \in Sides, w \in Wallets :
        tok'[w][s] = IF s = native \/ call.feeOwner = Signer THEN tok[w][s]
                     ELSE IF w = Signer THEN tok[w][s] - feeDue'[s]
                     ELSE IF w = call.feeOwner THEN tok[w][s] + Arrives(s, feeDue'[s])
                     ELSE tok[w][s]
  <2>1. /\ tok' = PayTokenFees(feeDue') /\ pc # "idle"
        /\ \A s \in Sides : s # native => feeDue'[s] <= tok[Signer][s]
    BY <1>2, ChargeAmounts
  <2> QED
    BY <1>2, <2>1, PayTokenFeesExact
<1>9. \A s \in Sides, w \in Wallets :
        /\ tok'[w][s] = saved.tok[w][s] + TokenChange(w, s)'
        /\ s = native => sol'[w] = saved.sol[w] + SolChange(w, s)'
  <2> TAKE s \in Sides, w \in Wallets
  <2>1. /\ tok[w][s] = saved.tok[w][s] + TokenChange(w, s)
        /\ s = native => sol[w] = saved.sol[w] + SolChange(w, s)
        /\ tok[w][s] \in Nat /\ saved.tok[w][s] \in Nat
    BY <1>2, OpenFacts
  <2>2. CASE s = native
    BY <1>2, <1>5, <1>7, <1>8, <2>1, <2>2
  <2>3. CASE s # native /\ call.feeOwner = Signer
    <3>1. FeePaid(s)' = 0 /\ DustPaid(s) = 0 /\ FeeOwnerGets(s)' = 0
      BY <1>4, <1>6, <2>3, ArrivesZero
    <3>2. TokenChange(w, s)' = TokenChange(w, s)
      BY <1>5, <1>7, <2>3, <3>1, ArrivesZero
    <3> QED
      BY <1>8, <2>1, <2>3, <3>2
  <2>4. CASE s # native /\ call.feeOwner # Signer
    <3>1. FeePaid(s)' = feeDue'[s]
          /\ FeeOwnerGets(s)' = Arrives(s, feeDue'[s]) + Arrives(s, DustPaid(s))
      BY <1>4, <1>6, <2>4
    <3>2. tok'[w][s] = IF w = Signer THEN tok[w][s] - feeDue'[s]
                       ELSE IF w = call.feeOwner THEN tok[w][s] + Arrives(s, feeDue'[s])
                       ELSE tok[w][s]
      BY <1>8, <2>4
    <3>3. TokenChange(w, s) = IF w = Signer THEN Yield(s) - DustPaid(s) - Overspent(s)
                              ELSE IF w = call.feeOwner THEN Arrives(s, DustPaid(s)) ELSE 0
      BY <1>5, <1>7, <2>4
    <3>4. TokenChange(w, s)' =
            IF w = Signer THEN Yield(s) - (feeDue'[s] + DustPaid(s)) - Overspent(s)
            ELSE IF w = call.feeOwner
                 THEN Arrives(s, feeDue'[s]) + Arrives(s, DustPaid(s)) ELSE 0
      BY <1>5, <1>7, <2>4, <3>1
    <3> QED
      BY <1>5, <2>1, <2>4, <3>2, <3>3, <3>4
  <2> QED
    BY <2>2, <2>3, <2>4
<1> QED
  BY <1>2, <1>9, OpenFacts, OpenNext

\* The signer's transit account grows by what is kept in it, or shrinks by what the
\* conversion took beyond the yield.
LEMMA SignerChange ==
  ASSUME IInv, FlowInv, NEW s \in Sides
  PROVE  TokenChange(Signer, s) = Kept(s) - Overspent(s)
<1>1. Kept(s) \in Nat /\ Overspent(s) \in Nat
  BY LedgerTypes
<1>2. CASE call.feeOwner = Signer /\ s # native
  <2>1. FeePaid(s) = 0 /\ DustPaid(s) = 0
    BY <1>2 DEF FeePaid, DustPaid
  <2>2. FeeOwnerGets(s) = 0
    BY <2>1, ArrivesZero DEF FeeOwnerGets
  <2> QED
    BY <1>1, <2>2 DEF TokenChange
<1>3. CASE ~(call.feeOwner = Signer /\ s # native)
  BY <1>1, <1>3 DEF TokenChange
<1> QED
  BY <1>2, <1>3

LEMMA LedgerTally ==
  ASSUME IInv, FlowInv, LedgerInv, Tally
  PROVE  LedgerInv'
<1>1. /\ pc = "tally" /\ pc' = "settle0"
      /\ net' = [s \in Sides |-> SatSub(tok[Signer][s], before[s])]
      /\ UNCHANGED <<tok, sol, acct, native, saved, call, before, delta, spent, out, dust,
                     feeDue>>
  BY DEF Tally, ledger
<1>2. \A s \in Sides : net'[s] = Kept(s)
  <2> TAKE s \in Sides
  <2>1. /\ tok[Signer][s] = saved.tok[Signer][s] + (Kept(s) - Overspent(s))
        /\ before = saved.tok[Signer]
    BY <1>1, OpenFacts, SignerChange, DecreaseAssumption
  <2>2. /\ Kept(s) \in Nat /\ saved.tok[Signer][s] \in Nat /\ Overspent(s) \in Nat
        /\ Overspent(s) > 0 => Kept(s) = 0
    BY <1>1, OpenFacts, LedgerTypes, DecreaseAssumption DEF Kept
  <2> QED
    BY <1>1, <2>1, <2>2 DEF SatSub
<1>3. \A s \in Sides : ~Processed(s)'
  BY <1>1 DEF Processed
<1>4. \A s \in Sides : OpenLedger(s)'
  BY <1>1, <1>2, AmountsKept, OpenFacts DEF OpenLedger
<1> QED
  BY <1>1, <1>3, <1>4, OpenFacts DEF LedgerInv

(***************************************************************************)
(* The settlement of a side.                                               *)
(***************************************************************************)

\* What a wallet has gained on a side that is not settled yet.
LEMMA OpenGain ==
  ASSUME IInv, FlowInv, NEW s \in Sides, OpenLedger(s), NEW w \in Wallets
  PROVE  Gain(w, s) = TokenChange(w, s) + IF s = native THEN SolChange(w, s) ELSE 0
<1>1. /\ tok[w][s] \in Nat /\ saved.tok[w][s] \in Nat /\ sol[w] \in Nat
      /\ saved.sol[w] \in Nat /\ Rent \in Nat
  BY DecreaseAssumption DEF IInv, TypeOK
<1>2. /\ Kept(s) \in Nat /\ FeeOwnerGets(s) \in Nat /\ DustPaid(s) \in Nat
      /\ Overspent(s) \in Nat
  BY LedgerTypes
<1>3. TokenChange(w, s) \in Int /\ SolChange(w, s) \in Int
  BY <1>2 DEF TokenChange, SolChange
<1> QED
  BY <1>1, <1>3 DEF OpenLedger, Gain, Holding, HoldingOf

\* A side whose share stays where it is has its final distribution.
LEMMA NothingToSettle ==
  ASSUME IInv, FlowInv, NEW s \in Sides, OpenLedger(s),
         Kept(s) = 0 \/ (s # native /\ call.recipient = Signer)
  PROVE  SettledLedger(s)
<1> SUFFICES ASSUME NEW w \in Wallets PROVE Gain(w, s) = FinalGain(w, s)
  BY DEF SettledLedger
<1>1. /\ Yield(s) \in Nat /\ FeePaid(s) \in Nat /\ DustPaid(s) \in Nat
      /\ FeePaid(s) + DustPaid(s) <= Yield(s) /\ Kept(s) \in Nat
      /\ FeeOwnerGets(s) \in Nat /\ Overspent(s) \in Nat
  BY LedgerTypes
<1>2. CASE s # native
  <2>1. Advanced(s) = 0 /\ Settled(s) = Kept(s)
    BY <1>1, <1>2 DEF Advanced, Settled, Kept, PaidInTokens
  <2>2. RecipientGets(s) = IF call.recipient = Signer THEN Kept(s) ELSE 0
    BY <1>2, <2>1, ArrivesZero DEF RecipientGets
  <2>3. Gain(w, s) = TokenChange(w, s)
    BY <1>1, <1>2, OpenGain DEF TokenChange
  <2>4. Kept(s) = 0 \/ call.recipient = Signer
    OBVIOUS
  <2> QED
    BY <1>1, <1>2, <2>1, <2>2, <2>3, <2>4 DEF TokenChange, FinalGain
<1>3. CASE s = native
  <2>1. Yield(s) = 0 /\ FeePaid(s) = 0 /\ DustPaid(s) = 0
    BY <1>1, <1>3 DEF Kept, PaidInTokens
  <2>2. FeeOwnerGets(s) = 0 /\ Advanced(s) = 0 /\ Settled(s) = 0
    BY <2>1, ArrivesZero DEF FeeOwnerGets, Advanced, Settled
  <2>3. RecipientGets(s) = 0
    BY <2>2, ArrivesZero DEF RecipientGets
  <2>4. /\ TokenChange(w, s) = IF w = Signer THEN -Overspent(s) ELSE 0
        /\ SolChange(w, s) = 0
    BY <1>1, <1>3, <2>1 DEF TokenChange, SolChange, Kept, PaidInTokens
  <2> QED
    BY <1>1, <1>3, <2>2, <2>3, <2>4, OpenGain DEF FinalGain
<1> QED
  BY <1>2, <1>3

\* The step from one side to the next.
LEMMA SettleStep ==
  ASSUME IInv, FlowInv, LedgerInv, NEW s \in Sides, AtSettle(s), AfterSettle(s),
         UNCHANGED <<native, saved, call, locals>>,
         \A w \in Wallets, z \in Sides : z # s => tok'[w][z] = tok[w][z],
         \A z \in Sides : z # s => acct'[z] = acct[z],
         s # native => sol' = sol,
         SettledLedger(s)'
  PROVE  LedgerInv'
<1>1. UNCHANGED <<before, delta, spent, out, dust, feeDue, net>>
  BY DEF locals
<1>2. /\ pc \in {"settle0", "settle1"} /\ pc' \in {"settle1", "exit"}
      /\ s = 0 => pc = "settle0" /\ pc' = "settle1"
      /\ s = 1 => pc = "settle1" /\ pc' = "exit"
      /\ s \in {0, 1}
  BY DEF AtSettle, AfterSettle, Sides
<1>3. /\ before = saved.tok[Signer]
      /\ \A z \in Sides : /\ saved.acct[z].live
                          /\ IF Processed(z) THEN SettledLedger(z) ELSE OpenLedger(z)
  BY <1>2 DEF LedgerInv
<1>4. ASSUME NEW z \in Sides, z # s, Processed(z)
      PROVE  Processed(z)' /\ SettledLedger(z)'
  <2>1. Processed(z)' /\ SettledLedger(z)
    BY <1>2, <1>3, <1>4 DEF Processed
  <2>2. z # native => \A w \in Wallets : Gain(w, z)' = Gain(w, z)
    BY <1>4 DEF Gain, Holding, HoldingOf
  <2>3. z = native => \A w \in Wallets : Gain(w, z)' = Gain(w, z)
    BY <1>4 DEF Gain, Holding, HoldingOf
  <2> QED
    BY <1>1, <2>1, <2>2, <2>3, AmountsKept DEF SettledLedger
<1>5. ASSUME NEW z \in Sides, z # s, ~Processed(z)
      PROVE  ~Processed(z)' /\ OpenLedger(z)'
  <2>1. OpenLedger(z) /\ s = 0 /\ z = 1
    BY <1>2, <1>3, <1>5 DEF Processed, Sides
  <2>2. ~Processed(z)'
    BY <1>2, <2>1 DEF Processed
  <2>3. z = native => sol' = sol
    BY <1>5
  <2>4. \A w \in Wallets : tok'[w][z] = saved'.tok[w][z] + TokenChange(w, z)'
    BY <1>1, <1>5, <2>1, AmountsKept DEF OpenLedger
  <2>5. z = native' => \A w \in Wallets : sol'[w] = saved'.sol[w] + SolChange(w, z)'
    BY <1>1, <2>1, <2>3, AmountsKept DEF OpenLedger
  <2>6. acct'[z] = saved'.acct[z] /\ net'[z] = Kept(z)'
    BY <1>1, <1>2, <1>5, <2>1, AmountsKept DEF OpenLedger
  <2> QED
    BY <2>2, <2>4, <2>5, <2>6 DEF OpenLedger
<1>6. Processed(s)'
  BY <1>2 DEF Processed
<1>7. \A z \in Sides : IF Processed(z)' THEN SettledLedger(z)' ELSE OpenLedger(z)'
  <2> TAKE z \in Sides
  <2>1. CASE z = s
    BY <1>6, <2>1
  <2>2. CASE z # s
    BY <1>4, <1>5, <2>2
  <2> QED
    BY <2>1, <2>2
<1> QED
  BY <1>1, <1>3, <1>7 DEF LedgerInv

\* The side that is settled next.
LEMMA OpenSide ==
  ASSUME LedgerInv, NEW s \in Sides, AtSettle(s)
  PROVE  /\ pc \in {"settle0", "settle1"} /\ OpenLedger(s) /\ net[s] = Kept(s)
         /\ saved.acct[s].live /\ before = saved.tok[Signer]
<1>1. pc \in {"settle0", "settle1"} /\ ~Processed(s)
  BY DEF AtSettle, Processed, Sides
<1> QED
  BY <1>1 DEF LedgerInv, OpenLedger

LEMMA LedgerSettleNothing ==
  ASSUME IInv, FlowInv, LedgerInv, NEW s \in Sides, SettleNothing(s)
  PROVE  LedgerInv'
<1>1. /\ AtSettle(s) /\ AfterSettle(s)
      /\ net[s] = 0 \/ (s # native /\ call.recipient = Signer)
      /\ UNCHANGED <<tok, sol, acct, native, saved, call, locals>>
  BY DEF SettleNothing, ledger
<1>2. SettledLedger(s)
  BY <1>1, OpenSide, NothingToSettle
<1>3. SettledLedger(s)'
  <2>1. \A w \in Wallets : Gain(w, s)' = Gain(w, s)
    BY <1>1 DEF Gain, Holding, HoldingOf
  <2> QED
    BY <1>1, <1>2, <2>1, AmountsKept DEF SettledLedger, locals
<1> QED
  BY <1>1, <1>3, SettleStep

LEMMA LedgerSettleToken ==
  ASSUME IInv, FlowInv, LedgerInv, NEW s \in Sides, SettleToken(s)
  PROVE  LedgerInv'
<1>1. /\ AtSettle(s) /\ AfterSettle(s) /\ s # native /\ call.recipient # Signer
      /\ tok' = SendToken(tok, call.recipient, s, net[s])
      /\ UNCHANGED <<sol, acct, native, saved, call, locals>>
  BY DEF SettleToken
<1>2. OpenLedger(s) /\ net[s] = Kept(s) /\ Kept(s) \in Nat /\ Overspent(s) \in Nat
  BY <1>1, OpenSide, LedgerTypes
<1>3. /\ tok \in [Wallets -> [Sides -> Nat]] /\ call.recipient \in Wallets
      /\ net[s] \in Nat /\ net[s] <= tok[Signer][s] /\ Signer \in Wallets
  BY <1>1, SettleFacts
<1>4. \A w \in Wallets, z \in Sides : z # s => tok'[w][z] = tok[w][z]
  BY <1>1, <1>3, SendTokenType
<1>5. \A w \in Wallets :
        tok'[w][s] = tok[w][s] - (IF w = Signer THEN Kept(s) ELSE 0)
                               + (IF w = call.recipient THEN Arrives(s, Kept(s)) ELSE 0)
  BY <1>1, <1>2, <1>3, ArrivesBound DEF SendToken
<1>6. \A w \in Wallets :
        Gain(w, s)' = Gain(w, s) - (IF w = Signer THEN Kept(s) ELSE 0)
                                 + (IF w = call.recipient THEN Arrives(s, Kept(s)) ELSE 0)
  <2> TAKE w \in Wallets
  <2>1. Gain(w, s) = tok[w][s] - saved.tok[w][s]
        /\ Gain(w, s)' = tok'[w][s] - saved.tok[w][s]
    <3>1. tok[w][s] \in Nat /\ tok'[w][s] \in Nat /\ saved.tok[w][s] \in Nat
      BY SettleTokenIInv DEF IInv, TypeOK
    <3> QED
      BY <1>1, <3>1 DEF Gain, Holding, HoldingOf
  <2>2. tok[w][s] \in Nat /\ saved.tok[w][s] \in Nat /\ Arrives(s, Kept(s)) \in Nat
    BY <1>2, <1>3, ArrivesBound DEF IInv, TypeOK
  <2> QED
    BY <1>2, <1>5, <2>1, <2>2
<1>7. /\ Yield(s) \in Nat /\ FeePaid(s) \in Nat /\ DustPaid(s) \in Nat
      /\ FeeOwnerGets(s) \in Nat /\ Arrives(s, Kept(s)) \in Nat
  BY <1>2, LedgerTypes, ArrivesBound
<1>8. Advanced(s) = 0 /\ RecipientGets(s) = Arrives(s, Kept(s))
  <2>1. Settled(s) = Kept(s) /\ Advanced(s) = 0
    BY <1>1, <1>7 DEF Settled, Kept, PaidInTokens, Advanced
  <2> QED
    BY <1>1, <2>1 DEF RecipientGets
<1>9. \A w \in Wallets : Gain(w, s)' = FinalGain(w, s)
  <2> TAKE w \in Wallets
  <2>1. Gain(w, s) = (IF w = Signer THEN Kept(s) - Overspent(s) ELSE 0)
                       + (IF w = call.feeOwner THEN FeeOwnerGets(s) ELSE 0)
    BY <1>1, <1>2, <1>7, OpenGain DEF TokenChange
  <2> QED
    BY <1>2, <1>6, <1>7, <1>8, <2>1 DEF FinalGain
<1>10. SettledLedger(s)'
  BY <1>1, <1>9, AmountsKept DEF SettledLedger, locals
<1> QED
  BY <1>1, <1>4, <1>10, SettleStep

LEMMA LedgerSettleNative ==
  ASSUME IInv, FlowInv, LedgerInv, NEW s \in Sides, SettleNative(s), pc' # "idle"
  PROVE  LedgerInv'
<1> DEFINE unwrapped == CloseLamports(tok, sol, Signer, s, Rent)
           feePaid   == MoveSol(unwrapped, Signer, call.feeOwner, feeDue[s])
<1>1. ~(net[s] < feeDue[s]) /\ ~CloseRefused(acct[s])
  BY DEF SettleNative, Abort, Refuse
<1>2. /\ AtSettle(s) /\ AfterSettle(s) /\ s = native
      /\ tok' = CloseTokens(tok, Signer, s) /\ acct' = CloseAccount(acct, s)
      /\ sol' = MoveSol(feePaid, Signer, call.recipient, net[s] - feeDue[s])
      /\ UNCHANGED <<native, saved, call, locals>>
  BY <1>1 DEF SettleNative
<1>3. /\ OpenLedger(s) /\ net[s] = Kept(s) /\ saved.acct[s].live
      /\ before = saved.tok[Signer]
  BY <1>2, OpenSide DEF OpenLedger
<1>4. /\ tok \in [Wallets -> [Sides -> Nat]] /\ sol \in [Wallets -> Nat]
      /\ acct \in [Sides -> TransitType]
      /\ call.recipient \in Wallets /\ call.feeOwner \in Wallets /\ Signer \in Wallets
      /\ feeDue[s] \in Nat /\ net[s] \in Nat /\ feeDue[s] <= net[s]
      /\ Rent \in Nat
  BY <1>1, <1>2, SettleFacts, DecreaseAssumption
<1>5. /\ Yield(s) \in Nat /\ DustPaid(s) \in Nat /\ Kept(s) = Yield(s)
      /\ FeePaid(s) = feeDue[s] /\ Overspent(s) = 0
  <2>1. net[s] > 0
    BY DEF SettleNative
  <2> QED
    BY <1>2, <1>3, <2>1, LedgerTypes DEF Kept, PaidInTokens, FeePaid
<1>6. /\ unwrapped \in [Wallets -> Nat]
      /\ \A w \in Wallets :
           unwrapped[w] = sol[w] + (IF w = Signer THEN tok[Signer][s] + Rent ELSE 0)
  BY <1>4 DEF CloseLamports
<1>7. \A w \in Wallets :
        feePaid[w] = unwrapped[w] - (IF w = Signer THEN feeDue[s] ELSE 0)
                                  + (IF w = call.feeOwner THEN feeDue[s] ELSE 0)
  <2> HIDE DEF unwrapped
  <2> QED
    BY <1>4, <1>6, MoveSolExact, ZenonT(40)
<1>8. feePaid \in [Wallets -> Nat]
  <2>1. tok[Signer][s] \in Nat /\ net[s] <= tok[Signer][s]
    BY <1>2, <1>4, SettleFacts
  <2>2. feeDue[s] <= unwrapped[Signer]
    BY <1>4, <1>6, <2>1
  <2> HIDE DEF unwrapped
  <2> QED
    BY <1>4, <1>6, <2>2, MoveSolType
<1> HIDE DEF feePaid, unwrapped
<1>9. \A w \in Wallets :
        sol'[w] = feePaid[w] - (IF w = Signer THEN net[s] - feeDue[s] ELSE 0)
                             + (IF w = call.recipient THEN net[s] - feeDue[s] ELSE 0)
  <2>1. net[s] - feeDue[s] \in Nat
    BY <1>4
  <2> QED
    BY <1>2, <1>4, <1>8, <2>1 DEF MoveSol
<1>10. /\ \A w \in Wallets, z \in Sides : z # s => tok'[w][z] = tok[w][z]
       /\ \A w \in Wallets : tok'[w][s] = IF w = Signer THEN 0 ELSE tok[w][s]
       /\ \A z \in Sides : z # s => acct'[z] = acct[z]
       /\ ~acct'[s].live
  BY <1>2, <1>4 DEF CloseTokens, CloseAccount, TransitType
<1>11. \A w \in Wallets :
         /\ tok[w][s] \in Nat /\ sol[w] \in Nat /\ saved.tok[w][s] \in Nat
         /\ saved.sol[w] \in Nat
         /\ tok[w][s] = saved.tok[w][s] + TokenChange(w, s)
         /\ sol[w] = saved.sol[w] + SolChange(w, s)
         /\ TokenChange(w, s) = IF w = Signer THEN Yield(s) ELSE 0
  BY <1>2, <1>3, <1>4, <1>5 DEF IInv, TypeOK, OpenLedger, TokenChange
<1>12. /\ FeeOwnerGets(s) = feeDue[s] + DustPaid(s) /\ Advanced(s) = DustPaid(s)
       /\ RecipientGets(s) = Yield(s) - feeDue[s]
  <2>1. Settled(s) = Yield(s) - feeDue[s] /\ Settled(s) \in Nat
        /\ Advanced(s) = DustPaid(s)
    BY <1>2, <1>4, <1>5, LedgerTypes DEF Settled, Advanced
  <2> QED
    BY <1>2, <1>4, <1>5, <2>1, NativeArrives DEF FeeOwnerGets, RecipientGets
<1>13. ASSUME NEW w \in Wallets
       PROVE  Gain(w, s)' = FinalGain(w, s)
  <2>1. Gain(w, s)' =
          (IF w = Signer THEN 0 ELSE tok[w][s]) + sol'[w]
            - (saved.tok[w][s] + saved.sol[w] + (IF w = Signer THEN Rent ELSE 0))
    <3>1. sol'[w] \in Int
      BY <1>4, <1>8, <1>9
    <3> QED
      BY <1>2, <1>3, <1>4, <1>10, <1>11, <3>1 DEF Gain, Holding, HoldingOf
  <2>2. sol'[w] = saved.sol[w] + SolChange(w, s)
                  + (IF w = Signer THEN tok[Signer][s] + Rent ELSE 0)
                  - (IF w = Signer THEN feeDue[s] ELSE 0)
                  + (IF w = call.feeOwner THEN feeDue[s] ELSE 0)
                  - (IF w = Signer THEN Yield(s) - feeDue[s] ELSE 0)
                  + (IF w = call.recipient THEN Yield(s) - feeDue[s] ELSE 0)
    BY <1>3, <1>4, <1>5, <1>6, <1>7, <1>9, <1>11
  <2>3. SolChange(w, s) = (IF w = call.feeOwner THEN DustPaid(s) ELSE 0)
                            - (IF w = Signer THEN DustPaid(s) ELSE 0)
    BY DEF SolChange
  <2>4. FinalGain(w, s) = (IF w = call.recipient THEN Yield(s) - feeDue[s] ELSE 0)
                            + (IF w = call.feeOwner THEN feeDue[s] + DustPaid(s) ELSE 0)
                            - (IF w = Signer THEN DustPaid(s) ELSE 0)
    BY <1>5, <1>12 DEF FinalGain
  <2>5. CASE w = Signer
    <3>1. /\ tok[Signer][s] = saved.tok[Signer][s] + Yield(s)
          /\ saved.tok[Signer][s] \in Nat /\ saved.sol[Signer] \in Nat
      BY <1>11, <2>5
    <3>2. Gain(w, s)' = sol'[w] - (saved.tok[Signer][s] + saved.sol[Signer] + Rent)
      <4>1. sol'[w] \in Int
        BY <1>4, <1>8, <1>9
      <4> QED
        BY <1>4, <2>1, <2>5, <3>1, <4>1
    <3>3. sol'[w] = saved.sol[Signer] + (saved.tok[Signer][s] + Rent)
                    + (IF w = call.feeOwner THEN DustPaid(s) + feeDue[s] ELSE 0)
                    - DustPaid(s)
                    + (IF w = call.recipient THEN Yield(s) - feeDue[s] ELSE 0)
      <4>1. /\ DustPaid(s) \in Nat /\ Yield(s) \in Nat /\ feeDue[s] \in Nat
            /\ Rent \in Nat /\ feeDue[s] <= Yield(s)
        BY <1>3, <1>4, <1>5
      <4>2. SolChange(w, s) = (IF w = call.feeOwner THEN DustPaid(s) ELSE 0) - DustPaid(s)
        BY <2>3, <2>5
      <4>3. sol'[w] = saved.sol[Signer] + SolChange(w, s)
                        + (saved.tok[Signer][s] + Yield(s) + Rent) - feeDue[s]
                        + (IF w = call.feeOwner THEN feeDue[s] ELSE 0)
                        - (Yield(s) - feeDue[s])
                        + (IF w = call.recipient THEN Yield(s) - feeDue[s] ELSE 0)
        BY <2>2, <2>5, <3>1
      <4> QED
        BY <3>1, <4>1, <4>2, <4>3
    <3> QED
      BY <1>4, <1>5, <2>4, <2>5, <3>1, <3>2, <3>3
  <2>6. CASE w # Signer
    <3>1. /\ tok[w][s] = saved.tok[w][s] /\ saved.tok[w][s] \in Nat
          /\ saved.sol[w] \in Nat
      BY <1>11, <2>6
    <3>2. Gain(w, s)' = sol'[w] - saved.sol[w]
      <4>1. sol'[w] \in Int
        BY <1>4, <1>8, <1>9
      <4> QED
        BY <2>1, <2>6, <3>1, <4>1
    <3> QED
      BY <1>4, <1>5, <2>2, <2>3, <2>4, <2>6, <3>1, <3>2
  <2> QED
    BY <2>5, <2>6
<1>14. SettledLedger(s)'
  BY <1>2, <1>13, AmountsKept DEF SettledLedger, locals
<1> QED
  BY <1>2, <1>10, <1>14, SettleStep

(***************************************************************************)
(* The invariant.                                                          *)
(***************************************************************************)

\* A step of the handler commits, ends the call with nothing changed, or stays inside
\* the call.
LEMMA HandlerSteps ==
  ASSUME Handler
  PROVE  \/ Commit
         \/ Return
         \/ /\ pc \notin {"idle", "done"} /\ pc' \notin {"idle", "done"}
            /\ UNCHANGED <<native, saved>>
         \/ /\ pc \notin {"idle", "done"} /\ pc' = "idle"
            /\ tok' = saved.tok /\ sol' = saved.sol /\ acct' = saved.acct
            /\ UNCHANGED native
<1> USE DEF Abort, Refuse
<1>1. CASE \E p \in Payouts : DecreaseCpi(p) \/ PrincipalFails(p)
  <2> PICK p \in Payouts : DecreaseCpi(p) \/ PrincipalFails(p)
    BY <1>1
  <2> QED
    BY DEF DecreaseCpi, PrincipalFails
<1>2. CASE \E received \in SwapOuts : \E unspent \in SwapRests :
             ConvertSwap(received, unspent)
  BY <1>2 DEF ConvertSwap
<1>3. CASE \E s \in Sides : SettleNothing(s) \/ SettleToken(s) \/ SettleNative(s)
  BY <1>3 DEF SettleNothing, SettleToken, SettleNative, AtSettle, AfterSettle
<1>4. CASE CpiFails \/ ThresholdFails \/ SwapFails \/ ExitFails
  BY <1>4 DEF CpiFails, ThresholdFails, SwapFails, ExitFails
<1>5. CASE ConvertNothing \/ ConvertDust \/ Charge \/ Tally
  BY <1>5 DEF ConvertNothing, ConvertDust, Charge, Tally
<1> QED
  BY <1>1, <1>2, <1>3, <1>4, <1>5 DEF Handler

LEMMA LedgerNext == IInv /\ FlowInv /\ LedgerInv /\ [Next]_vars => LedgerInv'
<1> SUFFICES ASSUME IInv, FlowInv, LedgerInv, [Next]_vars, pc' # "idle" PROVE LedgerInv'
  BY DEF LedgerInv
<1>1. ASSUME NEW c \in Calls, Reject(c) \/ Begin(c) PROVE LedgerInv'
  <2>1. ~Reject(c)
    BY DEF Reject, Submit
  <2> QED
    BY <1>1, <2>1, LedgerBegin
<1>2. CASE Handler
  <2>1. CASE \E p \in Payouts : DecreaseCpi(p)
    BY <2>1, LedgerCpi
  <2>2. CASE \E received \in SwapOuts : \E unspent \in SwapRests :
               ConvertSwap(received, unspent)
    BY <2>2, LedgerSwap
  <2>3. CASE \E s \in Sides : SettleNothing(s) \/ SettleToken(s) \/ SettleNative(s)
    BY <2>3, LedgerSettleNothing, LedgerSettleToken, LedgerSettleNative
  <2>4. /\ ~(CpiFails \/ ThresholdFails \/ SwapFails \/ ExitFails \/ Return)
        /\ \A p \in Payouts : ~PrincipalFails(p)
    BY DEF CpiFails, ThresholdFails, SwapFails, ExitFails, Return, PrincipalFails,
           Abort, Refuse
  <2>5. CASE ConvertNothing \/ ConvertDust \/ Charge \/ Tally
    BY <2>5, LedgerNothing, LedgerDust, LedgerCharge, LedgerTally
  <2>6. CASE Commit
    <3>1. /\ pc = "exit" /\ pc' = "done"
          /\ UNCHANGED <<tok, sol, acct, native, saved, call, before, delta, spent, out,
                         dust, feeDue>>
      BY <2>6 DEF Commit, ledger, locals
    <3>2. \A s \in Sides : Processed(s) /\ Processed(s)'
      BY <3>1 DEF Processed
    <3>3. \A s \in Sides, w \in Wallets : Gain(w, s)' = Gain(w, s)
      BY <3>1 DEF Gain, Holding, HoldingOf
    <3>4. \A s \in Sides : SettledLedger(s)'
      BY <3>1, <3>2, <3>3, AmountsKept DEF LedgerInv, SettledLedger
    <3> QED
      BY <3>1, <3>2, <3>4 DEF LedgerInv
  <2> QED
    BY <1>2, <2>1, <2>2, <2>3, <2>4, <2>5, <2>6 DEF Handler
<1>3. ~Environment
  BY DEF Environment, ReopenNative, SetPermissions, PriceMoves, Between
<1>4. CASE UNCHANGED vars
  <2>1. UNCHANGED <<pc, tok, sol, acct, native, saved, call, before, delta, spent, out,
                    dust, feeDue, net>>
    BY <1>4 DEF vars, ledger, locals
  <2>2. \A s \in Sides : Processed(s)' = Processed(s)
    BY <2>1 DEF Processed
  <2>3. \A s \in Sides, w \in Wallets : Gain(w, s)' = Gain(w, s)
    BY <2>1 DEF Gain, Holding, HoldingOf
  <2>4. \A s \in Sides : SettledLedger(s) => SettledLedger(s)'
    BY <2>1, <2>3, AmountsKept DEF SettledLedger
  <2>5. \A s \in Sides : OpenLedger(s) => OpenLedger(s)'
    BY <2>1, AmountsKept DEF OpenLedger
  <2> QED
    BY <2>1, <2>2, <2>4, <2>5 DEF LedgerInv
<1> QED
  BY <1>1, <1>2, <1>3, <1>4 DEF Next

FullInv == IInv /\ FlowInv /\ LedgerInv

LEMMA FullInvariance == Spec => []FullInv
<1>1. Init => FullInv
  BY InitIInv, FlowInit DEF FullInv, LedgerInv, Init
<1>2. FullInv /\ [Next]_vars => FullInv'
  BY NextIInv, FlowNext, LedgerNext DEF FullInv
<1> QED
  BY <1>1, <1>2, PTL DEF Spec

\* A committed call moves exactly what PayoutExact says, for every set of wallets, every
\* payout, price, fee, transfer fee and conversion: a wSOL side, a recipient or a fee
\* owner that is the signer, dust and leftovers of a swap included
\* (decrease_liquidity.rs, handler).
THEOREM PayoutIsExact == Spec => []PayoutExact
<1>1. FullInv => PayoutExact
  BY DEF FullInv, LedgerInv, PayoutExact, Processed, SettledLedger, FinalGain
<1> QED
  BY <1>1, FullInvariance, PTL

\* The event never reports less than what was settled, and at most one unit and the
\* transfer fee of Raydium's payment more.
THEOREM EventIsClose == Spec => []EventMatchesPayout
<1>1. FullInv => EventMatchesPayout
  BY DEF FullInv, FlowInv, EventClose, Excess, EventMatchesPayout, Settling
<1> QED
  BY <1>1, FullInvariance, PTL

(***************************************************************************)
(* The fee on the proceeds.  FloorInv follows the reward up to the fee;    *)
(* what is settled of the input of a conversion is at most what the swap   *)
(* left of it.                                                             *)
(***************************************************************************)
NetInv == Settling => UnsoldEscapes

LEMMA TallyNet ==
  ASSUME IInv, FlowInv, LedgerInv, Tally
  PROVE  NetInv'
<1>1. /\ pc = "tally" /\ pc' = "settle0"
      /\ UNCHANGED <<native, call, delta, spent, out, dust, feeDue>>
  BY DEF Tally, ledger
<1>2. SUFFICES ASSUME call.convert PROVE net'[Input] <= SatSub(delta[Input], spent)
  BY <1>1 DEF NetInv, UnsoldEscapes, Input
<1>3. Input \in Sides /\ Input # Target /\ Input' = Input
  BY <1>1, CallFacts DEF Input, Target
<1>4. net'[Input] = Kept(Input)
  <2>1. LedgerInv' /\ ~Processed(Input)'
    BY <1>1, LedgerTally DEF Processed
  <2>2. net'[Input] = Kept(Input)'
    BY <1>1, <1>3, <2>1 DEF LedgerInv, OpenLedger
  <2> QED
    BY <1>1, <1>3, <2>2, AmountsKept
<1>5. Kept(Input) <= Yield(Input)
  BY <1>3, LedgerTypes DEF Kept
<1>6. Yield(Input) = SatSub(delta[Input], spent)
  BY <1>2, <1>3 DEF Yield
<1> QED
  BY <1>4, <1>5, <1>6

LEMMA NetNext == FullInv /\ NetInv /\ [Next]_vars => NetInv'
<1> SUFFICES ASSUME FullInv, NetInv, [Next]_vars, Settling' PROVE NetInv'
  BY DEF NetInv
<1> USE DEF Abort, Refuse
<1>1. ~(\E c \in Calls : Reject(c) \/ Begin(c)) /\ ~Environment
  BY DEF Reject, Begin, Submit, Settling, Environment, ReopenNative, SetPermissions,
         PriceMoves, Between
<1>2. CASE Tally
  BY <1>2, TallyNet DEF FullInv
<1>3. CASE Commit \/ \E s \in Sides : SettleNothing(s) \/ SettleToken(s) \/ SettleNative(s)
  <2>1. Settling /\ UNCHANGED <<call, locals>>
    BY <1>3 DEF Commit, SettleNothing, SettleToken, SettleNative, AtSettle, Settling
  <2> QED
    BY <2>1 DEF NetInv, UnsoldEscapes, Input, locals
<1>4. /\ ~(\E p \in Payouts : DecreaseCpi(p) \/ PrincipalFails(p))
      /\ ~(CpiFails \/ ThresholdFails \/ SwapFails \/ ExitFails \/ Return)
      /\ ~(ConvertNothing \/ ConvertDust \/ Charge)
      /\ ~(\E received \in SwapOuts : \E unspent \in SwapRests :
               ConvertSwap(received, unspent))
  BY DEF DecreaseCpi, PrincipalFails, CpiFails, ThresholdFails, SwapFails, ExitFails,
         Return, ConvertNothing, ConvertDust, Charge, ConvertSwap, Settling
<1>5. CASE UNCHANGED vars
  BY <1>5 DEF vars, locals, NetInv, UnsoldEscapes, Settling, Input
<1> QED
  BY <1>1, <1>2, <1>3, <1>4, <1>5 DEF Next, Handler

\* The fee owner gets its percentage of the reward that was paid in the settlement
\* currency and, in proportion, of the proceeds of a conversion, up to one unit for each
\* rounding and what the mint withheld.  Only reward in the input that the conversion left
\* unsold escapes, and the settlement of that input is never larger than what was left
\* (decrease_liquidity.rs: principal_expected, reward and fee; 402-430 for the unsold).
THEOREM FeeReachesOwner == Spec => []FeeOnProceeds
<1>1. Init => FloorInv /\ NetInv
  BY DEF Init, FloorInv, RewardFloor, NetInv, Settling
<1>2. FullInv /\ FloorInv /\ NetInv /\ [Next]_vars => FloorInv' /\ NetInv'
  BY NextFloor, NetNext DEF FullInv
<1>3. FloorInv /\ NetInv => FeeOnProceeds
  BY DEF FloorInv, NetInv, FeeOnProceeds
<1> QED
  BY <1>1, <1>2, <1>3, FullInvariance, PTL DEF Spec

(***************************************************************************)
(* The refinement: Commit is Pay, Return is Finish, and every other step   *)
(* changes nothing of what Payout sees.                                    *)
(***************************************************************************)

LEMMA SameSides == Promise!Sides = Sides
  BY DEF Promise!Sides, Sides

LEMMA HoldingType ==
  ASSUME NEW t \in [Wallets -> [Sides -> Nat]], NEW b \in [Wallets -> Nat],
         NEW a \in [Sides -> TransitType], NEW w \in Wallets, NEW s \in Sides
  PROVE  Holding(t, b, a, w, s) \in Int
<1>1. t[w][s] \in Nat /\ b[w] \in Nat /\ Rent \in Nat
  BY DecreaseAssumption
<1> QED
  BY <1>1 DEF Holding, HoldingOf

LEMMA HeldType == IInv => Held \in [Wallets -> [Sides -> Int]]
<1> SUFFICES ASSUME IInv PROVE Held \in [Wallets -> [Sides -> Int]]
  OBVIOUS
<1>1. /\ Visible.tok \in [Wallets -> [Sides -> Nat]] /\ Visible.sol \in [Wallets -> Nat]
      /\ Visible.acct \in [Sides -> TransitType]
  BY DEF IInv, TypeOK, Visible
<1>2. \A w \in Wallets, s \in Sides :
        Holding(Visible.tok, Visible.sol, Visible.acct, w, s) \in Int
  BY <1>1, HoldingType
<1> QED
  BY <1>2 DEF Held

\* Equal accounts are equal holdings.
LEMMA HeldKept ==
  ASSUME Visible' = Visible, UNCHANGED native
  PROVE  Held' = Held
  BY DEF Held, Holding, HoldingOf

LEMMA NotDone == pc # "done" <=> LastPayout = Promise!Nothing
<1>1. Made.made = TRUE /\ Promise!Nothing.made = FALSE
  BY DEF Made, Promise!Nothing
<1> QED
  BY <1>1 DEF LastPayout, Promise!Nothing

\* A step that begins, ends or stays outside of "done" with the same holdings is a stutter.
LEMMA Stutters ==
  ASSUME pc # "done", pc' # "done", Held' = Held
  PROVE  UNCHANGED Promise!pvars
  BY DEF Promise!pvars, LastPayout

\* The payout that a call makes has the type and the balance that Payout asks for.
LEMMA MadeBalanced ==
  ASSUME IInv, FlowInv, pc = "exit"
  PROVE  Made \in Promise!PayoutType /\ Promise!Balanced(Made)
<1>1. call.recipient \in Wallets /\ call.feeOwner \in Wallets
  BY DecreaseAssumption DEF IInv, TypeOK, CallType
<1>2. \A s \in Sides :
        /\ expected[s] \in Nat /\ Yield(s) \in Nat /\ FeePaid(s) \in Nat
        /\ DustPaid(s) \in Nat /\ FeeOwnerGets(s) \in Nat /\ RecipientGets(s) \in Nat
        /\ Settled(s) \in Nat /\ RecipientGets(s) <= Settled(s)
        /\ FeeOwnerGets(s) <= FeePaid(s) + DustPaid(s)
        /\ Advanced(s) \in Nat /\ Overspent(s) \in Nat
  BY LedgerTypes DEF IInv, TypeOK, Advanced
<1>3. \A s \in Sides :
        (Settled(s) - RecipientGets(s)) + (FeePaid(s) + DustPaid(s) - FeeOwnerGets(s)) \in Nat
  BY <1>2
<1>4. Made \in Promise!PayoutType
  <2>1. /\ expected \in [Sides -> Nat]
        /\ [s \in Sides |-> Yield(s)] \in [Sides -> Nat]
        /\ [s \in Sides |-> RecipientGets(s)] \in [Sides -> Nat]
        /\ [s \in Sides |-> FeeOwnerGets(s)] \in [Sides -> Nat]
        /\ [s \in Sides |-> Advanced(s)] \in [Sides -> Nat]
        /\ [s \in Sides |-> Overspent(s)] \in [Sides -> Nat]
    BY <1>2 DEF IInv, TypeOK
  <2>2. [s \in Sides |-> (Settled(s) - RecipientGets(s))
                           + (FeePaid(s) + DustPaid(s) - FeeOwnerGets(s))]
          \in [Sides -> Nat]
    BY <1>3
  <2> QED
    BY <1>1, <2>1, <2>2, SameSides, Zenon DEF Made, Promise!PayoutType
<1>5. ASSUME NEW s \in Sides
      PROVE  RecipientGets(s) + FeeOwnerGets(s)
               + ((Settled(s) - RecipientGets(s)) + (FeePaid(s) + DustPaid(s) - FeeOwnerGets(s)))
             = Yield(s) + Advanced(s)
  BY <1>2, <1>5 DEF Settled
<1>6. ASSUME NEW s \in Sides PROVE Advanced(s) <= FeeOwnerGets(s)
  <2>1. s = native => FeeOwnerGets(s) = FeePaid(s) + DustPaid(s)
    BY <1>2, NativeArrives DEF FeeOwnerGets
  <2> QED
    BY <1>2, <2>1 DEF Advanced
<1>7. ASSUME NEW s \in Sides, Advanced(s) > 0 PROVE expected[s] = 0
  <2>1. s = Input /\ dust > 0
    BY <1>7 DEF Advanced, DustPaid, IInv, TypeOK
  <2> QED
    BY <2>1 DEF FlowInv, DustHasNoPrincipal
<1>8. ASSUME NEW s \in Sides, Overspent(s) > 0
      PROVE  Yield(s) = 0 /\ FeeOwnerGets(s) = 0 /\ 1 - s \in Sides /\ Overspent(1 - s) = 0
  <2>1. s = Input /\ Yield(s) = 0
    BY <1>8, LedgerTypes
  <2>2. FeeOwnerGets(s) = 0
    BY <1>2, <2>1, LedgerTypes
  <2>3. 1 - s \in Sides /\ 1 - s # s
    BY DEF Sides
  <2> QED
    BY <2>1, <2>2, <2>3 DEF Overspent
<1> QED
  BY <1>4, <1>5, <1>6, <1>7, <1>8, SameSides DEF Made, Promise!Balanced

LEMMA CommitPays == FullInv /\ Commit => Promise!Pay
<1> SUFFICES ASSUME FullInv, Commit PROVE Promise!Pay
  OBVIOUS
<1>1. /\ pc = "exit" /\ pc' = "done" /\ IInv /\ FlowInv /\ LedgerInv
      /\ UNCHANGED <<tok, sol, acct, native, saved, call, expected, delta, spent, out,
                     dust, feeDue>>
  BY DEF Commit, ledger, locals, FullInv
<1>2. LastPayout = Promise!Nothing
  BY <1>1, NotDone
<1>3. Made' = Made
  <2>1. \A s \in Sides : /\ Yield(s)' = Yield(s) /\ Advanced(s)' = Advanced(s)
                         /\ Overspent(s)' = Overspent(s)
    BY <1>1 DEF Yield, Advanced, Overspent, DustPaid, Input, Target
  <2>2. \A s \in Sides : FeePaid(s)' = FeePaid(s) /\ DustPaid(s)' = DustPaid(s)
    BY <1>1 DEF FeePaid, DustPaid, Input, Target
  <2>3. \A s \in Sides : /\ Settled(s)' = Settled(s)
                         /\ FeeOwnerGets(s)' = FeeOwnerGets(s)
    BY <1>1, <2>1, <2>2 DEF Settled, FeeOwnerGets, Arrives, Withheld
  <2>4. \A s \in Sides : RecipientGets(s)' = RecipientGets(s)
    BY <1>1, <2>3 DEF RecipientGets, Arrives, Withheld
  <2> QED
    BY <1>1, <2>1, <2>2, <2>3, <2>4 DEF Made
<1>4. LastPayout' = Made
  BY <1>1, <1>3 DEF LastPayout
<1>5. Visible = saved /\ Visible' = [tok |-> tok, sol |-> sol, acct |-> acct]
  BY <1>1 DEF Visible
<1>6. ASSUME NEW w \in Wallets, NEW s \in Sides
      PROVE  Holding(tok, sol, acct, w, s) = Held[w][s] + Promise!Share(Made, w, s)
  <2>1. Gain(w, s) = FinalGain(w, s)
    BY <1>1 DEF LedgerInv, Processed, SettledLedger
  <2>2. Held[w][s] = Holding(saved.tok, saved.sol, saved.acct, w, s)
    BY <1>5 DEF Held
  <2>3. Promise!Share(Made, w, s) = FinalGain(w, s)
    BY DEF Promise!Share, Made, FinalGain
  <2>4. /\ Holding(tok, sol, acct, w, s) \in Int
        /\ Holding(saved.tok, saved.sol, saved.acct, w, s) \in Int
    <3>1. /\ saved.tok \in [Wallets -> [Sides -> Nat]] /\ saved.sol \in [Wallets -> Nat]
          /\ saved.acct \in [Sides -> TransitType]
      BY <1>1 DEF IInv, TypeOK
    <3> QED
      BY <1>1, <3>1, HoldingType DEF IInv, TypeOK
  <2>5. Gain(w, s) = Holding(tok, sol, acct, w, s)
                       - Holding(saved.tok, saved.sol, saved.acct, w, s)
    BY DEF Gain
  <2> QED
    BY <2>1, <2>2, <2>3, <2>4, <2>5
<1>7. Held' = [w \in Wallets |-> [s \in Sides |-> Holding(tok, sol, acct, w, s)]]
  BY <1>1, <1>5 DEF Held, Holding
<1>8. Held' = [w \in Wallets |-> [s \in Sides |-> Held[w][s] + Promise!Share(Made, w, s)]]
  BY <1>6, <1>7
\* The transit account had what the conversion took beyond the yield.
<1>9. ASSUME NEW s \in Sides PROVE Overspent(s) <= Held[Signer][s]
  <2>1. /\ Overspent(s) \in Nat
        /\ Overspent(s) > 0 => /\ RecipientGets(s) = 0 /\ FeeOwnerGets(s) = 0
                               /\ Advanced(s) = 0
    <3>1. Overspent(s) > 0 => Yield(s) = 0 /\ FeePaid(s) = 0 /\ DustPaid(s) = 0
      BY <1>1, LedgerTypes
    <3>2. Overspent(s) > 0 => Settled(s) = 0
      BY <3>1 DEF Settled, Advanced
    <3> QED
      BY <1>1, <3>1, <3>2, LedgerTypes DEF Advanced
  <2>2. Promise!Share(Made, Signer, s) = FinalGain(Signer, s)
    BY DEF Promise!Share, Made, FinalGain
  <2>3. Overspent(s) > 0 => FinalGain(Signer, s) = -Overspent(s)
    BY <2>1 DEF FinalGain
  <2>4. Signer \in Wallets /\ Holding(tok, sol, acct, Signer, s) \in Nat
    BY <1>1, DecreaseAssumption DEF IInv, TypeOK, Holding, HoldingOf
  <2>5. Held[Signer][s] \in Int /\ Held[Signer][s] >= 0
    <3>1. Held[Signer][s] = Holding(saved.tok, saved.sol, saved.acct, Signer, s)
      BY <1>5, <2>4 DEF Held
    <3> QED
      BY <1>1, <2>4, <3>1, DecreaseAssumption DEF IInv, TypeOK, Holding, HoldingOf
  <2> QED
    BY <1>6, <2>1, <2>2, <2>3, <2>4, <2>5
<1>10. Promise!Affordable(Made)
  BY <1>9, SameSides DEF Promise!Affordable, Made
<1> QED
  BY <1>1, <1>2, <1>4, <1>8, <1>10, MadeBalanced, SameSides DEF Promise!Pay

LEMMA ReturnFinishes == Return => Promise!Finish
<1> SUFFICES ASSUME Return PROVE Promise!Finish
  OBVIOUS
<1>1. pc = "done" /\ pc' = "idle" /\ UNCHANGED <<tok, sol, acct, native>>
  BY DEF Return, ledger
<1>2. Visible' = Visible
  BY <1>1 DEF Visible
<1>3. LastPayout # Promise!Nothing /\ LastPayout' = Promise!Nothing
  BY <1>1, NotDone DEF LastPayout, Promise!Nothing
<1> QED
  BY <1>1, <1>2, <1>3, HeldKept DEF Promise!Finish

\* Between two calls only the place of the rent and the permissions change.
LEMMA EnvironmentStutters == IInv /\ Environment => UNCHANGED Promise!pvars
<1> SUFFICES ASSUME IInv, Environment PROVE UNCHANGED Promise!pvars
  OBVIOUS
<1>1. pc = "idle" /\ pc' = "idle" /\ UNCHANGED <<tok, native>>
  BY DEF Environment, ReopenNative, SetPermissions, PriceMoves, Between, ledger
<1>2. /\ Visible = [tok |-> tok, sol |-> sol, acct |-> acct]
      /\ Visible' = [tok |-> tok, sol |-> sol', acct |-> acct']
  BY <1>1 DEF Visible
<1>3. ASSUME NEW w \in Wallets, NEW s \in Sides
      PROVE  HoldingOf(tok, sol', acct', w, s, native, Signer, Rent)
               = HoldingOf(tok, sol, acct, w, s, native, Signer, Rent)
  <2> USE DEF HoldingOf
  <2>1. /\ sol \in [Wallets -> Nat] /\ acct \in [Sides -> TransitType] /\ Rent \in Nat
        /\ Signer \in Wallets /\ tok[w][s] \in Nat
    BY DecreaseAssumption DEF IInv, TypeOK
  <2>2. CASE \E isAta \in BOOLEAN : ReopenNative(isAta)
    <3>1. /\ ~acct[native].live /\ sol' = [sol EXCEPT ![Signer] = @ - Rent]
          /\ native \in Sides => acct'[native].live
      BY <2>1, <2>2 DEF ReopenNative
    <3> QED
      BY <2>1, <3>1
  <2>3. CASE \E z \in Sides : \E perm \in Permissions : SetPermissions(z, perm)
    <3>1. sol' = sol /\ acct'[s].live = acct[s].live
      BY <2>1, <2>3 DEF SetPermissions, TransitType
    <3> QED
      BY <3>1
  <2>4. CASE \E p \in SqrtPrices : PriceMoves(p)
    BY <2>4 DEF PriceMoves, ledger
  <2> QED
    BY <2>2, <2>3, <2>4 DEF Environment
<1>4. Held' = Held
  BY <1>1, <1>2, <1>3 DEF Held, Holding
<1> QED
  BY <1>1, <1>4, Stutters

LEMMA StepRefines == FullInv /\ [Next]_vars => [Promise!Next]_Promise!pvars
<1> SUFFICES ASSUME FullInv, [Next]_vars PROVE [Promise!Next]_Promise!pvars
  OBVIOUS
<1>1. ASSUME NEW c \in Calls, Reject(c) \/ Begin(c) PROVE UNCHANGED Promise!pvars
  <2>1. /\ pc = "idle" /\ pc' # "done" /\ UNCHANGED <<tok, sol, acct, native>>
        /\ pc' = "idle" \/ saved' = [tok |-> tok, sol |-> sol, acct |-> acct]
    BY <1>1 DEF Reject, Begin, Submit, ledger
  <2>2. Visible' = Visible
    BY <2>1 DEF Visible
  <2> QED
    BY <2>1, <2>2, HeldKept, Stutters
<1>2. CASE Handler
  <2>1. CASE Commit
    BY <2>1, CommitPays DEF Promise!Next
  <2>2. CASE Return
    BY <2>2, ReturnFinishes DEF Promise!Next
  <2>3. CASE /\ pc \notin {"idle", "done"} /\ pc' \notin {"idle", "done"}
             /\ UNCHANGED <<native, saved>>
    <3>1. Visible' = Visible
      BY <2>3 DEF Visible
    <3> QED
      BY <2>3, <3>1, HeldKept, Stutters
  <2>4. CASE /\ pc \notin {"idle", "done"} /\ pc' = "idle"
             /\ tok' = saved.tok /\ sol' = saved.sol /\ acct' = saved.acct
             /\ UNCHANGED native
    <3>1. saved = [tok |-> saved.tok, sol |-> saved.sol, acct |-> saved.acct]
      BY DEF FullInv, IInv, TypeOK
    <3>2. Visible' = Visible
      BY <2>4, <3>1 DEF Visible
    <3> QED
      BY <2>4, <3>2, HeldKept, Stutters
  <2> QED
    BY <1>2, <2>1, <2>2, <2>3, <2>4, HandlerSteps
<1>3. CASE Environment
  BY <1>3, EnvironmentStutters DEF FullInv
<1>4. CASE UNCHANGED vars
  <2>1. UNCHANGED <<pc, tok, sol, acct, native, saved, call, expected, delta, spent, out,
                    dust, feeDue>>
    BY <1>4 DEF vars, ledger, locals
  <2>2. Visible' = Visible
    BY <2>1 DEF Visible
  <2>3. LastPayout' = LastPayout
    BY <2>1 DEF LastPayout, Made, Yield, Advanced, Overspent, FeePaid, DustPaid, Settled,
                RecipientGets, FeeOwnerGets, Input, Target, Arrives, Withheld
  <2> QED
    BY <2>1, <2>2, <2>3, HeldKept DEF Promise!pvars
<1> QED
  BY <1>1, <1>2, <1>3, <1>4 DEF Next

\* Every behaviour of the withdrawal is a behaviour of Payout: it pays in one step or not
\* at all, whatever fails, is retried or changes between two calls
\* (decrease_liquidity.rs, handler, inside secure_entrypoint!).
THEOREM PayoutRefined == Spec => ImplementsPayout
<1>1. Init => Promise!Init
  <2> SUFFICES ASSUME Init PROVE Promise!Init
    OBVIOUS
  <2>1. pc # "done"
    BY DEF Init
  <2> QED
    BY <2>1, NotDone, InitIInv, HeldType, SameSides DEF Promise!Init
<1>2. FullInv /\ [Next]_vars => [Promise!Next]_Promise!pvars
  BY StepRefines
<1> QED
  BY <1>1, <1>2, FullInvariance, PTL DEF Spec, ImplementsPayout, Promise!Spec

\* Who loses in a payout, and how much.
Blamed(w, s, loss) ==
  /\ w = Signer /\ LastPayout'.made
  /\ \/ LastPayout'.principal[s] = 0 /\ loss <= LastPayout'.fee[s]
     \/ /\ loss <= LastPayout'.overspent[s] /\ loss <= Held[w][s]
        /\ LastPayout'.yield[s] = 0 /\ LastPayout'.overspent[1 - s] = 0

LEMMA PayBlames ==
  ASSUME Held \in [Wallets -> [Sides -> Int]], Promise!Pay,
         NEW w \in Wallets, NEW s \in Sides, Held[w][s] - Held'[w][s] > 0
  PROVE  Blamed(w, s, Held[w][s] - Held'[w][s])
<1> DEFINE p == LastPayout'
<1>1. p \in Promise!PayoutType /\ Promise!Balanced(p) /\ Promise!Affordable(p)
  BY DEF Promise!Pay
<1>2. Held'[w][s] = Held[w][s] + Promise!Share(p, w, s)
  BY SameSides DEF Promise!Pay
<1>3. /\ p.made = TRUE
      /\ p.settled[s] \in Nat /\ p.fee[s] \in Nat /\ p.advanced[s] \in Nat
      /\ p.overspent[s] \in Nat /\ p.overspent[s] <= Held[Signer][s]
      /\ p.advanced[s] <= p.fee[s]
      /\ p.advanced[s] > 0 => p.principal[s] = 0
      /\ p.overspent[s] > 0 => p.yield[s] = 0 /\ p.fee[s] = 0 /\ p.overspent[1 - s] = 0
  BY <1>1, SameSides DEF Promise!PayoutType, Promise!Balanced, Promise!Affordable
<1> HIDE DEF p
<1> DEFINE loss == Held[w][s] - Held'[w][s]
<1>4. Held[w][s] \in Int
  OBVIOUS
<1>5. w = Signer /\ loss <= p.advanced[s] + p.overspent[s] /\ loss \in Int
  BY <1>2, <1>3, <1>4 DEF Promise!Share
<1>6. loss > 0
  OBVIOUS
<1> HIDE DEF loss
<1>7. CASE p.overspent[s] = 0
  <2>1. p.principal[s] = 0 /\ loss <= p.fee[s]
    BY <1>3, <1>5, <1>6, <1>7
  <2> QED
    BY <1>3, <1>5, <2>1 DEF p, loss, Blamed
<1>8. CASE p.overspent[s] > 0
  <2>1. loss <= p.overspent[s] /\ loss <= Held[w][s]
    BY <1>3, <1>4, <1>5, <1>8
  <2> QED
    BY <1>3, <1>5, <1>8, <2>1 DEF p, loss, Blamed
<1> QED
  BY <1>3, <1>7, <1>8

\* A withdrawal or a claim takes nothing from any wallet but the signer's.  From that it
\* takes no more than the fee owner gets, where there is no principal
\* (decrease_liquidity.rs: the dust of a wSOL claim is paid in lamports before the account
\* is unwrapped), or what the conversion took of one token beyond the yield, of which
\* nothing is left to settle then (decrease_liquidity.rs:381-417, no check of what swap_v2
\* spent).
THEOREM OnlySignerAdvances == Spec => Promise!OnlySignerAdvances
<1> DEFINE Losses ==
      \A w \in Wallets, s \in Promise!Sides :
        Held[w][s] - Held'[w][s] > 0 => Blamed(w, s, Held[w][s] - Held'[w][s])
<1>1. FullInv /\ [Next]_vars => [Losses]_Promise!pvars
  <2> SUFFICES ASSUME FullInv, [Next]_vars PROVE [Losses]_Promise!pvars
    OBVIOUS
  <2>1. Held \in [Wallets -> [Sides -> Int]]
    BY HeldType DEF FullInv
  <2>2. CASE Promise!Pay
    BY <2>1, <2>2, PayBlames, SameSides
  <2>3. CASE Promise!Finish
    <3>1. Held' = Held
      BY <2>3 DEF Promise!Finish
    <3>2. \A w \in Wallets, s \in Sides : Held[w][s] \in Int
      BY <2>1
    <3> QED
      BY <3>1, <3>2, SameSides
  <2> QED
    BY <2>2, <2>3, StepRefines DEF Promise!Next
<1>2. Promise!OnlySignerAdvances <=> [][Losses]_Promise!pvars
  BY DEF Promise!OnlySignerAdvances, Blamed
<1> QED
  BY <1>1, <1>2, FullInvariance, PTL DEF Spec

(***************************************************************************)
(* The errors.  Until it settles, the handler leaves the accounts as they  *)
(* were, and then it only closes the wSOL account: what the exit check     *)
(* refuses was there before the call.  The balances of IInv and LedgerInv  *)
(* show that the guards of fee and settlement never fire.                  *)
(***************************************************************************)
AccountsKept ==
  pc # "idle" =>
    \A s \in Sides :
      /\ acct[s].ata = saved.acct[s].ata
      /\ acct[s].delegate = saved.acct[s].delegate
      /\ acct[s].closeAuth = saved.acct[s].closeAuth
      /\ ~acct[s].live => s = native

SlippageChecked == pc # "idle" => call.slippage <= 5000

CauseInv == AccountsKept /\ SlippageChecked

\* A step inside a call leaves the accounts alone or closes the wSOL account.
LEMMA InsideSteps ==
  ASSUME Handler, pc' # "idle"
  PROVE  /\ pc # "idle" /\ UNCHANGED <<native, saved, call>>
         /\ acct' = acct \/ (native \in Sides /\ acct' = CloseAccount(acct, native))
<1> USE DEF Abort, Refuse
<1>1. CASE \E p \in Payouts : DecreaseCpi(p)
  BY <1>1 DEF DecreaseCpi
<1>2. CASE \E received \in SwapOuts : \E unspent \in SwapRests :
             ConvertSwap(received, unspent)
  BY <1>2 DEF ConvertSwap
<1>3. CASE \E s \in Sides : SettleNothing(s) \/ SettleToken(s) \/ SettleNative(s)
  BY <1>3 DEF SettleNothing, SettleToken, SettleNative, AtSettle, ledger
<1>4. /\ ~(CpiFails \/ ThresholdFails \/ SwapFails \/ ExitFails \/ Return)
      /\ \A p \in Payouts : ~PrincipalFails(p)
  BY DEF CpiFails, ThresholdFails, SwapFails, ExitFails, Return, PrincipalFails
<1>5. CASE ConvertNothing \/ ConvertDust \/ Charge \/ Tally \/ Commit
  BY <1>5 DEF ConvertNothing, ConvertDust, Charge, Tally, Commit, ledger
<1> QED
  BY <1>1, <1>2, <1>3, <1>4, <1>5 DEF Handler

LEMMA CauseNext == IInv /\ CauseInv /\ [Next]_vars => CauseInv'
<1> SUFFICES ASSUME IInv, CauseInv, [Next]_vars, pc' # "idle" PROVE CauseInv'
  BY DEF CauseInv, AccountsKept, SlippageChecked
<1>1. ASSUME NEW c \in Calls, Reject(c) \/ Begin(c) PROVE CauseInv'
  <2>1. /\ \A s \in Sides : acct[s].live
        /\ saved' = [tok |-> tok, sol |-> sol, acct |-> acct] /\ acct' = acct
        /\ call' = c /\ ArgumentError(c) = "none"
    BY <1>1 DEF Reject, Begin, Submit, ledger
  <2>2. c.slippage <= 5000
    BY <2>1, DecreaseAssumption DEF ArgumentError, CallType
  <2> QED
    BY <2>1, <2>2 DEF CauseInv, AccountsKept, SlippageChecked
<1>2. CASE Handler
  <2>1. /\ pc # "idle" /\ UNCHANGED <<native, saved, call>>
        /\ acct' = acct \/ (native \in Sides /\ acct' = CloseAccount(acct, native))
    BY <1>2, InsideSteps
  <2>2. CASE acct' = acct
    BY <2>1, <2>2 DEF CauseInv, AccountsKept, SlippageChecked
  <2>3. CASE native \in Sides /\ acct' = CloseAccount(acct, native)
    <3>1. acct \in [Sides -> TransitType]
      BY DEF IInv, TypeOK
    <3>2. ASSUME NEW s \in Sides
          PROVE  /\ acct'[s].ata = acct[s].ata /\ acct'[s].delegate = acct[s].delegate
                 /\ acct'[s].closeAuth = acct[s].closeAuth
                 /\ s # native => acct'[s].live = acct[s].live
      BY <2>3, <3>1 DEF CloseAccount, TransitType
    <3> QED
      BY <2>1, <3>2 DEF CauseInv, AccountsKept, SlippageChecked
  <2> QED
    BY <2>1, <2>2, <2>3
<1>3. ~Environment
  BY DEF Environment, ReopenNative, SetPermissions, PriceMoves, Between
<1>4. CASE UNCHANGED vars
  BY <1>4 DEF vars, ledger, CauseInv, AccountsKept, SlippageChecked
<1> QED
  BY <1>1, <1>2, <1>3, <1>4 DEF Next

\* HasCause, read from the errors.
LEMMA Causes ==
  /\ pc \in {"cpi", "convert"} => HasCause("CpiError")
  /\ pc = "cpi" => HasCause("NoBalanceChange")
  /\ \A p \in Payouts :
       pc = "cpi" /\ PrincipalError(p) # "none" => HasCause(PrincipalError(p))
  /\ call.convert /\ ~call.swapAccountsOk => HasCause("InvalidRemainingAccounts")
  /\ call.convert /\ PriceOf(price) = 0 => HasCause("InvalidSqrtPrice")
  /\ call.convert /\ QuoteOut(delta[Input], Input = 0, price) > U64_MAX
       => HasCause("MathOverflow")
  /\ (\E s \in Sides : (owed[s] + out) * call.feePercent > U64_MAX)
       => HasCause("MathOverflow")
  /\ (/\ call.convert /\ native = Input /\ expected[Input] = 0
      /\ saved.sol[Signer] < delta[Input]) => HasCause("InsufficientFunds")
  /\ native \in Sides /\ saved.acct[native].closeAuth => HasCause("OwnerMismatch")
  BY DEF HasCause, PrincipalError

\* What the exit check finds was there before the call.
LEMMA ExitCause ==
  ASSUME CauseInv, pc # "idle", ExitError # "none"
  PROVE  HasCause(ExitError)
<1>1. ASSUME NEW s \in Sides, AccountError(s) # "none" PROVE HasCause(AccountError(s))
  <2> DEFINE view == AccountView(acct[s], Signer)
  <2>1. /\ acct[s].ata = saved.acct[s].ata
        /\ acct[s].delegate = saved.acct[s].delegate
        /\ acct[s].closeAuth = saved.acct[s].closeAuth
        /\ ~acct[s].live => s = native
    BY DEF CauseInv, AccountsKept
  <2>2. CASE acct[s].live
    <3>1. IsTokenAccount(view) /\ view.authority = Signer
      BY <2>2 DEF AccountView, IsTokenAccount
    <3>2. view.delegate = acct[s].delegate /\ view.closeAuth = acct[s].closeAuth
      BY DEF AccountView
    <3>3. \/ AccountError(s) = "SecurityTokenDelegateNotAllowed" /\ acct[s].delegate
          \/ AccountError(s) = "SecurityTokenCloseAuthorityNotAllowed" /\ acct[s].closeAuth
      BY <1>1, <3>1, <3>2 DEF AccountError, SignerAccountError
    <3> QED
      BY <2>1, <3>3 DEF HasCause
  <2>3. CASE ~acct[s].live
    <3>1. ~IsTokenAccount(view) /\ IsUninitialized(view)
      BY <2>3 DEF AccountView, IsTokenAccount, IsUninitialized
    <3>2. AccountError(s) = "SecurityTokenAccountCorrupted" /\ ~acct[s].ata
      BY <1>1, <2>1, <2>3, <3>1 DEF AccountError, SignerAccountError
    <3> QED
      BY <2>1, <2>3, <3>2 DEF HasCause
  <2> QED
    BY <2>2, <2>3
<1> QED
  BY <1>1 DEF ExitError, Sides

LEMMA RefusedForCause ==
  ASSUME CauseInv, pc # "idle", NEW err, HasCause(err), Refuse(err)
  PROVE  HasCause(status')
<1>1. status' = Reported(err)
  BY DEF Refuse, Abort
<1> QED
  BY <1>1, ExitCause DEF Reported

LEMMA AbortedForCause ==
  ASSUME NEW err, HasCause(err), Abort(err)
  PROVE  HasCause(status')
  BY DEF Abort

\* The threshold of a conversion fails for the price or the quote.
LEMMA ThresholdCause ==
  ASSUME IInv, CauseInv, pc = "convert", ThresholdError # "none"
  PROVE  HasCause(ThresholdError)
<1>1. /\ TotalIn \in Nat /\ TotalIn = delta[Input] /\ price \in Nat /\ call.convert
  BY TotalInIsDelta DEF IInv, TypeOK, StepInv, AtConvert
<1>2. call.slippage \in 0..BPS
  <2>1. call.slippage \in Nat /\ call.slippage <= 5000
    BY CallFacts DEF CallType, CauseInv, SlippageChecked
  <2>2. BPS \in Nat /\ 5000 <= BPS
    BY BpsValue
  <2> QED
    BY <2>1, <2>2
<1>3. \/ ThresholdError = "InvalidSqrtPrice" /\ PriceOf(price) = 0
      \/ ThresholdError = "MathOverflow" /\ QuoteOut(TotalIn, Input = 0, price) > U64_MAX
  <2>1. TRADE_FEE_RATE \in 0..FEE_UNIT
    BY DecreaseAssumption
  <2> DEFINE token0 == Input = 0
             quote == QuoteOut(TotalIn, token0, price)
  <2>2. token0 \in BOOLEAN
    OBVIOUS
  <2>3. ThresholdError
          = MinOutError(TotalIn, token0, price, call.slippage, TRADE_FEE_RATE)
    BY DEF ThresholdError
  <2> HIDE DEF token0
  <2>4. \/ ThresholdError = "none"
        \/ ThresholdError = "InvalidSqrtPrice" /\ PriceOf(price) = 0
        \/ ThresholdError = "MathOverflow" /\ quote > U64_MAX
    BY <1>1, <1>2, <2>1, <2>2, <2>3, MinOutBound
  <2> QED
    BY <2>4 DEF token0
<1> QED
  BY <1>1, <1>3, Causes

\* A conversion whose input is all reward has no principal to convert.
LEMMA AllReward ==
  ASSUME IInv, FlowInv, pc = "convert", TotalIn > 0, PrincipalIn = 0
  PROVE  expected[Input] = 0
<1>1. reward[Input] = SatSub(delta[Input], expected[Input])
  BY CallFacts DEF FlowInv, PrincipalRounding
<1>2. SatSub(delta[Input], reward[Input]) = 0
  BY DEF PrincipalIn
<1>3. delta[Input] > 0 /\ delta[Input] \in Nat /\ expected[Input] \in Nat
      /\ reward[Input] \in Nat
  BY CallFacts, TotalInIsDelta DEF IInv, TypeOK
<1> QED
  BY <1>1, <1>2, <1>3 DEF SatSub

LEMMA DustCause ==
  ASSUME FullInv, ConvertDust, pc' = "idle"
  PROVE  HasCause(status')
<1>1. /\ pc = "convert" /\ native = Input /\ sol[Signer] < TotalIn
      /\ TotalIn > 0 /\ PrincipalIn = 0 /\ Abort("InsufficientFunds")
  BY DEF ConvertDust, IsDust
<1>2. IInv /\ FlowInv /\ LedgerInv
  BY DEF FullInv
<1>3. /\ call.convert /\ TotalIn = delta[Input] /\ Input \in Sides /\ Signer \in Wallets
      /\ expected[Input] = 0
  BY <1>1, <1>2, AllReward, TotalInIsDelta, CallFacts DEF IInv, StepInv, AtConvert
<1>4. sol[Signer] = saved.sol[Signer]
  <2>1. ~Processed(Input) /\ dust = 0
    BY <1>1, <1>2 DEF Processed, FlowInv, NotYet
  <2>2. sol[Signer] = saved.sol[Signer] + SolChange(Signer, Input)
    BY <1>1, <1>2, <1>3, <2>1 DEF LedgerInv, OpenLedger
  <2>3. SolChange(Signer, Input) = 0
    BY <2>1 DEF SolChange, DustPaid
  <2>4. saved.sol[Signer] \in Nat
    BY <1>2, <1>3 DEF IInv, TypeOK
  <2> QED
    BY <2>2, <2>3, <2>4
<1> QED
  BY <1>1, <1>3, <1>4, Causes, AbortedForCause

\* The token fee is in the transit account: only the product with the percentage can be
\* too large.
LEMMA ChargeCause ==
  ASSUME IInv, CauseInv, Charge, pc' = "idle"
  PROVE  HasCause(status')
<1> DEFINE fee == [s \in Sides |-> FeeOf(FeeBase[s])]
<1>1. pc = "charge"
  BY DEF Charge
<1>2. /\ reward \in [Sides -> Nat] /\ owed \in [Sides -> Nat] /\ delta \in [Sides -> Nat]
      /\ before \in [Sides -> Nat] /\ out \in Nat /\ call.feePercent \in Nat
      /\ FeeBase \in [Sides -> Nat] /\ tok[Signer] \in [Sides -> Nat]
      /\ call.convert \in BOOLEAN /\ Target \in Sides /\ Input \in Sides
      /\ \A s \in Sides : s = Target \/ s = Input
  BY <1>1, CallFacts, FeeBaseBound DEF IInv, TypeOK, Sides
<1>3. \A s \in Sides : reward[s] <= owed[s] /\ reward[s] <= delta[s]
  BY <1>1 DEF IInv, StepInv, RewardWasPaid, RewardWithinDelta
<1>4. ASSUME NEW s \in Sides
      PROVE  FeeBase[s] <= owed[s] + out /\ FeeBase[s] <= tok[Signer][s]
  <2>1. CASE ~call.convert
    <3>1. FeeBase[s] = reward[s] /\ tok[Signer][s] = before[s] + delta[s]
      BY <1>1, <2>1, FeeBaseBound DEF IInv, StepInv, AtCharge
    <3> QED
      BY <1>2, <1>3, <3>1
  <2>2. CASE call.convert /\ s = Target
    <3>1. /\ FeeBase[s] = reward[s] + RewardOut /\ RewardOut \in Nat /\ RewardOut <= out
          /\ tok[Signer][s] = before[s] + delta[s] + out
      BY <1>1, <2>2, FeeBaseBound, RewardOutBound DEF IInv, StepInv, AtCharge
    <3> QED
      BY <1>2, <1>3, <3>1
  <2>3. CASE call.convert /\ s = Input
    <3>1. FeeBase[s] = 0
      BY <1>1, <2>3, FeeBaseBound
    <3> QED
      BY <1>2, <3>1
  <2> QED
    BY <1>2, <2>1, <2>2, <2>3
<1>5. \A s \in Sides : fee[s] \in Nat /\ fee[s] <= FeeBase[s]
  BY <1>1, <1>2, FeeOfBound
<1>6. ~(\E s \in Sides : s # native /\ tok[Signer][s] < fee[s])
  <2> SUFFICES ASSUME NEW s \in Sides PROVE ~(tok[Signer][s] < fee[s])
    OBVIOUS
  <2> HIDE DEF fee
  <2>1. fee[s] \in Nat /\ FeeBase[s] \in Nat /\ tok[Signer][s] \in Nat
    BY <1>2, <1>5
  <2> QED
    BY <1>4, <1>5, <2>1
<1>7. /\ \E s \in Sides : FeeBase[s] * call.feePercent > U64_MAX
      /\ Refuse("MathOverflow")
  BY <1>6 DEF Charge
<1>8. PICK s \in Sides : FeeBase[s] * call.feePercent > U64_MAX
  BY <1>7
<1>9. (owed[s] + out) * call.feePercent >= FeeBase[s] * call.feePercent
  <2>1. FeeBase[s] \in Nat /\ owed[s] + out \in Nat /\ FeeBase[s] <= owed[s] + out
    BY <1>2, <1>4
  <2> QED
    BY <1>2, <2>1, ProductMonotone
<1>10. (owed[s] + out) * call.feePercent > U64_MAX
  <2>1. /\ (owed[s] + out) * call.feePercent \in Int
        /\ FeeBase[s] * call.feePercent \in Int /\ U64_MAX \in Int
    BY <1>2, ScaleAssumption
  <2> QED
    BY <1>8, <1>9, <2>1
<1>11. HasCause("MathOverflow")
  BY <1>10, Causes
<1> QED
  BY <1>1, <1>7, <1>11, RefusedForCause

\* The net amount covers the fee: only a close authority can stop the unwrapping.
LEMMA SettleCause ==
  ASSUME IInv, CauseInv, NEW s \in Sides, SettleNative(s), pc' = "idle"
  PROVE  HasCause(status')
<1>1. /\ AtSettle(s) /\ s = native /\ Settling /\ pc # "idle"
  BY DEF SettleNative, AtSettle, Settling
<1>2. ~(net[s] < feeDue[s])
  <2>1. net[s] \in Nat /\ feeDue[s] \in Nat
    BY <1>1, SettleFacts
  <2>2. net[s] >= feeDue[s]
    BY <1>1 DEF IInv, StepInv, NetCoversFee, Sides, NoSide
  <2> QED
    BY <2>1, <2>2
<1>3. acct[s].closeAuth /\ Abort("OwnerMismatch")
  BY <1>2 DEF SettleNative, AfterSettle, CloseRefused
<1>4. native \in Sides /\ saved.acct[native].closeAuth
  BY <1>1, <1>3 DEF CauseInv, AccountsKept
<1> QED
  BY <1>3, <1>4, Causes, AbortedForCause

LEMMA HandlerCause ==
  ASSUME FullInv, CauseInv, Handler, pc \notin {"idle", "done"}, pc' = "idle"
  PROVE  HasCause(status')
<1>1. IInv /\ pc # "idle"
  BY DEF FullInv
<1>2. ASSUME NEW p \in Payouts, DecreaseCpi(p) PROVE HasCause(status')
  <2>1. pc = "cpi" /\ Refuse("NoBalanceChange")
    BY <1>2 DEF DecreaseCpi
  <2> QED
    BY <2>1, Causes, RefusedForCause
<1>3. CASE CpiFails \/ \E p \in Payouts : PrincipalFails(p)
  BY <1>1, <1>3, Causes, AbortedForCause, RefusedForCause DEF CpiFails, PrincipalFails
<1>4. CASE ThresholdFails
  BY <1>1, <1>4, ThresholdCause, RefusedForCause DEF ThresholdFails
<1>5. CASE SwapFails
  <2>1. pc = "convert" /\ call.convert
    BY <1>1, <1>5 DEF SwapFails, IInv, StepInv, AtConvert
  <2>2. CASE call.swapAccountsOk
    BY <1>5, <2>1, <2>2, Causes, AbortedForCause DEF SwapFails
  <2>3. CASE ~call.swapAccountsOk
    BY <1>5, <2>1, <2>3, Causes, RefusedForCause DEF SwapFails
  <2> QED
    BY <2>2, <2>3
<1>6. CASE ConvertDust \/ Charge
  BY <1>1, <1>6, DustCause, ChargeCause
<1>7. ASSUME NEW s \in Sides, SettleNothing(s) \/ SettleToken(s) \/ SettleNative(s)
      PROVE  HasCause(status')
  <2>1. ~SettleNothing(s) /\ ~SettleToken(s)
    BY DEF SettleNothing, SettleToken, AfterSettle
  <2> QED
    BY <1>1, <1>7, <2>1, SettleCause
<1>8. CASE ExitFails
  BY <1>1, <1>8, ExitCause, AbortedForCause DEF ExitFails
<1>9. ~ConvertNothing /\ ~Tally /\ ~Commit /\ ~Return
  BY DEF ConvertNothing, Tally, Commit, Return
<1>10. ~(\E received \in SwapOuts : \E unspent \in SwapRests :
             ConvertSwap(received, unspent))
  BY DEF ConvertSwap
<1> QED
  BY <1>2, <1>3, <1>4, <1>5, <1>6, <1>7, <1>8, <1>9, <1>10 DEF Handler

LEMMA CauseInvariance == Spec => []CauseInv
<1>1. Init => CauseInv
  BY DEF Init, CauseInv, AccountsKept, SlippageChecked
<1>2. IInv /\ CauseInv /\ [Next]_vars => CauseInv'
  BY CauseNext
<1>3. FullInv => IInv
  BY DEF FullInv
<1> QED
  BY <1>1, <1>2, <1>3, FullInvariance, PTL DEF Spec

\* What the handler does to the accounts of the signer, in all its steps: it closes the wSOL
\* account or nothing, and sets no permission.  LpHandler takes that for granted of the
\* body of decrease_liquidity.
THEOREM WithdrawalKeepsAccounts == Spec => []AccountsKept
<1>1. CauseInv => AccountsKept
  BY DEF CauseInv
<1> QED
  BY <1>1, CauseInvariance, PTL

\* A withdrawal that passed the checks of its arguments fails only for Raydium, the price,
\* the size of an amount, missing lamports for the dust of a claim, or a state of the
\* accounts from before the call: the defensive errors of decrease_liquidity.rs (fee not
\* covered, token fee not payable) are never returned.
THEOREM WithdrawalFailsForCause == Spec => FailsForCause
<1> DEFINE Cause == pc \notin {"idle", "done"} /\ pc' = "idle" => HasCause(status')
<1>1. FullInv /\ CauseInv /\ [Next]_vars => [Cause]_vars
  <2> SUFFICES ASSUME FullInv, CauseInv, Next, pc \notin {"idle", "done"}, pc' = "idle"
               PROVE  HasCause(status')
    OBVIOUS
  <2>1. ~(\E c \in Calls : Reject(c) \/ Begin(c)) /\ ~Environment
    BY DEF Reject, Begin, Submit, Environment, ReopenNative, SetPermissions, PriceMoves,
           Between
  <2> QED
    BY <2>1, HandlerCause DEF Next
<1> QED
  BY <1>1, FullInvariance, CauseInvariance, PTL DEF Spec, FailsForCause

=============================================================================

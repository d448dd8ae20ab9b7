----------------------- MODULE DecreaseLiquidityProofs -----------------------
(***************************************************************************)
(* Proofs about DecreaseLiquidity, for every value of its constants: type  *)
(* correctness, and that the net amount of a settlement covers the fee.    *)
(*                                                                         *)
(* Neither is inductive.  That the subtractions of the settlement stay in  *)
(* Nat depends on what each earlier step left in the transit accounts, so  *)
(* the inductive invariant IInv follows the balances through the handler:  *)
(* StepInv says, for each step, how the transit balance is made up of the  *)
(* balance before the call, what the CPI paid and what the conversion      *)
(* brought.                                                                *)
(***************************************************************************)
EXTENDS DecreaseLiquidity, LpMathProofs

\* The arguments that passed the checks stay in force.
CallChecked == pc # "idle" => call.feePercent <= BPS /\ call.target \in Sides

\* Nothing is converted before the conversion.
NothingOutYet == pc \in {"idle", "cpi", "convert"} => out = 0

AtCpi == pc = "cpi" => tok[Signer] = before

RewardWithinDelta == pc \in {"convert", "charge"} => \A s \in Sides : reward[s] <= delta[s]

\* The handler rounds the principal up, so it never takes principal for reward.
RewardWasPaid == pc \in {"convert", "charge"} => \A s \in Sides : reward[s] <= owed[s]

FeeShare == pc = "tally" \/ Settling => FeeWithinReward

AtConvert ==
  pc = "convert" =>
    /\ call.convert
    /\ cached = tok[Signer]
    /\ \A s \in Sides : tok[Signer][s] = before[s] + delta[s]

\* The input side may have been spent or given away, and more than the call brought.
AtCharge ==
  pc = "charge" =>
    IF call.convert
    THEN tok[Signer][Target] = before[Target] + delta[Target] + out
    ELSE \A s \in Sides : tok[Signer][s] = before[s] + delta[s]

\* The wSOL fee is still in the transit account, on top of what was there before.
AtTally ==
  pc = "tally" /\ native # NoSide /\ feeDue[native] > 0 =>
    tok[Signer][native] >= before[native] + feeDue[native]

\* Sides not settled yet.
Unsettled == IF pc = "settle0" THEN Sides ELSE IF pc = "settle1" THEN {1} ELSE {}

NetAvailable == \A s \in Unsettled : net[s] <= tok[Signer][s]

StepInv ==
  /\ CallChecked /\ NothingOutYet /\ AtCpi /\ RewardWithinDelta /\ RewardWasPaid
  /\ AtConvert /\ AtCharge /\ AtTally /\ FeeShare /\ NetCoversFee /\ NetAvailable

IInv == TypeOK /\ StepInv

(***************************************************************************)
(* Arithmetic.                                                             *)
(***************************************************************************)

\* The scales of percentages are what the code says.
LEMMA BpsValue == BPS = 10000
  BY DEF BPS

LEMMA RateBound == \A r \in 0..BPS : r \in Nat /\ r <= 10000
  BY DEF BPS

\* A transfer fee is a part of the transfer.
LEMMA ArrivesBound ==
  ASSUME NEW s \in Sides, NEW n \in Nat
  PROVE  Withheld(s, n) \in Nat /\ Arrives(s, n) \in Nat /\ Arrives(s, n) <= n
<1>1. TRANSFER_FEE[s] \in Nat /\ TRANSFER_FEE[s] <= 10000
  <2>1. TRANSFER_FEE \in [Sides -> 0..BPS]
    BY DecreaseAssumption
  <2>2. TRANSFER_FEE[s] \in 0..BPS
    BY <2>1, Zenon
  <2> QED
    BY <2>2, RateBound
<1>2. (n * TRANSFER_FEE[s] + 10000 - 1) \div 10000 \in 0..n
  <2>1. n * TRANSFER_FEE[s] \in Nat /\ n * TRANSFER_FEE[s] <= n * 10000
    BY <1>1
  <2> QED
    BY <2>1
<1> QED
  BY <1>2, BpsValue DEF Withheld, Arrives, CeilDiv

\* A transfer of the signer within its balance keeps the token ledger typed and changes
\* no other side.
LEMMA SendTokenType ==
  ASSUME NEW t \in [Wallets -> [Sides -> Nat]], NEW to \in Wallets,
         NEW s \in Sides, NEW n \in Nat, n <= t[Signer][s]
  PROVE  /\ SendToken(t, to, s, n) \in [Wallets -> [Sides -> Nat]]
         /\ \A w \in Wallets, z \in Sides :
              z # s => SendToken(t, to, s, n)[w][z] = t[w][z]
         /\ SendToken(t, to, s, n)[Signer][s] >= t[Signer][s] - n
<1>1. CASE to = Signer
  BY <1>1, DecreaseAssumption DEF SendToken
<1>2. CASE to # Signer
  <2> DEFINE u == SendToken(t, to, s, n)
             moved(w) == IF w = Signer THEN t[w][s] - n
                         ELSE IF w = to THEN t[w][s] + Arrives(s, n) ELSE t[w][s]
  <2>1. u = [w \in Wallets |-> [z \in Sides |-> IF z = s THEN moved(w) ELSE t[w][z]]]
    BY <1>2, DecreaseAssumption DEF SendToken
  <2>2. \A w \in Wallets : moved(w) \in Nat
    BY ArrivesBound
  <2> QED
    BY <2>1, <2>2, <1>2, DecreaseAssumption
<1> QED
  BY <1>1, <1>2

\* The same for lamports.
LEMMA MoveSolType ==
  ASSUME NEW b \in [Wallets -> Nat], NEW from \in Wallets, NEW to \in Wallets,
         NEW n \in Nat, n <= b[from]
  PROVE  /\ MoveSol(b, from, to, n) \in [Wallets -> Nat]
         /\ MoveSol(b, from, to, n)[from] >= b[from] - n
  BY DEF MoveSol

(***************************************************************************)
(* The initial state, and the steps that end or precede a call.            *)
(***************************************************************************)
LEMMA ZeroType == Zero \in [Sides -> Nat] /\ \A s \in Sides : Zero[s] = 0
  BY DEF Zero

LEMMA NoEventType ==
  NoEvent \in [principal : [Sides -> Nat], reward : [Sides -> Nat], fee : [Sides -> Nat]]
  BY ZeroType DEF NoEvent

LEMMA InitIInv == Init => IInv
<1> SUFFICES ASSUME Init PROVE IInv
  OBVIOUS
<1>1. acct \in [Sides -> TransitType]
  <2>1. PICK isAta \in BOOLEAN :
          acct = [s \in Sides |-> [live |-> TRUE, ata |-> isAta /\ s = native,
                                   delegate |-> FALSE, closeAuth |-> FALSE]]
    BY DEF Init
  <2>2. \A s \in Sides : (isAta /\ s = native) \in BOOLEAN
    OBVIOUS
  <2>3. \A s \in Sides : [live |-> TRUE, ata |-> isAta /\ s = native,
                          delegate |-> FALSE, closeAuth |-> FALSE] \in TransitType
    BY <2>2, Zenon DEF TransitType
  <2> QED
    BY <2>1, <2>3
<1>2. tok \in [Wallets -> [Sides -> Nat]] /\ sol \in [Wallets -> Nat]
  BY DecreaseAssumption DEF Init
<1>3. saved \in [tok : [Wallets -> [Sides -> Nat]], sol : [Wallets -> Nat],
                acct : [Sides -> TransitType]]
  BY <1>1, <1>2 DEF Init
<1>4. native \in {0, 1, NoSide} /\ price \in Nat /\ pc \in Steps
  BY DecreaseAssumption DEF Init, Steps
<1>5. TypeOK
  BY <1>1, <1>2, <1>3, <1>4, ZeroType, NoEventType DEF Init, TypeOK
<1>6. StepInv
  BY DEF Init, StepInv, CallChecked, NothingOutYet, AtCpi, RewardWithinDelta, RewardWasPaid, FeeShare, AtConvert,
         AtCharge, AtTally, NetCoversFee, NetAvailable, Unsettled, Settling
<1> QED
  BY <1>5, <1>6 DEF IInv

\* Between two calls the balances are free.
LEMMA IdleStep == pc' = "idle" /\ out' = 0 => StepInv'
  BY DEF StepInv, CallChecked, NothingOutYet, AtCpi, RewardWithinDelta, RewardWasPaid, FeeShare, AtConvert,
         AtCharge, AtTally, NetCoversFee, NetAvailable, Unsettled, Settling

LEMMA EmptyLocalsType ==
  EmptyLocals =>
    /\ before' \in [Sides -> Nat] /\ cached' \in [Sides -> Nat]
    /\ expected' \in [Sides -> Nat] /\ delta' \in [Sides -> Nat]
    /\ reward' \in [Sides -> Nat] /\ owed' \in [Sides -> Nat]
    /\ lost' \in [Sides -> Nat]
    /\ feeDue' \in [Sides -> Nat] /\ net' \in [Sides -> Nat]
    /\ spent' \in Nat /\ out' = 0 /\ dust' \in Nat
    /\ event' \in [principal : [Sides -> Nat], reward : [Sides -> Nat],
                    fee : [Sides -> Nat]]
  BY ZeroType, NoEventType DEF EmptyLocals

LEMMA AbortIInv ==
  ASSUME IInv, NEW err \in Errors, Abort(err)
  PROVE  IInv'
<1>1. TypeOK'
  BY EmptyLocalsType DEF IInv, TypeOK, Abort, Steps
<1>2. pc' = "idle" /\ out' = 0
  BY EmptyLocalsType DEF Abort
<1> QED
  BY <1>1, <1>2, IdleStep DEF IInv

\* The names the checks return are errors of the instruction.
LEMMA ErrorNames ==
  /\ \A c \in Calls : Entry(c) \in Errors \cup {"none"}
  /\ \A c \in Calls : ArgumentError(c) \in Errors \cup {"none"}
  /\ ThresholdError \in Errors \cup {"none"}
  /\ ExitError \in Errors \cup {"none"}
  /\ \A err \in Errors : Reported(err) \in Errors
<1>1. \A s \in Sides : AccountError(s) \in Errors \cup {"none"}
  BY DEF AccountError, SignerAccountError, Errors
<1>2. ExitError \in Errors \cup {"none"}
  BY <1>1 DEF ExitError, Sides
<1>3. \A err \in Errors : Reported(err) \in Errors
  BY <1>2 DEF Reported
<1>4. \A c \in Calls : Entry(c) \in Errors \cup {"none"}
  BY DEF Entry, EntryError, AccountsError, Errors
<1>5. \A c \in Calls : ArgumentError(c) \in Errors \cup {"none"}
  BY DEF ArgumentError, Errors
<1>6. ThresholdError \in Errors \cup {"none"}
  BY DEF ThresholdError, MinOutError, Errors
<1> QED
  BY <1>2, <1>3, <1>4, <1>5, <1>6

LEMMA RefuseIInv ==
  ASSUME IInv, NEW err \in Errors, Refuse(err)
  PROVE  IInv'
  BY ErrorNames, AbortIInv DEF Refuse

LEMMA RejectIInv ==
  ASSUME IInv, NEW c \in Calls, Reject(c)
  PROVE  IInv'
<1>1. status' \in Errors
  BY ErrorNames DEF Reject
<1>2. TypeOK'
  BY <1>1 DEF IInv, TypeOK, Reject, Submit, ledger, locals
<1>3. pc' = "idle" /\ out' = 0
  BY DEF IInv, StepInv, NothingOutYet, Reject, Submit, locals
<1> QED
  BY <1>2, <1>3, IdleStep DEF IInv

LEMMA BeginIInv ==
  ASSUME IInv, NEW c \in Calls, Begin(c)
  PROVE  IInv'
<1>1. c.feePercent <= BPS /\ c.target \in Sides
  BY DecreaseAssumption DEF Begin, ArgumentError, CallType, BPS
<1>2. tok[Signer] \in [Sides -> Nat]
  BY DecreaseAssumption DEF IInv, TypeOK
<1>3. TypeOK'
  BY <1>2 DEF IInv, TypeOK, Begin, Submit, ledger, Steps
<1>4. StepInv'
  BY <1>1 DEF IInv, StepInv, Begin, Submit, ledger, locals, CallChecked, NothingOutYet,
  AtCpi, RewardWithinDelta, RewardWasPaid, FeeShare, AtConvert, AtCharge, AtTally, NetCoversFee, NetAvailable,
  Unsettled, Settling
<1> QED
  BY <1>3, <1>4 DEF IInv

(***************************************************************************)
(* The steps of the handler.                                               *)
(***************************************************************************)

\* The facts about the current call that most steps use.
LEMMA CallFacts ==
  ASSUME IInv, pc # "idle"
  PROVE  /\ call \in CallType
         /\ call.recipient \in Wallets /\ call.feeOwner \in Wallets
         /\ call.feePercent \in Nat /\ call.feePercent <= BPS
         /\ call.convert \in BOOLEAN
         /\ Target \in Sides /\ Input \in Sides /\ Target # Input
         /\ Signer \in Wallets /\ tok[Signer] \in [Sides -> Nat]
<1>1. call \in CallType
  BY DecreaseAssumption DEF IInv, TypeOK
<1>2. call.feePercent <= BPS /\ call.target \in Sides
  BY DEF IInv, StepInv, CallChecked
<1> QED
  BY <1>1, <1>2, DecreaseAssumption
  DEF CallType, Target, Input, Other, Sides, IInv, TypeOK

LEMMA CpiFailsIInv == IInv /\ CpiFails => IInv'
  BY AbortIInv DEF CpiFails, Errors

LEMMA PrincipalFailsIInv ==
  ASSUME IInv, NEW p \in Payouts, PrincipalFails(p)
  PROVE  IInv'
<1>1. PrincipalError(p) \in Errors
  BY DEF PrincipalFails, PrincipalError, Errors
<1> QED
  BY <1>1, AbortIInv, RefuseIInv DEF PrincipalFails

LEMMA DecreaseCpiIInv ==
  ASSUME IInv, NEW p \in Payouts, DecreaseCpi(p)
  PROVE  IInv'
<1> DEFINE balance == [s \in Sides |-> tok[Signer][s] + Arrives(s, Paid(p)[s])]
           gained  == [s \in Sides |-> balance[s] - before[s]]
           planned == Planned(p)
<1>1. CASE \A s \in Sides : gained[s] = 0
  BY <1>1, RefuseIInv DEF DecreaseCpi, Errors
<1>2. CASE ~(\A s \in Sides : gained[s] = 0)
  <2>1. pc = "cpi" /\ tok[Signer] = before /\ before \in [Sides -> Nat]
    BY DEF DecreaseCpi, IInv, TypeOK, StepInv, AtCpi
  <2>2. ExactPrincipal(p) \in [Sides -> Nat] /\ p.reward \in [Sides -> Nat]
    BY DecreaseAssumption, ZeroType DEF ExactPrincipal, PayoutType
  <2>3. Paid(p) \in [Sides -> Nat] /\ planned \in [Sides -> Nat]
    BY <2>2 DEF Paid, Planned, PRECISION, CeilDiv
  <2>4. /\ gained \in [Sides -> Nat] /\ \A s \in Sides : gained[s] <= Paid(p)[s]
        /\ balance \in [Sides -> Nat]
        /\ \A s \in Sides : balance[s] = before[s] + gained[s]
    BY <2>1, <2>3, ArrivesBound
  <2>11. [s \in Sides |-> Withheld(s, Paid(p)[s])] \in [Sides -> Nat]
    BY <2>3, ArrivesBound
  <2>5. [s \in Sides |-> SatSub(gained[s], planned[s])] \in [Sides -> Nat]
        /\ \A s \in Sides : SatSub(gained[s], planned[s]) <= gained[s]
    BY <2>3, <2>4, SatSubBound
  <2>10. \A s \in Sides : SatSub(gained[s], planned[s]) <= p.reward[s]
    <3> TAKE s \in Sides
    <3>1. ExactPrincipal(p)[s] \in Nat /\ p.reward[s] \in Nat
      BY <2>2
    <3>2. gained[s] \in Nat /\ gained[s] <= ExactPrincipal(p)[s] \div PRECISION + p.reward[s]
      BY <2>4 DEF Paid
    <3>3. planned[s] >= ExactPrincipal(p)[s] \div PRECISION /\ planned[s] \in Nat
      BY <3>1 DEF Planned, CeilDiv, PRECISION
    <3> QED
      BY <3>1, <3>2, <3>3 DEF SatSub, PRECISION
  <2> HIDE DEF balance, gained, planned
  <2>6. /\ tok' = [tok EXCEPT ![Signer] = balance]
        /\ cached' = balance /\ expected' = planned /\ delta' = gained
        /\ reward' = [s \in Sides |-> SatSub(gained[s], planned[s])]
        /\ owed' = p.reward
        /\ lost' = [s \in Sides |-> Withheld(s, Paid(p)[s])]
        /\ pc' = IF call.convert THEN "convert" ELSE "charge"
        /\ UNCHANGED <<sol, acct, native, price, saved, call, before, spent, out,
                       dust, feeDue, net, event, status, calls>>
    BY <1>2 DEF DecreaseCpi, balance, gained, planned
  <2>7. tok' \in [Wallets -> [Sides -> Nat]] /\ tok'[Signer] = balance
    BY <2>4, <2>6, DecreaseAssumption DEF IInv, TypeOK
  <2>8. TypeOK'
    BY <2>1, <2>2, <2>3, <2>4, <2>5, <2>6, <2>7, <2>11 DEF IInv, TypeOK, Steps
  <2>9. StepInv'
    BY <2>1, <2>4, <2>5, <2>6, <2>7, <2>10 DEF IInv, StepInv, CallChecked, NothingOutYet, AtCpi,
    RewardWithinDelta, RewardWasPaid, FeeShare, AtConvert, AtCharge, AtTally, NetCoversFee, NetAvailable, Unsettled,
    Settling
  <2> QED
    BY <2>8, <2>9 DEF IInv
<1> QED
  BY <1>1, <1>2

LEMMA ConvertNothingIInv == IInv /\ ConvertNothing => IInv'
<1> SUFFICES ASSUME IInv, ConvertNothing PROVE IInv'
  OBVIOUS
<1>1. pc = "convert" /\ pc' = "charge"
      /\ UNCHANGED <<ledger, native, price, saved, call, locals, status, calls>>
  BY DEF ConvertNothing
<1>2. TypeOK'
  BY <1>1 DEF IInv, TypeOK, ledger, locals, Steps
<1>3. call.convert /\ out = 0 /\ \A s \in Sides : tok[Signer][s] = before[s] + delta[s]
  BY <1>1 DEF IInv, StepInv, AtConvert, NothingOutYet
<1>4. before \in [Sides -> Nat] /\ delta \in [Sides -> Nat]
  BY DEF IInv, TypeOK
<1>5. AtCharge
  BY <1>1 DEF AtCharge
<1>6. AtCharge'
  <2>1. Target \in Sides /\ Input \in Sides /\ Target' = Target /\ Input' = Input
    BY <1>1, CallFacts DEF Target, Input
  <2> QED
    BY <1>1, <1>3, <1>4, <2>1 DEF AtCharge, ledger, locals
<1>7. StepInv'
  BY <1>1, <1>6 DEF IInv, StepInv, ledger, locals, CallChecked, NothingOutYet, AtCpi,
  RewardWithinDelta, RewardWasPaid, FeeShare, AtConvert, AtTally, NetCoversFee, NetAvailable, Unsettled, Settling
<1> QED
  BY <1>2, <1>7 DEF IInv

LEMMA ThresholdFailsIInv == IInv /\ ThresholdFails => IInv'
  BY RefuseIInv, ErrorNames DEF ThresholdFails

LEMMA SwapFailsIInv == IInv /\ SwapFails => IInv'
  BY AbortIInv, RefuseIInv DEF SwapFails, Errors

\* The input of the conversion is all the call brought on that side.
LEMMA TotalInIsDelta ==
  ASSUME IInv, pc \in {"convert", "charge"}
  PROVE  /\ TotalIn \in Nat /\ TotalIn = delta[Input]
         /\ RewardIn \in Nat /\ RewardIn <= TotalIn
<1>1. reward[Input] \in Nat /\ delta[Input] \in Nat /\ reward[Input] <= delta[Input]
  BY CallFacts DEF IInv, TypeOK, StepInv, RewardWithinDelta
<1> QED
  BY <1>1, SatSubBound DEF TotalIn, RewardIn, PrincipalIn

LEMMA ConvertDustIInv == IInv /\ ConvertDust => IInv'
<1> SUFFICES ASSUME IInv, ConvertDust PROVE IInv'
  OBVIOUS
<1>1. CASE native = Input /\ sol[Signer] < TotalIn
  BY <1>1, AbortIInv DEF ConvertDust, Errors
<1>2. CASE ~(native = Input /\ sol[Signer] < TotalIn)
  <2>1. pc = "convert" /\ pc' = "charge" /\ dust' = TotalIn
        /\ UNCHANGED <<acct, native, price, saved, call, before, cached, expected,
                       delta, reward, owed, lost, spent, out, feeDue, net, event, status,
                       calls>>
    BY <1>2 DEF ConvertDust
  <2>2. call.convert /\ out = 0 /\ \A s \in Sides : tok[Signer][s] = before[s] + delta[s]
    BY <2>1 DEF IInv, StepInv, AtConvert, NothingOutYet
  <2>3. before \in [Sides -> Nat] /\ delta \in [Sides -> Nat]
    BY DEF IInv, TypeOK
  <2>4. TotalIn \in Nat /\ TotalIn = delta[Input]
    BY <2>1, TotalInIsDelta
  <2>5. Target \in Sides /\ Input \in Sides /\ Target # Input /\ Signer \in Wallets
        /\ call.feeOwner \in Wallets
    BY <2>1, CallFacts
  <2>6. /\ tok' \in [Wallets -> [Sides -> Nat]] /\ sol' \in [Wallets -> Nat]
        /\ tok'[Signer][Target] = tok[Signer][Target]
    <3>1. CASE native = Input
      <4>1. tok' = tok /\ sol' = MoveSol(sol, Signer, call.feeOwner, TotalIn)
        BY <1>2, <3>1 DEF ConvertDust
      <4>2. TotalIn <= sol[Signer]
        BY <1>2, <2>4, <2>5, <3>1 DEF IInv, TypeOK
      <4> QED
        BY <2>4, <2>5, <4>1, <4>2, MoveSolType DEF IInv, TypeOK
    <3>2. CASE native # Input
      <4>1. sol' = sol /\ tok' = SendToken(tok, call.feeOwner, Input, TotalIn)
        BY <1>2, <3>2 DEF ConvertDust
      <4>2. TotalIn <= tok[Signer][Input]
        BY <2>2, <2>3, <2>4, <2>5
      <4>3. tok \in [Wallets -> [Sides -> Nat]] /\ sol \in [Wallets -> Nat]
        BY DEF IInv, TypeOK
      <4>4. /\ tok' \in [Wallets -> [Sides -> Nat]]
            /\ tok'[Signer][Target] = tok[Signer][Target]
        BY <2>4, <2>5, <4>1, <4>2, <4>3, SendTokenType
      <4> QED
        BY <4>1, <4>3, <4>4
    <3> QED
      BY <3>1, <3>2
  <2>7. TypeOK'
    BY <2>1, <2>4, <2>6 DEF IInv, TypeOK, Steps
  <2>8. AtCharge'
    <3>1. Target' = Target /\ Input' = Input
      BY <2>1 DEF Target, Input
    <3> QED
      BY <2>1, <2>2, <2>3, <2>5, <2>6, <3>1 DEF AtCharge
  <2>9. StepInv'
    BY <2>1, <2>8 DEF IInv, StepInv, CallChecked, NothingOutYet, AtCpi,
    RewardWithinDelta, RewardWasPaid, FeeShare, AtConvert, AtTally, NetCoversFee, NetAvailable, Unsettled, Settling
  <2> QED
    BY <2>7, <2>9 DEF IInv
<1> QED
  BY <1>1, <1>2

LEMMA ConvertSwapIInv ==
  ASSUME IInv, NEW received \in SwapOuts, NEW unspent \in SwapRests,
         ConvertSwap(received, unspent)
  PROVE  IInv'
<1> DEFINE used == TotalIn - unspent
<1>1. /\ pc = "convert" /\ pc' = "charge" /\ used \in 0..tok[Signer][Input]
      /\ tok' = [tok EXCEPT ![Signer][Input] = @ - used, ![Signer][Target] = @ + received]
      /\ cached' = tok'[Signer] /\ out' = cached'[Target] - cached[Target]
      /\ spent' = used
      /\ UNCHANGED <<sol, acct, native, price, saved, call, before, expected, delta,
                     reward, owed, lost, dust, feeDue, net, event, status, calls>>
  BY DEF ConvertSwap
<1>2. call.convert /\ cached = tok[Signer]
      /\ \A s \in Sides : tok[Signer][s] = before[s] + delta[s]
  BY <1>1 DEF IInv, StepInv, AtConvert
<1>3. before \in [Sides -> Nat] /\ delta \in [Sides -> Nat]
      /\ tok \in [Wallets -> [Sides -> Nat]]
  BY DEF IInv, TypeOK
<1>4. Target \in Sides /\ Input \in Sides /\ Target # Input /\ Signer \in Wallets
  BY <1>1, CallFacts
<1>5. received \in Nat /\ used \in Nat /\ used <= tok[Signer][Input]
  BY <1>1, <1>3, <1>4, DecreaseAssumption
<1> HIDE DEF used
<1>6. /\ tok'[Signer][Input] = tok[Signer][Input] - used
      /\ tok'[Signer][Target] = tok[Signer][Target] + received
      /\ tok' \in [Wallets -> [Sides -> Nat]]
  <2>1. tok' = [w \in Wallets |-> [s \in Sides |->
                  IF w # Signer THEN tok[w][s]
                  ELSE IF s = Input THEN tok[w][s] - used
                  ELSE IF s = Target THEN tok[w][s] + received ELSE tok[w][s]]]
    BY <1>1, <1>3, <1>4
  <2>2. \A s \in Sides : s = Input \/ s = Target
    BY <1>4 DEF Sides
  <2>3. tok[Signer][Input] - used \in Nat
    BY <1>3, <1>4, <1>5
  <2> QED
    BY <1>3, <1>4, <1>5, <2>1, <2>2, <2>3
<1>7. out' = received
  BY <1>1, <1>2, <1>3, <1>4, <1>5, <1>6
<1>8. TypeOK'
  BY <1>1, <1>4, <1>5, <1>6, <1>7 DEF IInv, TypeOK, Steps
<1>9. AtCharge'
  <2>1. Target' = Target /\ Input' = Input
    BY <1>1 DEF Target, Input
  <2> QED
    BY <1>1, <1>2, <1>3, <1>4, <1>5, <1>6, <1>7, <2>1 DEF AtCharge
<1>10. StepInv'
  BY <1>1, <1>9 DEF IInv, StepInv, CallChecked, NothingOutYet, AtCpi,
  RewardWithinDelta, RewardWasPaid, FeeShare, AtConvert, AtTally, NetCoversFee, NetAvailable, Unsettled, Settling
<1> QED
  BY <1>8, <1>10 DEF IInv

(***************************************************************************)
(* The fee.                                                                *)
(***************************************************************************)

\* The converted part of the reward is a share of the output.
LEMMA RewardOutBound ==
  ASSUME IInv, pc = "charge"
  PROVE  /\ RewardOut \in Nat /\ RewardOut <= out
         /\ RewardOut * TotalIn <= out * RewardIn
         /\ TotalIn = 0 => RewardOut = 0
<1>1. TotalIn \in Nat /\ RewardIn \in Nat /\ RewardIn <= TotalIn /\ out \in Nat
  BY TotalInIsDelta DEF IInv, TypeOK
<1>2. CASE TotalIn = 0 \/ RewardIn = 0
  BY <1>1, <1>2 DEF RewardOut
<1>3. CASE ~(TotalIn = 0 \/ RewardIn = 0)
  <2>1. RewardOut = (out * RewardIn) \div TotalIn
    BY <1>3 DEF RewardOut
  <2>2. RewardOut \in Nat /\ RewardOut <= out
    BY <1>1, <1>3, <2>1, ShareBound
  <2>3. ((out * RewardIn) \div TotalIn) * TotalIn <= out * RewardIn
    BY <1>1, <1>3
  <2> QED
    BY <1>3, <2>1, <2>2, <2>3
<1> QED
  BY <1>2, <1>3

\* A fee is a percentage of its base.
LEMMA FeeOfBound ==
  ASSUME IInv, pc # "idle", NEW amount \in Nat
  PROVE  /\ FeeOf(amount) \in Nat /\ FeeOf(amount) <= amount
         /\ FeeOf(amount) * BPS <= amount * call.feePercent
         /\ amount = 0 => FeeOf(amount) = 0
<1>1. call.feePercent \in Nat /\ call.feePercent <= 10000 /\ BPS = 10000
  BY CallFacts, BpsValue
<1>2. FeeOf(amount) = (amount * call.feePercent) \div 10000
  BY <1>1 DEF FeeOf
<1>3. FeeOf(amount) \in Nat /\ FeeOf(amount) <= amount
  BY <1>1, <1>2, ShareBound
<1>4. ((amount * call.feePercent) \div 10000) * 10000 <= amount * call.feePercent
  BY <1>1
<1> QED
  BY <1>1, <1>2, <1>3, <1>4

\* The base of the fee: the reward, and on the target side the converted reward.
LEMMA FeeBaseBound ==
  ASSUME IInv, pc = "charge"
  PROVE  /\ FeeBase \in [Sides -> Nat]
         /\ call.convert => /\ FeeBase[Target] = reward[Target] + RewardOut
                            /\ FeeBase[Input] = 0
         /\ ~call.convert => FeeBase = reward
<1>1. reward \in [Sides -> Nat] /\ Target \in Sides /\ Input \in Sides /\ Target # Input
  BY CallFacts DEF IInv, TypeOK
<1> QED
  BY <1>1, RewardOutBound DEF FeeBase

\* The inequality behind FeeWithinReward: a fee on the base r + x, where r is within
\* the paid reward o and x within the share ri/d of the output.
LEMMA ConvertedFee ==
  ASSUME NEW r \in Nat, NEW o \in Nat, NEW x \in Nat, NEW d \in Nat, NEW ri \in Nat,
         NEW oi \in Nat, NEW output \in Nat, NEW percent \in Nat, NEW fee \in Nat,
         r <= o, ri <= oi, x * d <= output * ri, fee * BPS <= (r + x) * percent
  PROVE  fee * BPS * d <= percent * (o * d + output * oi)
<1>1. x * d <= output * oi
  OBVIOUS
<1>2. r * d <= o * d
  OBVIOUS
<1>3. (r + x) * d <= o * d + output * oi
  BY <1>1, <1>2
<1>4. fee * BPS * d <= ((r + x) * percent) * d
  BY DEF BPS
<1>5. ((r + x) * percent) * d = percent * ((r + x) * d)
  OBVIOUS
<1>6. percent * ((r + x) * d) <= percent * (o * d + output * oi)
  BY <1>3
<1> QED
  BY <1>4, <1>5, <1>6 DEF BPS

\* Token fees leave the wSOL tokens where they are.
LEMMA PayTokenFeesType ==
  ASSUME IInv, pc # "idle", NEW fee \in [Sides -> Nat],
         \A s \in Sides : s # native => fee[s] <= tok[Signer][s]
  PROVE  /\ PayTokenFees(fee) \in [Wallets -> [Sides -> Nat]]
         /\ native # NoSide => PayTokenFees(fee)[Signer][native] = tok[Signer][native]
<1> DEFINE after0 == IF native = 0 THEN tok
                     ELSE SendToken(tok, call.feeOwner, 0, fee[0])
<1>1. /\ tok \in [Wallets -> [Sides -> Nat]] /\ native \in {0, 1, NoSide}
      /\ Signer \in Wallets /\ call.feeOwner \in Wallets
      /\ 0 \in Sides /\ 1 \in Sides
  BY CallFacts DEF IInv, TypeOK, Sides
<1>2. /\ after0 \in [Wallets -> [Sides -> Nat]]
      /\ after0[Signer][1] = tok[Signer][1]
      /\ native = 0 => after0[Signer][0] = tok[Signer][0]
  BY <1>1, SendTokenType
<1> HIDE DEF after0
<1>3. PayTokenFees(fee) = IF native = 1 THEN after0
                          ELSE SendToken(after0, call.feeOwner, 1, fee[1])
  BY DEF PayTokenFees, after0
<1>4. CASE native = 1
  BY <1>1, <1>2, <1>3, <1>4
<1>5. CASE native # 1
  <2>1. fee[1] \in Nat /\ fee[1] <= after0[Signer][1] /\ 0 # 1
    BY <1>1, <1>2, <1>5
  <2>2. /\ PayTokenFees(fee) \in [Wallets -> [Sides -> Nat]]
        /\ PayTokenFees(fee)[Signer][0] = after0[Signer][0]
    <3>1. PayTokenFees(fee) = SendToken(after0, call.feeOwner, 1, fee[1])
      BY <1>3, <1>5
    <3>2. /\ SendToken(after0, call.feeOwner, 1, fee[1])
               \in [Wallets -> [Sides -> Nat]]
          /\ \A w \in Wallets, z \in Sides :
               z # 1 => SendToken(after0, call.feeOwner, 1, fee[1])[w][z]
                          = after0[w][z]
      <4> HIDE <1>3, <3>1
      <4> QED
        BY <1>1, <1>2, <2>1, SendTokenType
    <3> QED
      BY <1>1, <2>1, <3>1, <3>2
  <2> QED
    BY <1>1, <1>2, <1>5, <2>2 DEF NoSide
<1> QED
  BY <1>4, <1>5

LEMMA ChargeIInv == IInv /\ Charge => IInv'
<1> SUFFICES ASSUME IInv, Charge PROVE IInv'
  OBVIOUS
<1> DEFINE fee == [s \in Sides |-> FeeOf(FeeBase[s])]
           overflow == \E s \in Sides : FeeBase[s] * call.feePercent > U64_MAX
           short == \E s \in Sides : s # native /\ tok[Signer][s] < fee[s]
<1>1. pc = "charge"
  BY DEF Charge
<1>2. CASE overflow
  BY <1>2, RefuseIInv DEF Charge, Errors
<1>3. CASE ~overflow /\ short
  BY <1>3, AbortIInv DEF Charge, Errors
<1>4. CASE ~overflow /\ ~short
  <2>1. FeeBase \in [Sides -> Nat] /\ Target \in Sides /\ Input \in Sides /\ Target # Input
        /\ Signer \in Wallets /\ call.convert \in BOOLEAN /\ call.feePercent \in Nat
    BY <1>1, CallFacts, FeeBaseBound
  <2>2. /\ fee \in [Sides -> Nat]
        /\ \A s \in Sides : /\ fee[s] <= FeeBase[s]
                            /\ fee[s] * BPS <= FeeBase[s] * call.feePercent
                            /\ FeeBase[s] = 0 => fee[s] = 0
    BY <1>1, <2>1, FeeOfBound
  <2>3. /\ feeDue' = fee /\ tok' = PayTokenFees(fee) /\ event' = EventOf(fee)
        /\ pc' = "tally"
        /\ UNCHANGED <<sol, acct, native, price, saved, call, before, cached,
                       expected, delta, reward, owed, lost, spent, out, dust, net, status,
                       calls>>
    BY <1>4 DEF Charge
  <2>4. \A s \in Sides : s # native => fee[s] <= tok[Signer][s]
    BY <1>1, <1>4, <2>2, CallFacts
  <2> HIDE DEF fee, overflow, short
  <2>5. /\ tok' \in [Wallets -> [Sides -> Nat]]
        /\ native # NoSide => tok'[Signer][native] = tok[Signer][native]
    BY <1>1, <2>2, <2>3, <2>4, PayTokenFeesType
  <2>6. event' \in [principal : [Sides -> Nat], reward : [Sides -> Nat],
                    fee : [Sides -> Nat]]
    <3>1. [s \in Sides |-> FeeBase[s] - fee[s]] \in [Sides -> Nat]
      BY <2>1, <2>2
    <3>2. expected \in [Sides -> Nat] /\ out - RewardOut \in Nat
      BY <1>1, RewardOutBound DEF IInv, TypeOK
    <3>3. [s \in Sides |-> IF s = Target THEN expected[s] + (out - RewardOut) ELSE 0]
            \in [Sides -> Nat]
      BY <3>2
    <3>4. (IF call.convert
           THEN [s \in Sides |-> IF s = Target THEN expected[s] + (out - RewardOut) ELSE 0]
           ELSE expected) \in [Sides -> Nat]
      BY <3>2, <3>3
    <3> QED
      BY <2>2, <2>3, <3>1, <3>4 DEF EventOf
  <2>7. TypeOK'
    BY <1>1, <2>2, <2>3, <2>5, <2>6 DEF IInv, TypeOK, Steps
  <2>8. AtTally'
    <3> SUFFICES ASSUME native # NoSide, fee[native] > 0
                 PROVE  tok[Signer][native] >= before[native] + fee[native]
      BY <2>3, <2>5 DEF AtTally
    <3>1. native \in Sides /\ before \in [Sides -> Nat] /\ delta \in [Sides -> Nat]
          /\ reward \in [Sides -> Nat] /\ out \in Nat /\ tok[Signer] \in [Sides -> Nat]
      BY <1>1, CallFacts DEF IInv, TypeOK, Sides, NoSide
    <3>2. reward[native] <= delta[native]
      BY <1>1, <3>1 DEF IInv, StepInv, RewardWithinDelta
    <3>3. fee[native] <= FeeBase[native] /\ fee[native] \in Nat
      BY <2>2, <3>1
    <3>4. CASE ~call.convert
      <4>1. FeeBase[native] = reward[native]
        BY <1>1, <3>4, FeeBaseBound
      <4>2. tok[Signer][native] = before[native] + delta[native]
        BY <1>1, <3>1, <3>4 DEF IInv, StepInv, AtCharge
      <4> QED
        BY <3>1, <3>2, <3>3, <4>1, <4>2
    <3>5. CASE call.convert /\ native = Target
      <4>1. FeeBase[native] = reward[native] + RewardOut /\ RewardOut \in Nat
            /\ RewardOut <= out
        BY <1>1, <3>5, FeeBaseBound, RewardOutBound
      <4>2. tok[Signer][native] = before[native] + delta[native] + out
        BY <1>1, <3>5 DEF IInv, StepInv, AtCharge
      <4> QED
        BY <3>1, <3>2, <3>3, <4>1, <4>2
    <3>6. CASE call.convert /\ native # Target
      <4>1. native = Input
        BY <2>1, <3>1, <3>6 DEF Sides
      <4>2. fee[native] = 0
        BY <1>1, <2>2, <3>1, <3>6, <4>1, FeeBaseBound
      <4> QED
        BY <4>2
    <3> QED
      BY <3>4, <3>5, <3>6, <2>1
  <2>9. FeeWithinReward'
    <3>1. /\ reward \in [Sides -> Nat] /\ owed \in [Sides -> Nat] /\ delta \in [Sides -> Nat]
          /\ out \in Nat
      BY DEF IInv, TypeOK
    <3>2. \A s \in Sides : reward[s] <= owed[s]
      BY <1>1 DEF IInv, StepInv, RewardWasPaid
    <3>3. Target' = Target /\ Input' = Input
      BY <2>3 DEF Target, Input
    <3>4. CASE ~call.convert
      <4>1. FeeBase = reward
        BY <1>1, <3>4, FeeBaseBound
      <4>2. \A s \in Sides : fee[s] * BPS <= call.feePercent * owed[s]
        <5> TAKE s \in Sides
        <5>1. fee[s] * BPS <= reward[s] * call.feePercent
          BY <2>2, <4>1
        <5>2. reward[s] * call.feePercent <= call.feePercent * owed[s]
          BY <2>1, <3>1, <3>2
        <5> QED
          BY <2>1, <2>2, <3>1, <5>1, <5>2 DEF BPS
      <4> QED
        BY <2>3, <3>4, <4>2 DEF FeeWithinReward
    <3>5. CASE call.convert
      <4>1. /\ FeeBase[Target] = reward[Target] + RewardOut /\ FeeBase[Input] = 0
            /\ RewardOut \in Nat /\ RewardOut * TotalIn <= out * RewardIn
            /\ TotalIn = 0 => RewardOut = 0
        BY <1>1, <3>5, FeeBaseBound, RewardOutBound
      <4>2. TotalIn = delta[Input] /\ RewardIn = reward[Input] /\ TotalIn \in Nat
        BY <1>1, TotalInIsDelta DEF RewardIn
      <4>3. fee[Input] = 0 /\ fee[Target] \in Nat
            /\ fee[Target] * BPS <= (reward[Target] + RewardOut) * call.feePercent
        BY <2>1, <2>2, <4>1
      <4>4. CASE delta[Input] = 0
        <5>1. fee[Target] * BPS <= reward[Target] * call.feePercent
          BY <2>1, <3>1, <4>1, <4>2, <4>3, <4>4
        <5>2. reward[Target] * call.feePercent <= call.feePercent * owed[Target]
          BY <2>1, <3>1, <3>2
        <5>3. fee[Target] * BPS <= call.feePercent * owed[Target]
          BY <2>1, <3>1, <4>3, <5>1, <5>2 DEF BPS
        <5> QED
          BY <2>3, <3>3, <3>5, <4>3, <4>4, <5>3 DEF FeeWithinReward
      <4>5. CASE delta[Input] # 0
        <5>1. fee[Target] * BPS * delta[Input]
                <= call.feePercent * (owed[Target] * delta[Input] + out * owed[Input])
          BY <2>1, <3>1, <3>2, <4>1, <4>2, <4>3, ConvertedFee
        <5> QED
          BY <2>3, <3>3, <3>5, <4>3, <4>5, <5>1 DEF FeeWithinReward
      <4> QED
        BY <4>4, <4>5
    <3> QED
      BY <3>4, <3>5
  <2>10. StepInv'
    BY <1>1, <2>3, <2>8, <2>9 DEF IInv, StepInv, CallChecked, NothingOutYet, AtCpi,
    RewardWithinDelta, RewardWasPaid, FeeShare, AtConvert, AtCharge, NetCoversFee,
    NetAvailable, Unsettled, Settling
  <2> QED
    BY <2>7, <2>10 DEF IInv
<1> QED
  BY <1>2, <1>3, <1>4

(***************************************************************************)
(* The settlement.                                                         *)
(***************************************************************************)

\* The inequality of the fee is about values no later step changes.
LEMMA FeeShareKept ==
  ASSUME FeeWithinReward, UNCHANGED <<call, feeDue, delta, owed, out>>
  PROVE  FeeWithinReward'
  BY DEF FeeWithinReward, Target, Input

LEMMA TallyIInv == IInv /\ Tally => IInv'
<1> SUFFICES ASSUME IInv, Tally PROVE IInv'
  OBVIOUS
<1>1. /\ pc = "tally" /\ pc' = "settle0" /\ cached' = tok[Signer]
      /\ net' = [s \in Sides |-> SatSub(tok[Signer][s], before[s])]
      /\ UNCHANGED <<ledger, native, price, saved, call, before, expected, delta, reward,
                     owed, lost, spent, out, dust, feeDue, event, status, calls>>
  BY DEF Tally
<1>2. tok[Signer] \in [Sides -> Nat] /\ before \in [Sides -> Nat]
      /\ feeDue \in [Sides -> Nat] /\ native \in {0, 1, NoSide}
  BY <1>1, CallFacts DEF IInv, TypeOK
<1>3. net' \in [Sides -> Nat] /\ \A s \in Sides : net'[s] <= tok[Signer][s]
  BY <1>1, <1>2, SatSubBound
<1>4. TypeOK'
  BY <1>1, <1>2, <1>3 DEF IInv, TypeOK, ledger, Steps
<1>5. NetCoversFee'
  <2>1. ASSUME native # NoSide PROVE net'[native] >= feeDue[native]
    <3>1. native \in Sides
      BY <1>2, <2>1 DEF Sides
    <3>2. feeDue[native] > 0 => tok[Signer][native] >= before[native] + feeDue[native]
      BY <1>1, <2>1 DEF IInv, StepInv, AtTally
    <3> QED
      BY <1>1, <1>2, <3>1, <3>2 DEF SatSub
  <2> QED
    BY <1>1, <2>1 DEF NetCoversFee
<1>6. FeeWithinReward'
  BY <1>1, FeeShareKept DEF IInv, StepInv, FeeShare
<1>7. StepInv'
  BY <1>1, <1>3, <1>5, <1>6 DEF IInv, StepInv, ledger, CallChecked, NothingOutYet, AtCpi,
  RewardWithinDelta, RewardWasPaid, FeeShare, AtConvert, AtCharge, AtTally, NetAvailable,
  Unsettled, Settling
<1> QED
  BY <1>4, <1>7 DEF IInv

\* Settling side s leaves the tokens of the side settled after it.
LEMMA SettledStep ==
  ASSUME IInv, NEW s \in Sides, AtSettle(s), AfterSettle(s),
         s = 0 => tok'[Signer][1] = tok[Signer][1],
         UNCHANGED <<native, call, locals>>
  PROVE  StepInv'
<1>1. /\ pc \in {"settle0", "settle1"} /\ pc' \in {"settle1", "exit"}
      /\ pc' = "settle1" => s = 0 /\ pc = "settle0"
  BY DEF AtSettle, AfterSettle, Sides
<1>2. FeeWithinReward'
  BY <1>1, FeeShareKept DEF IInv, StepInv, FeeShare, Settling, locals
<1>3. NetCoversFee'
  BY <1>1 DEF IInv, StepInv, NetCoversFee, Settling, locals
<1>4. NetAvailable'
  <2>1. pc' = "settle1" => net'[1] <= tok'[Signer][1]
    BY <1>1 DEF IInv, StepInv, NetAvailable, Unsettled, Sides, locals
  <2> QED
    BY <1>1, <2>1 DEF NetAvailable, Unsettled
<1> QED
  BY <1>1, <1>2, <1>3, <1>4 DEF IInv, StepInv, locals, CallChecked, NothingOutYet, AtCpi,
  RewardWithinDelta, RewardWasPaid, FeeShare, AtConvert, AtCharge, AtTally, Settling

\* A side that is being settled has its net amount in the transit account.
LEMMA SettleFacts ==
  ASSUME IInv, NEW s \in Sides, AtSettle(s)
  PROVE  /\ pc # "idle" /\ pc \in {"settle0", "settle1"}
         /\ net[s] \in Nat /\ net[s] <= tok[Signer][s] /\ feeDue[s] \in Nat
         /\ Signer \in Wallets /\ call.recipient \in Wallets /\ call.feeOwner \in Wallets
         /\ tok \in [Wallets -> [Sides -> Nat]] /\ sol \in [Wallets -> Nat]
         /\ acct \in [Sides -> TransitType]
<1>1. pc \in {"settle0", "settle1"} /\ s \in Unsettled
  BY DEF AtSettle, Unsettled, Sides
<1> QED
  BY <1>1, CallFacts DEF IInv, TypeOK, StepInv, NetAvailable

LEMMA SettleNothingIInv ==
  ASSUME IInv, NEW s \in Sides, SettleNothing(s)
  PROVE  IInv'
<1>1. TypeOK'
  BY SettleFacts DEF IInv, TypeOK, SettleNothing, AfterSettle, AtSettle, ledger, locals, Steps
<1>2. StepInv'
  BY SettledStep DEF SettleNothing, ledger
<1> QED
  BY <1>1, <1>2 DEF IInv

LEMMA SettleTokenIInv ==
  ASSUME IInv, NEW s \in Sides, SettleToken(s)
  PROVE  IInv'
<1>1. /\ AtSettle(s) /\ AfterSettle(s)
      /\ tok' = SendToken(tok, call.recipient, s, net[s])
      /\ UNCHANGED <<sol, acct, native, price, saved, call, locals, status, calls>>
  BY DEF SettleToken
<1>2. /\ tok' \in [Wallets -> [Sides -> Nat]]
      /\ \A z \in Sides : z # s => tok'[Signer][z] = tok[Signer][z]
  BY <1>1, SettleFacts, SendTokenType
<1>3. TypeOK'
  BY <1>1, <1>2, SettleFacts DEF IInv, TypeOK, AfterSettle, locals, Steps
<1>4. StepInv'
  BY <1>1, <1>2, SettledStep DEF Sides
<1> QED
  BY <1>3, <1>4 DEF IInv

LEMMA SettleNativeIInv ==
  ASSUME IInv, NEW s \in Sides, SettleNative(s)
  PROVE  IInv'
<1> DEFINE unwrapped == CloseLamports(tok, sol, Signer, s, Rent)
           feePaid   == MoveSol(unwrapped, Signer, call.feeOwner, feeDue[s])
<1>1. AtSettle(s) /\ net[s] > 0 /\ s = native
  BY DEF SettleNative
<1>2. CASE net[s] < feeDue[s] \/ CloseRefused(acct[s])
  BY <1>2, AbortIInv, RefuseIInv DEF SettleNative, Errors
<1>3. CASE ~(net[s] < feeDue[s] \/ CloseRefused(acct[s]))
  <2>1. /\ tok' = CloseTokens(tok, Signer, s) /\ acct' = CloseAccount(acct, s)
        /\ sol' = MoveSol(feePaid, Signer, call.recipient, net[s] - feeDue[s])
        /\ AfterSettle(s)
        /\ UNCHANGED <<native, price, saved, call, locals, status, calls>>
    BY <1>3 DEF SettleNative
  <2>2. feeDue[s] <= net[s]
    BY <1>1, <1>3, SettleFacts
  <2>3. unwrapped \in [Wallets -> Nat] /\ unwrapped[Signer] >= net[s]
    BY <1>1, SettleFacts, DecreaseAssumption DEF CloseLamports
  <2>4. feePaid \in [Wallets -> Nat] /\ feePaid[Signer] >= net[s] - feeDue[s]
    <3> HIDE DEF unwrapped
    <3>1. feeDue[s] \in Nat /\ feeDue[s] <= unwrapped[Signer] /\ net[s] \in Nat
      BY <1>1, <2>2, <2>3, SettleFacts
    <3>2. /\ feePaid \in [Wallets -> Nat]
          /\ feePaid[Signer] >= unwrapped[Signer] - feeDue[s]
      BY <1>1, <2>3, <3>1, SettleFacts, MoveSolType
    <3> HIDE DEF feePaid
    <3> QED
      BY <1>1, <2>3, <3>1, <3>2, SettleFacts
  <2> HIDE DEF feePaid, unwrapped
  <2>5. sol' \in [Wallets -> Nat]
    <3>1. net[s] - feeDue[s] \in Nat /\ net[s] - feeDue[s] <= feePaid[Signer]
      BY <1>1, <2>2, <2>4, SettleFacts
    <3> QED
      BY <1>1, <2>1, <2>4, <3>1, SettleFacts, MoveSolType
  <2>6. tok' \in [Wallets -> [Sides -> Nat]]
        /\ \A z \in Sides : z # s => tok'[Signer][z] = tok[Signer][z]
    BY <1>1, <2>1, SettleFacts DEF CloseTokens
  <2>7. acct' \in [Sides -> TransitType]
    BY <1>1, <2>1, SettleFacts DEF CloseAccount, TransitType
  <2>8. TypeOK'
    BY <1>1, <2>1, <2>5, <2>6, <2>7, SettleFacts
    DEF IInv, TypeOK, AfterSettle, locals, Steps
  <2>9. StepInv'
    BY <1>1, <2>1, <2>6, SettledStep DEF Sides
  <2> QED
    BY <2>8, <2>9 DEF IInv
<1> QED
  BY <1>2, <1>3

(***************************************************************************)
(* The end of the call, and what happens between two calls.                *)
(***************************************************************************)
LEMMA ExitFailsIInv == IInv /\ ExitFails => IInv'
  BY AbortIInv, ErrorNames DEF ExitFails

LEMMA CommitIInv == IInv /\ Commit => IInv'
<1> SUFFICES ASSUME IInv, Commit PROVE IInv'
  OBVIOUS
<1>1. TypeOK'
  BY DEF IInv, TypeOK, Commit, ledger, locals, Steps
<1>2. FeeWithinReward'
  BY FeeShareKept DEF IInv, StepInv, FeeShare, Settling, Commit, locals
<1>3. NetCoversFee'
  BY DEF IInv, StepInv, NetCoversFee, Settling, Commit, locals
<1>4. StepInv'
  BY <1>2, <1>3 DEF IInv, StepInv, Commit, ledger, locals, CallChecked, NothingOutYet,
  AtCpi, RewardWithinDelta, RewardWasPaid, FeeShare, AtConvert, AtCharge, AtTally,
  NetAvailable, Unsettled, Settling
<1> QED
  BY <1>1, <1>4 DEF IInv

LEMMA ReturnIInv == IInv /\ Return => IInv'
<1> SUFFICES ASSUME IInv, Return PROVE IInv'
  OBVIOUS
<1>1. TypeOK'
  BY EmptyLocalsType DEF IInv, TypeOK, Return, ledger, Steps
<1>2. pc' = "idle" /\ out' = 0
  BY EmptyLocalsType DEF Return
<1> QED
  BY <1>1, <1>2, IdleStep DEF IInv

LEMMA ReopenNativeIInv ==
  ASSUME IInv, NEW isAta \in BOOLEAN, ReopenNative(isAta)
  PROVE  IInv'
<1>1. /\ pc = "idle" /\ native \in Sides /\ sol[Signer] >= Rent
      /\ sol' = [sol EXCEPT ![Signer] = @ - Rent]
      /\ acct' = [acct EXCEPT ![native] =
                    [live |-> TRUE, ata |-> isAta, delegate |-> FALSE, closeAuth |-> FALSE]]
      /\ UNCHANGED <<tok, native, price, saved, pc, call, locals, status, calls>>
  BY DEF ReopenNative, Between, IInv, TypeOK, Sides, NoSide
<1>2. [live |-> TRUE, ata |-> isAta, delegate |-> FALSE, closeAuth |-> FALSE]
        \in TransitType
  BY Zenon DEF TransitType
<1>3. sol' \in [Wallets -> Nat]
  BY <1>1, DecreaseAssumption DEF IInv, TypeOK
<1>4. acct' \in [Sides -> TransitType]
  BY <1>1, <1>2 DEF IInv, TypeOK
<1>5. TypeOK'
  BY <1>1, <1>3, <1>4 DEF IInv, TypeOK, locals
<1>6. pc' = "idle" /\ out' = 0
  BY <1>1 DEF IInv, StepInv, NothingOutYet, locals
<1> QED
  BY <1>5, <1>6, IdleStep DEF IInv

LEMMA SetPermissionsIInv ==
  ASSUME IInv, NEW s \in Sides, NEW perm \in Permissions, SetPermissions(s, perm)
  PROVE  IInv'
<1>1. /\ pc = "idle"
      /\ acct' = [acct EXCEPT ![s].delegate = perm.delegate, ![s].closeAuth = perm.closeAuth]
      /\ UNCHANGED <<tok, sol, native, price, saved, pc, call, locals, status, calls>>
  BY DEF SetPermissions, Between
<1>2. perm \in [delegate : BOOLEAN, closeAuth : BOOLEAN]
  BY DecreaseAssumption
<1>3. acct' \in [Sides -> TransitType]
  <2> DEFINE changed == [acct[s] EXCEPT !.delegate = perm.delegate, !.closeAuth = perm.closeAuth]
  <2>1. acct \in [Sides -> TransitType]
    BY DEF IInv, TypeOK
  <2>2. changed \in TransitType
    BY <1>2, <2>1 DEF TransitType
  <2>3. acct' = [acct EXCEPT ![s] = changed]
    BY <1>1, <2>1 DEF TransitType
  <2> HIDE DEF changed
  <2> QED
    BY <2>1, <2>2, <2>3
<1>4. TypeOK'
  BY <1>1, <1>3 DEF IInv, TypeOK, locals
<1>5. pc' = "idle" /\ out' = 0
  BY <1>1 DEF IInv, StepInv, NothingOutYet, locals
<1> QED
  BY <1>4, <1>5, IdleStep DEF IInv

LEMMA PriceMovesIInv ==
  ASSUME IInv, NEW p \in SqrtPrices, PriceMoves(p)
  PROVE  IInv'
<1>1. /\ pc = "idle" /\ price' = p
      /\ UNCHANGED <<ledger, native, saved, pc, call, locals, status, calls>>
  BY DEF PriceMoves, Between
<1>2. TypeOK'
  BY <1>1, DecreaseAssumption DEF IInv, TypeOK, ledger, locals
<1>3. pc' = "idle" /\ out' = 0
  BY <1>1 DEF IInv, StepInv, NothingOutYet, locals
<1> QED
  BY <1>2, <1>3, IdleStep DEF IInv

LEMMA StutterIInv == IInv /\ UNCHANGED vars => IInv'
  BY DEF IInv, TypeOK, StepInv, vars, ledger, locals, CallChecked, NothingOutYet, AtCpi,
  RewardWithinDelta, RewardWasPaid, FeeShare, FeeWithinReward, AtConvert, AtCharge,
  AtTally, NetCoversFee, NetAvailable, Unsettled, Settling, Target, Input

(***************************************************************************)
(* The invariant, and the theorems.                                        *)
(***************************************************************************)
LEMMA NextIInv == IInv /\ [Next]_vars => IInv'
<1> SUFFICES ASSUME IInv, [Next]_vars PROVE IInv'
  OBVIOUS
<1>1. CASE \E c \in Calls : Reject(c) \/ Begin(c)
  BY <1>1, RejectIInv, BeginIInv
<1>2. CASE Handler
  <2>1. CASE \E p \in Payouts : DecreaseCpi(p) \/ PrincipalFails(p)
    BY <2>1, DecreaseCpiIInv, PrincipalFailsIInv
  <2>2. CASE \E received \in SwapOuts : \E unspent \in SwapRests :
               ConvertSwap(received, unspent)
    BY <2>2, ConvertSwapIInv
  <2>3. CASE \E s \in Sides : SettleNothing(s) \/ SettleToken(s) \/ SettleNative(s)
    BY <2>3, SettleNothingIInv, SettleTokenIInv, SettleNativeIInv
  <2>4. CASE CpiFails \/ ConvertNothing \/ ThresholdFails \/ ConvertDust \/ SwapFails
    BY <2>4, CpiFailsIInv, ConvertNothingIInv, ThresholdFailsIInv, ConvertDustIInv,
       SwapFailsIInv
  <2>5. CASE Charge \/ Tally \/ ExitFails \/ Commit \/ Return
    BY <2>5, ChargeIInv, TallyIInv, ExitFailsIInv, CommitIInv, ReturnIInv
  <2> QED
    BY <1>2, <2>1, <2>2, <2>3, <2>4, <2>5 DEF Handler
<1>3. CASE Environment
  BY <1>3, ReopenNativeIInv, SetPermissionsIInv, PriceMovesIInv DEF Environment
<1>4. CASE UNCHANGED vars
  BY <1>4, StutterIInv
<1> QED
  BY <1>1, <1>2, <1>3, <1>4 DEF Next

LEMMA Invariance == Spec => []IInv
  BY InitIInv, NextIInv, PTL DEF Spec

\* Type correctness: whatever the pool pays, a swap returns and the user does between
\* calls, no balance, lamport count, fee or remainder of the withdrawal goes below 0.
THEOREM TypeCorrect == Spec => []TypeOK
<1>1. IInv => TypeOK
  BY DEF IInv
<1> QED
  BY <1>1, Invariance, PTL

\* The require of the settlement (decrease_liquidity.rs, net amount against the wSOL
\* fee) holds in every settlement.
THEOREM FeeIsCovered == Spec => []NetCoversFee
<1>1. IInv => NetCoversFee
  BY DEF IInv, StepInv
<1> QED
  BY <1>1, Invariance, PTL

\* For every price, payout, fee rate and conversion, the fee is within the percentage
\* of the reward that was really paid.
THEOREM FeeWithinPaidReward == Spec => []FeeOnRewardOnly
<1>1. IInv => FeeOnRewardOnly
  BY DEF IInv, StepInv, FeeShare, FeeOnRewardOnly
<1> QED
  BY <1>1, Invariance, PTL

(***************************************************************************)
(* The fee from below.  The reward the handler splits off is at most one   *)
(* unit and the transfer fee short of the reward that was paid, and every  *)
(* division of the fee rounds away less than one unit.                     *)
(***************************************************************************)

RewardFloor == pc \in {"convert", "charge"} => \A s \in Sides : reward[s] >= Chargeable(s)

FloorInv == RewardFloor /\ (pc = "tally" \/ Settling => FeeReachesReward)

\* A fee is rounded down by less than one unit.
LEMMA FeeOfFloor ==
  ASSUME IInv, pc # "idle", NEW amount \in Nat
  PROVE  (FeeOf(amount) + 1) * BPS > amount * call.feePercent
<1>1. call.feePercent \in Nat /\ amount * call.feePercent \in Nat
  BY CallFacts
<1>2. FeeOf(amount) = (amount * call.feePercent) \div 10000
  BY BpsValue DEF FeeOf
<1>3. \A n \in Nat : ((n \div 10000) + 1) * 10000 > n
  OBVIOUS
<1> QED
  BY <1>1, <1>2, <1>3, BpsValue

\* The converted part of the reward is rounded down by less than one unit.
LEMMA RewardOutFloor ==
  ASSUME IInv, pc = "charge", delta[Input] # 0
  PROVE  RewardOut * delta[Input] > out * reward[Input] - delta[Input]
<1>1. /\ TotalIn = delta[Input] /\ RewardIn = reward[Input] /\ TotalIn \in Nat
      /\ RewardIn \in Nat /\ out \in Nat
  BY TotalInIsDelta DEF RewardIn, IInv, TypeOK
<1>2. CASE RewardIn = 0
  BY <1>1, <1>2 DEF RewardOut
<1>3. CASE RewardIn # 0
  <2>1. RewardOut = (out * RewardIn) \div TotalIn
    BY <1>1, <1>3 DEF RewardOut
  <2>2. out * RewardIn \in Nat /\ TotalIn \in Nat \ {0}
    BY <1>1
  <2>3. \A n \in Nat, d \in Nat \ {0} : (n \div d) * d > n - d
    OBVIOUS
  <2> QED
    BY <1>1, <2>1, <2>2, <2>3
<1> QED
  BY <1>2, <1>3

\* The inequality behind FeeReachesReward: a fee on the base r + x, where r is at least
\* o and x at least the share ri/d of the output, up to a unit.
LEMMA ConvertedFeeFloor ==
  ASSUME NEW r \in Nat, NEW o \in Int, NEW x \in Nat, NEW d \in Nat \ {0}, NEW ri \in Nat,
         NEW oi \in Int, NEW output \in Nat, NEW percent \in Nat, NEW charged \in Nat,
         o <= r, oi <= ri, x * d > output * ri - d, charged > (r + x) * percent
  PROVE  charged * d > percent * (o * d + output * oi - d)
<1>1. output * oi <= output * ri
  OBVIOUS
<1>2. o * d <= r * d
  OBVIOUS
<1>3. (r + x) * d >= o * d + output * oi - d
  <2>1. (r + x) * d = r * d + x * d
    OBVIOUS
  <2>2. /\ r * d \in Int /\ x * d \in Int /\ o * d \in Int
        /\ output * oi \in Int /\ output * ri \in Int
    OBVIOUS
  <2> QED
    BY <1>1, <1>2, <2>1, <2>2
<1>4. percent * ((r + x) * d) >= percent * (o * d + output * oi - d)
  <2>1. \A a, b \in Int : a >= b => percent * a >= percent * b
    OBVIOUS
  <2>2. (r + x) * d \in Int /\ o * d + output * oi - d \in Int
    OBVIOUS
  <2> QED
    BY <1>3, <2>1, <2>2
<1>5. charged * d > ((r + x) * percent) * d
  <2>1. \A a, b \in Int : a > b => a * d > b * d
    OBVIOUS
  <2>2. (r + x) * percent \in Int
    OBVIOUS
  <2> QED
    BY <2>1, <2>2
<1>6. ((r + x) * percent) * d = percent * ((r + x) * d)
  OBVIOUS
<1>7. /\ charged * d \in Int /\ percent * ((r + x) * d) \in Int
      /\ percent * (o * d + output * oi - d) \in Int
  OBVIOUS
<1> QED
  BY <1>4, <1>5, <1>6, <1>7

LEMMA CpiFloor ==
  ASSUME IInv, NEW p \in Payouts, DecreaseCpi(p), pc' # "idle"
  PROVE  FloorInv'
<1> DEFINE balance == [s \in Sides |-> tok[Signer][s] + Arrives(s, Paid(p)[s])]
           gained  == [s \in Sides |-> balance[s] - before[s]]
           planned == Planned(p)
<1>1. ~(\A s \in Sides : gained[s] = 0)
  BY DEF DecreaseCpi, Refuse, Abort
<1>2. /\ pc = "cpi"
      /\ reward' = [s \in Sides |-> SatSub(gained[s], planned[s])]
      /\ owed' = p.reward
      /\ lost' = [s \in Sides |-> Withheld(s, Paid(p)[s])]
      /\ pc' = IF call.convert THEN "convert" ELSE "charge"
  BY <1>1 DEF DecreaseCpi
<1>3. tok[Signer] = before /\ before \in [Sides -> Nat]
  BY <1>2 DEF IInv, TypeOK, StepInv, AtCpi
<1>4. ExactPrincipal(p) \in [Sides -> Nat] /\ p.reward \in [Sides -> Nat]
  BY DecreaseAssumption, ZeroType DEF ExactPrincipal, PayoutType
<1>5. ASSUME NEW s \in Sides PROVE reward'[s] >= owed'[s] - lost'[s] - 1
  <2>1. /\ ExactPrincipal(p)[s] \in Nat /\ p.reward[s] \in Nat
        /\ Paid(p)[s] = ExactPrincipal(p)[s] \div PRECISION + p.reward[s]
        /\ Paid(p)[s] \in Nat
    BY <1>4 DEF Paid, PRECISION
  <2>2. /\ gained[s] = Paid(p)[s] - Withheld(s, Paid(p)[s])
        /\ Withheld(s, Paid(p)[s]) \in Nat /\ gained[s] \in Nat
    BY <1>3, <2>1, ArrivesBound DEF Arrives
  <2>3. planned[s] <= ExactPrincipal(p)[s] \div PRECISION + 1 /\ planned[s] \in Nat
    BY <2>1 DEF Planned, CeilDiv, PRECISION
  <2>4. SatSub(gained[s], planned[s]) >= gained[s] - planned[s]
    BY <2>2, <2>3 DEF SatSub
  <2>5. SatSub(gained[s], planned[s]) \in Nat
    BY <2>2, <2>3, SatSubBound
  <2>6. /\ reward'[s] = SatSub(gained[s], planned[s]) /\ owed'[s] = p.reward[s]
        /\ lost'[s] = Withheld(s, Paid(p)[s])
    BY <1>2
  <2>7. ExactPrincipal(p)[s] \div PRECISION \in Nat
    BY <2>1 DEF PRECISION
  <2> HIDE DEF gained, planned
  <2> QED
    BY <2>1, <2>2, <2>3, <2>4, <2>5, <2>6, <2>7
<1> QED
  BY <1>2, <1>5 DEF FloorInv, RewardFloor, Chargeable, Settling

LEMMA ChargeFloor ==
  ASSUME IInv, FloorInv, Charge, pc' # "idle"
  PROVE  FloorInv'
<1>1. /\ pc = "charge" /\ pc' = "tally"
      /\ feeDue' = [s \in Sides |-> FeeOf(FeeBase[s])]
      /\ UNCHANGED <<call, delta, reward, owed, lost, out>>
  BY DEF Charge, Refuse, Abort
<1>2. /\ reward \in [Sides -> Nat] /\ owed \in [Sides -> Nat] /\ lost \in [Sides -> Nat]
      /\ delta \in [Sides -> Nat] /\ out \in Nat /\ Target \in Sides /\ Input \in Sides
      /\ call.feePercent \in Nat /\ call.convert \in BOOLEAN
  BY <1>1, CallFacts DEF IInv, TypeOK
<1>3. \A s \in Sides : Chargeable(s) \in Int /\ Chargeable(s) <= reward[s]
  BY <1>1, <1>2 DEF FloorInv, RewardFloor, Chargeable
<1>4. FeeBase \in [Sides -> Nat]
  BY <1>1, FeeBaseBound
<1>5. \A s \in Sides : /\ feeDue'[s] \in Nat
                       /\ (feeDue'[s] + 1) * BPS > FeeBase[s] * call.feePercent
  BY <1>1, <1>4, FeeOfBound, FeeOfFloor
<1>6. \A s \in Sides : Chargeable(s)' = Chargeable(s)
  BY <1>1 DEF Chargeable
<1>7. Target' = Target /\ Input' = Input
  BY <1>1 DEF Target, Input
\* A base that covers what must be charged is enough.
<1>8. ASSUME NEW s \in Sides, FeeBase[s] >= Chargeable(s)
      PROVE  (feeDue'[s] + 1) * BPS > call.feePercent * Chargeable(s)
  <2>1. FeeBase[s] * call.feePercent >= call.feePercent * Chargeable(s)
    BY <1>2, <1>3, <1>4, <1>8
  <2>2. /\ (feeDue'[s] + 1) * BPS \in Int /\ FeeBase[s] * call.feePercent \in Int
        /\ call.feePercent * Chargeable(s) \in Int
    BY <1>2, <1>3, <1>4, <1>5, BpsValue
  <2> QED
    BY <1>5, <2>1, <2>2
<1>9. FeeReachesReward'
  <2>1. CASE ~call.convert
    <3>1. FeeBase = reward
      BY <1>1, <2>1, FeeBaseBound
    <3> QED
      BY <1>1, <1>3, <1>6, <1>8, <2>1, <3>1 DEF FeeReachesReward
  <2>2. CASE call.convert
    <3>1. FeeBase[Target] = reward[Target] + RewardOut /\ RewardOut \in Nat
      BY <1>1, <2>2, FeeBaseBound, RewardOutBound
    <3>2. CASE delta[Input] = 0
      <4>1. FeeBase[Target] >= Chargeable(Target)
        BY <1>2, <1>3, <3>1
      <4> QED
        BY <1>1, <1>2, <1>6, <1>7, <1>8, <2>2, <3>2, <4>1 DEF FeeReachesReward
    <3>3. CASE delta[Input] # 0
      <4> DEFINE charged == (feeDue'[Target] + 1) * BPS
      <4>1. charged \in Nat /\ charged > (reward[Target] + RewardOut) * call.feePercent
        BY <1>2, <1>5, <3>1, BpsValue
      <4>2. RewardOut * delta[Input] > out * reward[Input] - delta[Input]
        BY <1>1, <3>3, RewardOutFloor
      <4>3. delta[Input] \in Nat \ {0}
        BY <1>2, <3>3
      <4> HIDE DEF charged
      <4>4. charged * delta[Input] >
              call.feePercent * (Chargeable(Target) * delta[Input]
                                   + out * Chargeable(Input) - delta[Input])
        BY <1>2, <1>3, <3>1, <4>1, <4>2, <4>3, ConvertedFeeFloor
      <4> QED
        BY <1>1, <1>2, <1>6, <1>7, <2>2, <3>3, <4>4 DEF FeeReachesReward, charged
    <3> QED
      BY <3>2, <3>3
  <2> QED
    BY <1>2, <2>1, <2>2
<1> QED
  BY <1>1, <1>9 DEF FloorInv, RewardFloor

\* What the handler does around the split of the reward and the fee.
LEMMA FloorSteps ==
  ASSUME IInv, [Next]_vars
  PROVE  \/ pc' \in {"idle", "cpi"}
         \/ \E p \in Payouts : DecreaseCpi(p)
         \/ Charge
         \/ pc \in {"convert", "charge"} /\ pc' = "charge" /\ UNCHANGED <<reward, owed, lost>>
         \/ pc \in {"convert"} /\ pc' = "convert" /\ UNCHANGED <<reward, owed, lost>>
         \/ /\ pc = "tally" \/ Settling
            /\ pc' = "tally" \/ Settling'
            /\ UNCHANGED <<call, delta, feeDue, owed, lost, out>>
<1> USE DEF Abort, Refuse
<1>1. ASSUME NEW c \in Calls, Reject(c) \/ Begin(c) PROVE pc' \in {"idle", "cpi"}
  BY <1>1 DEF Reject, Begin, Submit
<1>2. CASE \/ \E p \in Payouts : PrincipalFails(p)
           \/ CpiFails \/ ThresholdFails \/ SwapFails \/ ExitFails \/ Return
  BY <1>2 DEF PrincipalFails, CpiFails, ThresholdFails, SwapFails, ExitFails, Return
<1>3. CASE ConvertNothing \/ ConvertDust
  BY <1>3 DEF ConvertNothing, ConvertDust, locals
<1>4. ASSUME NEW received \in SwapOuts, NEW unspent \in SwapRests,
             ConvertSwap(received, unspent)
      PROVE  pc = "convert" /\ pc' = "charge" /\ UNCHANGED <<reward, owed, lost>>
  BY <1>4 DEF ConvertSwap
<1>5. CASE Tally \/ Commit
  BY <1>5 DEF Tally, Commit, Settling, locals
<1>6. ASSUME NEW s \in Sides, SettleNothing(s) \/ SettleToken(s) \/ SettleNative(s)
      PROVE  \/ pc' = "idle"
             \/ /\ Settling /\ Settling'
                /\ UNCHANGED <<call, delta, feeDue, owed, lost, out>>
  BY <1>6 DEF SettleNothing, SettleToken, SettleNative, AtSettle, AfterSettle, Settling,
              locals
<1>7. CASE Environment
  BY <1>7 DEF Environment, ReopenNative, SetPermissions, PriceMoves, Between
<1>8. CASE UNCHANGED vars
  <2>1. pc \in Steps /\ UNCHANGED <<pc, call, delta, reward, feeDue, owed, lost, out>>
    BY <1>8 DEF IInv, TypeOK, vars, locals
  <2> QED
    BY <2>1 DEF Steps, Settling
<1> QED
  BY <1>1, <1>2, <1>3, <1>4, <1>5, <1>6, <1>7, <1>8 DEF Next, Handler

LEMMA NextFloor == IInv /\ FloorInv /\ [Next]_vars => FloorInv'
<1> SUFFICES ASSUME IInv, FloorInv, [Next]_vars PROVE FloorInv'
  OBVIOUS
<1>1. CASE pc' \in {"idle", "cpi"}
  BY <1>1 DEF FloorInv, RewardFloor, Settling
<1>2. CASE \E p \in Payouts : DecreaseCpi(p)
  BY <1>1, <1>2, CpiFloor
<1>3. CASE Charge
  BY <1>1, <1>3, ChargeFloor
<1>4. CASE /\ pc \in {"convert", "charge"} /\ pc' \in {"convert", "charge"}
           /\ UNCHANGED <<reward, owed, lost>>
  BY <1>4 DEF FloorInv, RewardFloor, Chargeable, Settling
<1>5. CASE /\ pc = "tally" \/ Settling
           /\ pc' = "tally" \/ Settling'
           /\ UNCHANGED <<call, delta, feeDue, owed, lost, out>>
  <2>1. Target' = Target /\ Input' = Input /\ \A s \in Sides : Chargeable(s)' = Chargeable(s)
    BY <1>5 DEF Target, Input, Chargeable
  <2>2. FeeReachesReward
    BY <1>5 DEF FloorInv
  <2>3. FeeReachesReward'
    BY <1>5, <2>1, <2>2 DEF FeeReachesReward, Target, Input, Chargeable
  <2> QED
    BY <1>5, <2>3 DEF FloorInv, RewardFloor, Settling
<1> QED
  BY <1>1, <1>2, <1>3, <1>4, <1>5, FloorSteps

=============================================================================

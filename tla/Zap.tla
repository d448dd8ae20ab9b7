--------------------------------- MODULE Zap ---------------------------------
(***************************************************************************)
(* The two deposit instructions, swap_and_deposit (op = "deposit") and     *)
(* increase_liquidity (op = "increase"): the handlers of those files and   *)
(* zap_common.rs, inside the entry and exit checks.  Both swap part of the *)
(* input at most once, let Raydium take what the position needs, return    *)
(* the leftovers (swapped to return_mint when one is given), and close the *)
(* wSOL account.                                                           *)
(*                                                                         *)
(* Steps, Abort and the environment are as in DecreaseLiquidity.  A tick   *)
(* is represented by the sqrt price at it, which get_sqrt_price_at_tick    *)
(* gives in the same order.                                                *)
(***************************************************************************)
EXTENDS LiquidityMath, SecurityLayer, TokenLedger

CONSTANTS
  Wallets, Signer,
  Config,          \* the parsed security_config: [live, pools, feeOwners]
  Calls,           \* the calls a user may submit, see CallType
  SqrtPrices, SwapOuts,
  SwapExtras,      \* how much more or less than asked a swap may take
  DepositFees,     \* what a deposited token may charge on top, see Token-2022
  TRADE_FEE_RATE, Rent, OwnToken, OwnSol, Natives, Permissions, MaxCalls

Foreign == 3

\* returnMint is NoSide when none is given, Foreign when it is not a mint of the
\* pool.  [lower, upper] is the range in the arguments, [posLower, posUpper] the range
\* of the position that receives the liquidity.  planIn, planMinOut and planSide are
\* the swap the client planned.
CallType == [op : {"deposit", "increase"}, recipient : Wallets, feeOwner : Wallets,
             pool : STRING, amountIn : [Sides -> Nat], returnMint : 0..3,
             lower : Nat \ {0}, upper : Nat \ {0},
             posLower : Nat \ {0}, posUpper : Nat \ {0},
             slippage : Nat, planIn : Nat, planMinOut : Nat, planSide : Sides,
             executables : SUBSET STRING, separators : Nat, swapAccountsOk : BOOLEAN]

NoCall == [op |-> "deposit", recipient |-> Signer, feeOwner |-> Signer, pool |-> "none",
           amountIn |-> Zero, returnMint |-> NoSide, lower |-> 0, upper |-> 0,
           posLower |-> 0, posUpper |-> 0, slippage |-> 0, planIn |-> 0,
           planMinOut |-> 0, planSide |-> 0, executables |-> {}, separators |-> 0,
           swapAccountsOk |-> FALSE]

ASSUME ZapAssumption ==
  /\ Signer \in Wallets
  /\ Calls \subseteq CallType
  \* open_position takes its range from the arguments
  /\ \A c \in Calls : c.op = "deposit" => c.posLower = c.lower /\ c.posUpper = c.upper
  \* a position has a range
  /\ \A c \in Calls : c.op = "increase" => c.posLower < c.posUpper
  \* lib.rs passes the signer as the recipient of increase_liquidity
  /\ \A c \in Calls : c.op = "increase" => c.recipient = Signer
  /\ SqrtPrices \subseteq Nat /\ SwapOuts \subseteq Nat /\ SwapExtras \subseteq Int
  /\ TRADE_FEE_RATE \in 0..FEE_UNIT
  /\ Rent \in Nat /\ OwnToken \in 0..U64_MAX /\ OwnSol \in Nat /\ MaxCalls \in Nat
  /\ DepositFees \subseteq Nat
  /\ Natives \subseteq {0, 1, NoSide}
  /\ Permissions \subseteq [delegate : BOOLEAN, closeAuth : BOOLEAN]

VARIABLES
  tok, sol, acct, native, price, saved, pc, call,
  exec,          \* the swap that is run: [side, amount, minOut]
  maxAmt,        \* amount_0_max, amount_1_max
  preCpi,        \* balances before Raydium takes the deposit
  liquidity,     \* computed_liquidity
  added,         \* the liquidity Raydium added
  principal,     \* spent_0, spent_1: what Raydium took
  returned,      \* return_amount_0, return_amount_1
  dust,          \* leftover handed to the fee owner, by side
  unsold,        \* leftover a swap back did not take; below 0, what it took beyond it
  event,         \* LpHandlerIncreaseLiquidityEvent
  status, calls

ledger == <<tok, sol, acct>>
plan == <<exec, maxAmt, preCpi>>
deposit == <<liquidity, added, principal>>
locals == <<plan, deposit, returned, dust, unsold, event>>
vars == <<ledger, native, price, saved, pc, call, locals, status, calls>>

NoSwap == [side |-> 0, amount |-> 0, minOut |-> 0]
NoEvent == [liquidity |-> 0, principal |-> Zero, returned |-> Zero]
Steps == {"idle", "swap", "cpi", "back", "unwrap", "exit", "done"}

(***************************************************************************)
(* prepare_zap_plan: the swap to run and the checks before it.             *)
(***************************************************************************)
BelowRange(c) == price <= c.lower   \* only token0 is needed
AboveRange(c) == price >= c.upper   \* only token1 is needed
OutOfRange(c) == BelowRange(c) \/ AboveRange(c)

\* Out of range the plan is replaced by a swap of the whole useless side.
Swapped(c) ==
  IF BelowRange(c) THEN [side |-> 1, amount |-> c.amountIn[1]]
  ELSE IF AboveRange(c) THEN [side |-> 0, amount |-> c.amountIn[0]]
  ELSE [side |-> c.planSide, amount |-> c.planIn]

QuoteError(amount, side, slippage) ==
  MinOutError(amount, side = 0, price, slippage, TRADE_FEE_RATE)
Quote(amount, side, slippage) ==
  CalcMinAmountOut(amount, side = 0, price, slippage, TRADE_FEE_RATE)

ExecPlan(c) ==
  LET s == Swapped(c) IN
  [side   |-> s.side,
   amount |-> s.amount,
   minOut |-> IF ~OutOfRange(c) THEN c.planMinOut
              ELSE IF s.amount = 0 THEN 0
              ELSE Quote(s.amount, s.side, c.slippage)]

\* Only a plan that is used is checked.
PlanRefused(c) ==
  /\ ~OutOfRange(c)
  /\ IF c.planIn = 0 THEN c.planMinOut # 0 ELSE c.planIn > c.amountIn[c.planSide]

ArgumentError(c) ==
  LET s == Swapped(c) IN
  IF c.lower >= c.upper THEN "InvalidTickRange"
  ELSE IF c.amountIn = Zero THEN "InvalidDepositAmount"
  ELSE IF c.returnMint = Foreign THEN "InvalidDepositMint"
  ELSE IF c.slippage >= 5000 THEN "InvalidSlippage"
  ELSE IF OutOfRange(c) /\ s.amount > 0 /\ QuoteError(s.amount, s.side, c.slippage) # "none"
       THEN QuoteError(s.amount, s.side, c.slippage)
  ELSE IF \E s1 \in Sides : tok[Signer][s1] < c.amountIn[s1] THEN "InsufficientBalance"
  ELSE IF PlanRefused(c) THEN "InvalidDepositAmount"
  ELSE IF c.separators = 0 THEN "InvalidRemainingAccounts"
  ELSE "none"

Entry(c) ==
  EntryError(c.separators, Config, c.pool, c.executables,
             CallTokens({Signer, c.feeOwner}), Signer, c.recipient)

\* exit_check, part 2, over the two transit accounts in the order of the account list.
AccountError(s) ==
  SignerAccountError(AccountView(acct[s], Signer), s = native /\ acct[s].ata, Signer)

ExitError == IF AccountError(0) # "none" THEN AccountError(0) ELSE AccountError(1)

\* The exit check also runs after a body that returned an error, and what it finds is
\* reported instead.  A failed cross-program call ends the instruction without it.
Reported(err) == IF ExitError # "none" THEN ExitError ELSE err

EmptyLocals ==
  /\ exec' = NoSwap /\ event' = NoEvent
  /\ maxAmt' = Zero /\ preCpi' = Zero /\ principal' = Zero /\ returned' = Zero
  /\ liquidity' = 0 /\ added' = 0
  /\ dust' = Zero /\ unsold' = Zero

\* The runtime drops every change of a failed instruction, the pool's included.
Abort(err) ==
  /\ tok' = saved.tok /\ sol' = saved.sol /\ acct' = saved.acct /\ price' = saved.price
  /\ pc' = "idle"
  /\ status' = err
  /\ call' = NoCall
  /\ EmptyLocals
  /\ UNCHANGED <<native, saved, calls>>

\* The body returns an error.
Refuse(err) == Abort(Reported(err))

Image == [tok |-> tok, sol |-> sol, acct |-> acct, price |-> price]

Submit ==
  /\ pc = "idle"
  /\ calls < MaxCalls
  /\ \A s \in Sides : acct[s].live
  /\ calls' = calls + 1
  /\ saved' = Image

Reject(c) ==
  /\ Submit
  /\ \/ Entry(c) # "none" /\ status' = Entry(c)
     \/ Entry(c) = "none" /\ ArgumentError(c) # "none" /\ status' = Reported(ArgumentError(c))
  /\ UNCHANGED <<ledger, native, price, pc, call, locals>>

Begin(c) ==
  /\ Submit
  /\ Entry(c) = "none" /\ ArgumentError(c) = "none"
  /\ call' = c
  /\ exec' = ExecPlan(c)
  /\ maxAmt' = c.amountIn
  /\ preCpi' = tok[Signer]
  /\ pc' = IF ExecPlan(c).amount > 0 THEN "swap" ELSE "cpi"
  /\ status' = "running"
  /\ UNCHANGED <<ledger, native, price, deposit, returned, dust, unsold, event>>

(***************************************************************************)
(* swap_v2.  Selling token0 lowers the price, selling token1 raises it.    *)
(***************************************************************************)
\* The token program refuses a transfer beyond the largest u64.
CanReceive(side, n) == tok[Signer][side] + n <= U64_MAX

PriceAfterSelling(side, p) == IF side = 0 THEN p <= price ELSE p >= price

\* The budget after the swap: what the input side has left, and the output on top of
\* the other side.
SwapBudget(i, taken, received) ==
  [maxAmt EXCEPT ![i] = call.amountIn[i] - taken,
                 ![Other(i)] = call.amountIn[Other(i)] + received]

\* A bug: the budget is not checked.
MutSwapError(i, taken, received) == "none"

\* A bug: a swap of the whole budget is refused.
MutSwapRefused(i, taken, received) ==
  IF taken >= call.amountIn[i] THEN "InvalidDepositAmount" ELSE "none"

SwapError(i, taken, received) ==
  IF taken > call.amountIn[i] THEN "InvalidDepositAmount"
  ELSE IF call.amountIn[Other(i)] + received > U64_MAX THEN "MathOverflow"
  ELSE "none"

\* The balancing swap.  A token with a transfer fee may take more than was asked,
\* never more than the budget of that side.
Swap(received, extra, p) ==
  LET i     == exec.side
      taken == exec.amount + extra
      held  == [tok[Signer] EXCEPT ![i] = @ - taken, ![Other(i)] = @ + received]
  IN
  /\ pc = "swap"
  /\ call.swapAccountsOk
  /\ taken \in 0..tok[Signer][i]
  /\ received >= exec.minOut
  /\ CanReceive(Other(i), received)
  /\ PriceAfterSelling(i, p)
  /\ IF SwapError(i, taken, received) # "none"
     THEN Refuse(SwapError(i, taken, received))
     ELSE /\ tok' = [tok EXCEPT ![Signer] = held]
          /\ price' = p
          /\ preCpi' = held
          /\ maxAmt' = SwapBudget(i, taken, received)
          /\ pc' = "cpi"
          /\ UNCHANGED <<sol, acct, native, saved, call, exec, deposit, returned, dust,
                         unsold, event, status, calls>>

SwapFails ==
  /\ pc = "swap"
  /\ IF call.swapAccountsOk THEN Abort("CpiError") ELSE Refuse("InvalidRemainingAccounts")

(***************************************************************************)
(* open_position_with_token22_nft, increase_liquidity_v2                   *)
(***************************************************************************)
\* A bug: the price read before the swap.
MutComputedLiquidity == LiquidityFor(saved.price, call.lower, call.upper, maxAmt)

\* computed_liquidity, at the price after the swap
ComputedLiquidity == LiquidityFor(price, call.lower, call.upper, maxAmt)

\* base_flag, as the side it names
BaseSide == IF maxAmt[0] = 0 THEN 1 ELSE 0

\* Raydium adds the liquidity that is asked for; for 0 it computes one from the
\* maximum of the base side and the range of the position.
AddedLiquidity ==
  IF ComputedLiquidity # 0 THEN ComputedLiquidity
  ELSE SingleLiquidity(price, call.posLower, call.posUpper, BaseSide, maxAmt[BaseSide])

\* The cost of that liquidity, with the fee of the token on top, must fit the maxima.
DepositCpi(fee) ==
  LET cost  == Cost(price, call.posLower, call.posUpper, AddedLiquidity)
      taken == [s \in Sides |-> IF cost[s] = 0 THEN 0 ELSE cost[s] + fee[s]]
  IN
  /\ pc = "cpi"
  /\ AddedLiquidity > 0
  /\ \A s \in Sides : taken[s] \in 0..maxAmt[s]
  /\ tok' = [tok EXCEPT ![Signer] = [s \in Sides |-> @[s] - taken[s]]]
  /\ liquidity' = ComputedLiquidity
  /\ added' = AddedLiquidity
  /\ principal' = [s \in Sides |-> SatSub(preCpi[s], tok'[Signer][s])]
  /\ pc' = "back"
  /\ UNCHANGED <<sol, acct, native, price, saved, call, plan, returned, dust, unsold,
                 event, status, calls>>

\* Raydium refuses: the maxima are too small for the position at this price, or anything
\* else is wrong with it.
DepositFails ==
  /\ pc = "cpi"
  /\ Abort("CpiError")

(***************************************************************************)
(* swap_back_remaining_and_emit_increase_event                             *)
(***************************************************************************)
\* A bug: everything in the transit accounts counts as left over.
MutLeftover == tok[Signer]

Leftover == [s \in Sides |-> SatSub(maxAmt[s], principal[s])]

\* The side whose leftover is not wanted.
Unwanted == Other(call.returnMint)
SellsBack == call.returnMint \in Sides /\ Leftover[Unwanted] > 0

BackError == QuoteError(Leftover[Unwanted], Unwanted, call.slippage)
\* A bug: the minimum output is quoted in the wrong direction.
MutBackMinOut == Quote(Leftover[Unwanted], Other(Unwanted), call.slippage)

BackMinOut == Quote(Leftover[Unwanted], Unwanted, call.slippage)

\* checked_add(..).unwrap_or(0)
AddOrZero(a, b) == IF a + b > U64_MAX THEN 0 ELSE a + b

\* A bug: the output of the swap back is not reported.
MutReturns(out, kept) ==
  [s \in Sides |-> IF s = call.returnMint THEN Leftover[s] ELSE kept]

\* return_amount of the wanted side grows by the output, that of the other is what
\* was kept.
Returns(out, kept) ==
  [s \in Sides |-> IF s = call.returnMint THEN AddOrZero(Leftover[s], out) ELSE kept]

ReturnAsIs ==
  /\ pc = "back"
  /\ ~SellsBack
  /\ returned' = IF call.returnMint = NoSide THEN Leftover ELSE Returns(0, 0)
  /\ pc' = "unwrap"
  /\ UNCHANGED <<ledger, native, price, saved, call, plan, deposit, dust, unsold,
                 event, status, calls>>

BackQuoteFails ==
  /\ pc = "back"
  /\ SellsBack
  /\ BackError # "none"
  /\ Refuse(BackError)

\* A swap back may take more than the leftover as well (a token with a transfer fee, see
\* Swap), and nothing checks it here: the rest is paid from what the signer had before.
SwapBack(received, extra, p) ==
  LET taken == Leftover[Unwanted] + extra IN
  /\ pc = "back"
  /\ SellsBack /\ BackError = "none" /\ BackMinOut > 0
  /\ call.swapAccountsOk
  /\ taken \in 0..tok[Signer][Unwanted]
  /\ received >= BackMinOut
  /\ CanReceive(call.returnMint, received)
  /\ PriceAfterSelling(Unwanted, p)
  /\ price' = p
  /\ tok' = [tok EXCEPT ![Signer][Unwanted] = @ - taken,
                        ![Signer][call.returnMint] = @ + received]
  /\ unsold' = [unsold EXCEPT ![Unwanted] = Leftover[Unwanted] - taken]
  /\ returned' = Returns(SatSub(tok'[Signer][call.returnMint],
                                tok[Signer][call.returnMint]), 0)
  /\ pc' = "unwrap"
  /\ UNCHANGED <<sol, acct, native, saved, call, plan, deposit, dust, event, status,
                 calls>>

SwapBackFails ==
  /\ pc = "back"
  /\ SellsBack /\ BackError = "none" /\ BackMinOut > 0
  /\ IF call.swapAccountsOk THEN Abort("CpiError") ELSE Refuse("InvalidRemainingAccounts")

\* Too little to swap: the fee owner gets it, unless it is wSOL.
DustToFee ==
  /\ pc = "back"
  /\ SellsBack /\ BackError = "none" /\ BackMinOut = 0
  /\ Unwanted # native
  /\ tok' = MoveToken(tok, Signer, call.feeOwner, Unwanted, Leftover[Unwanted])
  /\ dust' = [dust EXCEPT ![Unwanted] = Leftover[Unwanted]]
  /\ returned' = Returns(0, 0)
  /\ pc' = "unwrap"
  /\ UNCHANGED <<sol, acct, native, price, saved, call, plan, deposit, unsold, event,
                 status, calls>>

DustKept ==
  /\ pc = "back"
  /\ SellsBack /\ BackError = "none" /\ BackMinOut = 0
  /\ Unwanted = native
  /\ returned' = Returns(0, Leftover[Unwanted])
  /\ pc' = "unwrap"
  /\ UNCHANGED <<ledger, native, price, saved, call, plan, deposit, dust, unsold,
                 event, status, calls>>

\* A bug: the lamports of the wSOL account go to the recipient of the position.
MutEmitAndUnwrap ==
  /\ pc = "unwrap"
  /\ IF native \in Sides /\ CloseRefused(acct[native])
     THEN Abort("OwnerMismatch")
     ELSE /\ event' = [liquidity |-> liquidity, principal |-> principal,
                        returned |-> returned]
          /\ IF native \in Sides
             THEN /\ sol' = [sol EXCEPT ![call.recipient] = @ + tok[Signer][native] + Rent]
                  /\ tok' = CloseTokens(tok, Signer, native)
                  /\ acct' = CloseAccount(acct, native)
             ELSE UNCHANGED ledger
          /\ pc' = "exit"
          /\ UNCHANGED <<native, price, saved, call, plan, deposit, returned, dust,
                         unsold, status, calls>>

\* The event, then every wSOL account of the pool is closed, whatever was in it.
EmitAndUnwrap ==
  /\ pc = "unwrap"
  /\ IF native \in Sides /\ CloseRefused(acct[native])
     THEN Abort("OwnerMismatch")
     ELSE /\ event' = [liquidity |-> liquidity, principal |-> principal,
                        returned |-> returned]
          /\ IF native \in Sides
             THEN /\ sol' = CloseLamports(tok, sol, Signer, native, Rent)
                  /\ tok' = CloseTokens(tok, Signer, native)
                  /\ acct' = CloseAccount(acct, native)
             ELSE UNCHANGED ledger
          /\ pc' = "exit"
          /\ UNCHANGED <<native, price, saved, call, plan, deposit, returned, dust,
                         unsold, status, calls>>

(***************************************************************************)
(* Exit check, and the end of the call.                                    *)
(***************************************************************************)
ExitFails ==
  /\ pc = "exit"
  /\ ExitError # "none"
  /\ Abort(ExitError)

Commit ==
  /\ pc = "exit"
  /\ ExitError = "none"
  /\ pc' = "done"
  /\ status' = "ok"
  /\ UNCHANGED <<ledger, native, price, saved, call, locals, calls>>

Return ==
  /\ pc = "done"
  /\ pc' = "idle"
  /\ call' = NoCall
  /\ saved' = Image
  /\ EmptyLocals
  /\ UNCHANGED <<ledger, native, price, status, calls>>

(***************************************************************************)
(* Between two calls.                                                      *)
(***************************************************************************)
Between == pc = "idle" /\ calls < MaxCalls

\* The user creates the wSOL account again and wraps some lamports in it.
ReopenNative(isAta, amount) ==
  /\ Between
  /\ native # NoSide
  /\ ~acct[native].live
  /\ sol[Signer] >= Rent + amount
  /\ sol' = [sol EXCEPT ![Signer] = @ - (Rent + amount)]
  /\ tok' = [tok EXCEPT ![Signer][native] = amount]
  /\ acct' = [acct EXCEPT ![native] =
                [live |-> TRUE, ata |-> isAta, delegate |-> FALSE, closeAuth |-> FALSE]]
  /\ UNCHANGED <<native, price, saved, pc, call, locals, status, calls>>

SetPermissions(s, perm) ==
  /\ Between
  /\ acct[s].live
  /\ acct' = [acct EXCEPT ![s].delegate = perm.delegate, ![s].closeAuth = perm.closeAuth]
  /\ UNCHANGED <<tok, sol, native, price, saved, pc, call, locals, status, calls>>

\* The market moves the price between the planning of a call and its execution.
PriceMoves(p) ==
  /\ Between
  /\ price' = p
  /\ UNCHANGED <<ledger, native, saved, pc, call, locals, status, calls>>

(***************************************************************************)
(* Specification.                                                          *)
(***************************************************************************)
Init ==
  /\ native \in Natives
  /\ price \in SqrtPrices
  /\ tok = [w \in Wallets |-> [s \in Sides |-> IF w = Signer THEN OwnToken ELSE 0]]
  /\ sol = [w \in Wallets |-> IF w = Signer THEN OwnSol ELSE 0]
  /\ \E isAta \in BOOLEAN :
       acct = [s \in Sides |-> [live |-> TRUE, ata |-> isAta /\ s = native,
                                delegate |-> FALSE, closeAuth |-> FALSE]]
  /\ saved = Image
  /\ pc = "idle" /\ call = NoCall
  /\ exec = NoSwap /\ event = NoEvent
  /\ maxAmt = Zero /\ preCpi = Zero /\ principal = Zero /\ returned = Zero
  /\ liquidity = 0 /\ added = 0
  /\ dust = Zero /\ unsold = Zero
  /\ status = "none" /\ calls = 0

TokenFees == [Sides -> DepositFees]

Handler ==
  \/ \E r \in SwapOuts, x \in SwapExtras, p \in SqrtPrices :
       Swap(r, x, p) \/ SwapBack(r, x, p)
  \/ SwapFails
  \/ \E fee \in TokenFees : DepositCpi(fee)
  \/ DepositFails
  \/ ReturnAsIs \/ BackQuoteFails \/ SwapBackFails \/ DustToFee \/ DustKept
  \/ EmitAndUnwrap
  \/ ExitFails \/ Commit \/ Return

Environment ==
  \/ \E isAta \in BOOLEAN, n \in 0..OwnToken : ReopenNative(isAta, n)
  \/ \E s \in Sides, perm \in Permissions : SetPermissions(s, perm)
  \/ \E p \in SqrtPrices : PriceMoves(p)

Next ==
  \/ \E c \in Calls : Reject(c) \/ Begin(c)
  \/ Handler
  \/ Environment

Spec == Init /\ [][Next]_vars

(***************************************************************************)
(* Properties.                                                             *)
(***************************************************************************)
BalanceType == [Wallets -> [Sides -> Nat]]
ImageType == [tok : BalanceType, sol : [Wallets -> Nat], acct : [Sides -> TransitType],
              price : Nat]

\* Balances, budgets and leftovers are natural numbers: no subtraction of the handlers
\* goes below 0 and no account is overdrawn.
TypeOK ==
  /\ Image \in ImageType /\ saved \in ImageType
  /\ native \in {0, 1, NoSide}
  /\ pc \in Steps /\ calls \in 0..MaxCalls
  /\ call \in Calls \cup {NoCall}
  /\ exec \in [side : Sides, amount : Nat, minOut : Nat]
  /\ liquidity \in Int /\ added \in Int
  /\ {maxAmt, preCpi, principal, returned, dust, event.principal, event.returned}
       \subseteq [Sides -> Nat]
  /\ unsold \in [Sides -> Int]

\* What wallet w has gained on side s since the call began.
Holding(t, b, a, w, s) == HoldingOf(t, b, a, w, s, native, Signer, Rent)

Gain(w, s) ==
  Holding(tok, sol, acct, w, s) - Holding(saved.tok, saved.sol, saved.acct, w, s)

\* What a swap back took beyond the leftover it was asked to sell.
Overdrawn(s) == IF unsold[s] < 0 THEN -unsold[s] ELSE 0

\* However the first swap, the deposit and the closing of the wSOL account turn out, the
\* signer pays at most amount_in of either token (zap_common.rs:308-337, 399-414).  Only a
\* swap back can cost it more, by what it takes beyond the leftover: that is the whole
\* excess, it is of the token of which nothing is returned, and a call that is not asked
\* to sell that side never has one.
BudgetRespected ==
  pc = "done" =>
    \A s \in Sides :
      /\ Gain(Signer, s) >= -(call.amountIn[s] + Overdrawn(s))
      /\ Gain(Signer, s) < -call.amountIn[s] =>
           call.returnMint = Other(s) /\ event.returned[s] = 0

\* return_amount_0 and return_amount_1 account for every unit of the budget: what is
\* missing from the signer is the input minus the amounts the event reports as
\* returned.  The one thing the event does not report is how much a swap back took: the
\* leftover it left unsold stays with the signer, and what it took beyond the leftover is
\* missing.
EventMatchesHoldings ==
  pc = "done" /\ call.feeOwner # Signer =>
    \A s \in Sides :
      Gain(Signer, s) = event.returned[s] - call.amountIn[s] + unsold[s]

\* The liquidity computed from the maxima never costs more than the maxima, although it
\* is rounded on another path than the cost, and although the swap has just moved the
\* price, whatever the swap returned (zap_common.rs:345-366): a deposit in the range of
\* the arguments is not refused because its liquidity costs more than the budget.  The
\* transfer fees of the mints, which Raydium adds to the cost, are not meant.
ComputedLiquidityFits ==
  pc = "cpi" /\ call.posLower = call.lower /\ call.posUpper = call.upper =>
    \A s \in Sides :
      Cost(price, call.lower, call.upper, ComputedLiquidity)[s] <= maxAmt[s]

\* The liquidity of the event is the liquidity the position got, also when the handler
\* computed 0 and Raydium chose by base_flag, as long as the range of the arguments is
\* that of the position (zap_common.rs:345-366, 558-572).
EventLiquidityAdded ==
  pc = "done" /\ call.posLower = call.lower /\ call.posUpper = call.upper =>
    event.liquidity = added

\* A deposit pays nobody: the only units that reach another wallet are leftovers of the
\* unwanted token that are not wSOL and hardly worth anything.  What the pool pays for them
\* at its price, less its fee and the slippage of the caller, is at most the dust floor
\* and the two units the quote may lose in its roundings (state/utils.rs:86).
OnlyDustLeaves ==
  pc = "done" =>
    \A w \in Wallets \ {Signer}, s \in Sides :
      Gain(w, s) # 0 =>
        /\ w = call.feeOwner
        /\ s # native /\ call.returnMint = Other(s)
        /\ QuoteOut(Gain(w, s), s = 0, price)
             * (FEE_UNIT - TRADE_FEE_RATE - call.slippage * (FEE_UNIT \div BPS))
             <= (DUST_FLOOR + 2) * FEE_UNIT

\* The deposit of a committed call.
Made ==
  [done |-> TRUE, feeOwner |-> call.feeOwner, amountIn |-> call.amountIn,
   returned |-> event.returned, unsold |-> unsold, dust |-> dust]

\* While a call runs, its outcome is open: what counts is what was held before it.
Visible == IF pc \in {"idle", "done"} THEN Image ELSE saved

Held ==
  [w \in Wallets |-> [s \in Sides |->
     Holding(Visible.tok, Visible.sol, Visible.acct, w, s)]]

LastDeposit == IF pc = "done" THEN Made ELSE [done |-> FALSE]

Promise == INSTANCE Deposit WITH holding <- Held, made <- LastDeposit

\* Every behaviour is a sequence of whole deposits: an instruction that fails at any
\* step, wSOL wrapped again and a change of permissions or of the price change nothing
\* of what anybody holds, and the event of a deposit accounts for all it changes.
ImplementsDeposit == Promise!Spec

\* What must be the case for a call to fail with this error.
HasCause(err) ==
  CASE err = "CpiError" -> pc \in {"swap", "cpi", "back"}
    [] err = "InvalidRemainingAccounts" -> ~call.swapAccountsOk
    [] err = "InvalidDepositAmount" ->
         /\ pc = "swap"
         /\ \E x \in SwapExtras : x > 0 /\ exec.amount + x > call.amountIn[exec.side]
    [] err = "InvalidSqrtPrice" -> pc = "back" /\ SellsBack /\ PriceOf(price) = 0
    [] err = "MathOverflow" ->
         /\ pc = "back" /\ SellsBack
         /\ QuoteOut(Leftover[Unwanted], Unwanted = 0, price) > U64_MAX
    [] err = "OwnerMismatch" -> native \in Sides /\ saved.acct[native].closeAuth
    [] err = "SecurityTokenAccountCorrupted" ->
         native \in Sides /\ ~saved.acct[native].ata
    [] err = "SecurityTokenDelegateNotAllowed" ->
         \E s \in Sides : saved.acct[s].delegate
    [] err = "SecurityTokenCloseAuthorityNotAllowed" ->
         \E s \in Sides : saved.acct[s].closeAuth
    [] OTHER -> FALSE

\* A call that has passed the checks of its arguments fails only for what the user, the
\* mints or the market brought about: Raydium, a token that takes more than was asked, a
\* price or a quote out of range, the state of the accounts before the call.  The plan
\* that was checked is never refused later, the budget never overflows, and the handler
\* sets no permission that its exit check refuses.
FailsForCause ==
  [][pc \notin {"idle", "done"} /\ pc' = "idle" => HasCause(status')]_vars

(***************************************************************************)
(* What the documents say and the handlers do not do.                      *)
(***************************************************************************)

\* README.md:198-199 says that the SOL the wallet receives when the wSOL account is
\* closed is the returned amount of the event plus the rent.
UnwrapPaysReturnAndRent ==
  pc = "done" /\ native \in Sides =>
    sol[Signer] - saved.sol[Signer] = event.returned[native] + Rent

\* README.md:203-211 says that the remaining accounts of swap_and_deposit are the
\* accounts of swap_v2 only, and that they are refused only when there are more than 32
\* or one is not owned by Raydium.
SwapAccountsSuffice ==
  [][\A c \in Calls :
       c.op = "deposit" /\ c.separators = 0 /\ c.swapAccountsOk /\ Reject(c) =>
         status' # "InvalidRemainingAccounts"]_vars

=============================================================================

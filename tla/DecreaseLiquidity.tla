-------------------------- MODULE DecreaseLiquidity --------------------------
(***************************************************************************)
(* The decrease_liquidity instruction (withdraw, and claim when the        *)
(* liquidity is 0): instructions/decrease_liquidity.rs with the helpers of *)
(* zap_common.rs it calls, inside the entry and exit checks of lib.rs and  *)
(* security/mod.rs.                                                        *)
(*                                                                         *)
(* One call is a sequence of steps, one per cross-program call or decision *)
(* of the handler.  A Solana instruction is atomic: an error anywhere      *)
(* restores the accounts as they were (Abort).  Between two calls the user *)
(* may reopen the closed wSOL account or change the permissions of the     *)
(* transit accounts, and the market may move the price.                    *)
(*                                                                         *)
(* Sides 0 and 1 are the two tokens of the pool; `native' is the side      *)
(* whose mint is wSOL, or NoSide.  tok[w][s] is the token balance of the   *)
(* account of wallet w on side s that is passed to the call: the transit   *)
(* account for the signer, the recipient_token and fee_token accounts for  *)
(* the others.  The wSOL balance is in lamports, without the rent.         *)
(*                                                                         *)
(* Raydium is external: it pays the principal rounded down and the accrued *)
(* reward, swaps for at least the minimum output, or fails.                *)
(***************************************************************************)
EXTENDS LpMath, SecurityLayer, TokenLedger

CONSTANTS
  Wallets, Signer,
  Config,          \* the parsed security_config: [live, pools, feeOwners]
  Calls,           \* the calls a user may submit, see CallType
  Payouts,         \* what Raydium may owe: [exact, reward], by side
  SqrtPrices,      \* the sqrt prices the pool may have
  SwapOuts,        \* the outputs a swap may return
  SwapRests,       \* the input a swap may leave; below 0, what it takes beyond it
  I128_MAX,        \* the largest liquidity the computation of the principal accepts
  TRADE_FEE_RATE,  \* amm_config.trade_fee_rate
  TRANSFER_FEE,    \* the transfer fee of the mint of a side (Token-2022), in basis points
  Rent,            \* rent-exempt minimum of a token account
  OwnToken, OwnSol,\* what the signer owns at the start
  Natives,         \* the wSOL sides of the pools considered
  Permissions,     \* what the user may set on a transit account between calls
  MaxCalls         \* bound on the number of calls

\* liquidity = 0 is a claim; target is the mint of swap_to_token_mint, NoSide when
\* it is not a mint of the pool; separators counts crate::ID among the remaining
\* accounts; swapAccountsOk says that the accounts before it are at most 32 and
\* owned by Raydium.
CallType == [recipient : Wallets, feeOwner : Wallets, pool : STRING,
             liquidity : Nat, target : {0, 1, NoSide}, slippage : Nat,
             feePercent : Nat, convert : BOOLEAN, executables : SUBSET STRING,
             separators : Nat, swapAccountsOk : BOOLEAN]

NoCall == [recipient |-> Signer, feeOwner |-> Signer, pool |-> "none",
           liquidity |-> 0, target |-> NoSide, slippage |-> 0, feePercent |-> 0,
           convert |-> FALSE, executables |-> {}, separators |-> 0,
           swapAccountsOk |-> FALSE]

\* exact is the principal in units of 1/PRECISION token: Raydium pays it rounded
\* down, the handler computes it rounded up.
PRECISION == 2
PayoutType == [exact : [Sides -> Nat], reward : [Sides -> Nat]]

ASSUME DecreaseAssumption ==
  /\ Signer \in Wallets
  /\ Calls \subseteq CallType
  /\ Payouts \subseteq PayoutType
  /\ SqrtPrices \subseteq Nat
  /\ SwapOuts \subseteq Nat /\ SwapRests \subseteq Int /\ I128_MAX \in Nat
  /\ TRADE_FEE_RATE \in 0..FEE_UNIT
  /\ TRANSFER_FEE \in [Sides -> 0..BPS]
  /\ Rent \in Nat /\ OwnToken \in Nat /\ OwnSol \in Nat /\ MaxCalls \in Nat
  /\ Natives \subseteq {0, 1, NoSide}
  /\ Permissions \subseteq [delegate : BOOLEAN, closeAuth : BOOLEAN]

VARIABLES
  tok, sol,      \* token balances and lamports
  acct,          \* the signer's transit accounts
  native, price, \* the wSOL side, the pool's sqrt price
  saved,         \* accounts at the start of the call
  pc, call,      \* the step about to run and the arguments
  before, cached,\* the balances read on entry, the deserialised balances
  expected,      \* principal_expected
  delta, reward, \* what the CPI paid, and the part counted as reward
  owed, lost,    \* the reward Raydium really paid, and what its mint withheld
  spent, out,    \* input spent and output received by the conversion
  dust,          \* input handed to the fee owner instead of a swap
  feeDue, net,   \* fee_due, and what is left to settle
  event,         \* LpHandlerDecreaseLiquidityEvent
  status, calls  \* result of the last call, number of calls

ledger == <<tok, sol, acct>>
locals == <<before, cached, expected, delta, reward, owed, lost, spent, out, dust,
            feeDue, net, event>>
vars == <<ledger, native, price, saved, pc, call, locals, status, calls>>

NoEvent == [principal |-> Zero, reward |-> Zero, fee |-> Zero]

Steps == {"idle", "cpi", "convert", "charge", "tally", "settle0", "settle1",
          "exit", "done"}

\* What a call may end with, besides "ok".
Errors == {"SecuritySeparatorInvalid", "SecurityPoolWhitelistMissing",
           "SecurityPoolWhitelistInvalid", "SecurityPoolNotAllowed",
           "SecurityUnauthorizedExecutableProgram", "SecurityNonWhitelistTokenAccount",
           "InvalidFeePercent", "InvalidSlippage",
           "InvalidDepositMint", "InvalidRemainingAccounts", "InvalidSqrtPrice",
           "NoBalanceChange", "MathOverflow", "InsufficientFunds", "OwnerMismatch",
           "CpiError", "Panicked", "MaxTokenOverflow",
           "SecurityTokenAccountCorrupted", "SecurityTokenAuthorityChanged",
           "SecurityTokenDelegateNotAllowed", "SecurityTokenCloseAuthorityNotAllowed"}

\* A mint with a transfer fee withholds part of every transfer from what arrives.
Withheld(s, n) == IF s = native THEN 0 ELSE CeilDiv(n * TRANSFER_FEE[s], BPS)
Arrives(s, n) == n - Withheld(s, n)

\* transfer_token_common_accounts: n leaves the transit account.
SendToken(t, to, s, n) ==
  IF to = Signer THEN t
  ELSE [t EXCEPT ![Signer][s] = @ - n, ![to][s] = @ + Arrives(s, n)]

Target == call.target
Input == Other(call.target)

(***************************************************************************)
(* Entry.                                                                  *)
(***************************************************************************)
Entry(c) ==
  EntryError(c.separators, Config, c.pool, c.executables,
             CallTokens({Signer, c.recipient, c.feeOwner}), Signer, c.recipient)

\* The requires at the head of the handler, in order, and the separator it needs
\* to split the remaining accounts.
ArgumentError(c) ==
  IF c.feePercent > BPS THEN "InvalidFeePercent"
  ELSE IF c.slippage > 5000 THEN "InvalidSlippage"
  ELSE IF c.target \notin Sides THEN "InvalidDepositMint"
  ELSE IF c.separators = 0 THEN "InvalidRemainingAccounts"
  ELSE "none"

\* exit_check, part 2, over the two transit accounts in the order of the account list.
AccountError(s) ==
  SignerAccountError(AccountView(acct[s], Signer), s = native /\ acct[s].ata, Signer)

ExitError == IF AccountError(0) # "none" THEN AccountError(0) ELSE AccountError(1)

\* The exit check also runs after a body that returned an error, and what it finds is
\* reported instead.  A failed cross-program call ends the instruction without it.
Reported(err) == IF ExitError # "none" THEN ExitError ELSE err

EmptyLocals ==
  /\ before' = Zero /\ cached' = Zero /\ expected' = Zero /\ delta' = Zero
  /\ reward' = Zero /\ owed' = Zero /\ lost' = Zero /\ feeDue' = Zero /\ net' = Zero
  /\ spent' = 0 /\ out' = 0 /\ dust' = 0
  /\ event' = NoEvent

\* The runtime drops every change of a failed instruction.
Abort(err) ==
  /\ tok' = saved.tok /\ sol' = saved.sol /\ acct' = saved.acct
  /\ pc' = "idle"
  /\ status' = err
  /\ call' = NoCall
  /\ EmptyLocals
  /\ UNCHANGED <<native, price, saved, calls>>

\* The body returns an error.
Refuse(err) == Abort(Reported(err))

\* Anchor deserialises both transit accounts: they must exist.
Submit ==
  /\ pc = "idle"
  /\ calls < MaxCalls
  /\ \A s \in Sides : acct[s].live
  /\ calls' = calls + 1
  /\ saved' = [tok |-> tok, sol |-> sol, acct |-> acct]

Reject(c) ==
  /\ Submit
  /\ \/ Entry(c) # "none" /\ status' = Entry(c)
     \/ Entry(c) = "none" /\ ArgumentError(c) # "none" /\ status' = Reported(ArgumentError(c))
  /\ UNCHANGED <<ledger, native, price, pc, call, locals>>

Begin(c) ==
  /\ Submit
  /\ call' = c
  /\ Entry(c) = "none" /\ ArgumentError(c) = "none"
  /\ before' = tok[Signer]
  /\ cached' = tok[Signer]
  /\ pc' = "cpi"
  /\ status' = "running"
  /\ UNCHANGED <<ledger, native, price, expected, delta, reward, owed, lost, spent, out,
                 dust, feeDue, net, event>>

(***************************************************************************)
(* cpi_decrease_liquidity_v2, the reload and the split of the delta into   *)
(* principal and reward.                                                   *)
(***************************************************************************)
ExactPrincipal(p) == IF call.liquidity = 0 THEN Zero ELSE p.exact

\* calculate_principal_amounts_for_liquidity, before the CPI
Planned(p) == [s \in Sides |-> CeilDiv(ExactPrincipal(p)[s], PRECISION)]

\* It panics on a liquidity that is no i128; an amount that is no u64 is an error.
PrincipalError(p) ==
  IF call.liquidity > I128_MAX THEN "Panicked"
  ELSE IF \E s \in Sides : Planned(p)[s] > U64_MAX THEN "MaxTokenOverflow"
  ELSE "none"

PrincipalFails(p) ==
  /\ pc = "cpi"
  /\ PrincipalError(p) # "none"
  /\ IF PrincipalError(p) = "Panicked"
     THEN Abort(PrincipalError(p))
     ELSE Refuse(PrincipalError(p))

Paid(p) == [s \in Sides |-> ExactPrincipal(p)[s] \div PRECISION + p.reward[s]]

DecreaseCpi(p) ==
  LET balance == [s \in Sides |-> tok[Signer][s] + Arrives(s, Paid(p)[s])]
      gained  == [s \in Sides |-> balance[s] - before[s]]
  IN
  /\ pc = "cpi"
  /\ PrincipalError(p) = "none"
  /\ IF \A s \in Sides : gained[s] = 0
     THEN Refuse("NoBalanceChange")
     ELSE /\ tok' = [tok EXCEPT ![Signer] = balance]
          /\ cached' = balance
          /\ expected' = Planned(p)
          /\ delta' = gained
          /\ reward' = [s \in Sides |-> SatSub(gained[s], Planned(p)[s])]
          /\ owed' = p.reward
          /\ lost' = [s \in Sides |-> Withheld(s, Paid(p)[s])]
          /\ pc' = IF call.convert THEN "convert" ELSE "charge"
          /\ UNCHANGED <<sol, acct, native, price, saved, call, before, spent, out,
                         dust, feeDue, net, event, status, calls>>

\* Raydium refuses: not enough liquidity, its own minimum amounts, a paused pool.
CpiFails ==
  /\ pc = "cpi"
  /\ \E p \in Payouts : PrincipalError(p) = "none"
  /\ Abort("CpiError")

(***************************************************************************)
(* convert_to_usdc: the other token is swapped for the target in one go.   *)
(***************************************************************************)
RewardIn == reward[Input]
PrincipalIn == SatSub(delta[Input], reward[Input])
TotalIn == RewardIn + PrincipalIn

Threshold == CalcMinAmountOut(TotalIn, Input = 0, price, call.slippage, TRADE_FEE_RATE)
ThresholdError == MinOutError(TotalIn, Input = 0, price, call.slippage, TRADE_FEE_RATE)

IsDust == PrincipalIn = 0 /\ Threshold = 0

ConvertNothing ==
  /\ pc = "convert"
  /\ TotalIn = 0
  /\ pc' = "charge"
  /\ UNCHANGED <<ledger, native, price, saved, call, locals, status, calls>>

ThresholdFails ==
  /\ pc = "convert"
  /\ TotalIn > 0
  /\ ThresholdError # "none"
  /\ Refuse(ThresholdError)

\* transfer_fee of the whole input: wSOL is paid in lamports of the signer and
\* the wSOL tokens stay in the transit account.
ConvertDust ==
  /\ pc = "convert"
  /\ TotalIn > 0 /\ ThresholdError = "none" /\ IsDust
  /\ IF native = Input /\ sol[Signer] < TotalIn
     THEN Abort("InsufficientFunds")
     ELSE /\ IF native = Input
             THEN /\ sol' = MoveSol(sol, Signer, call.feeOwner, TotalIn)
                  /\ UNCHANGED tok
             ELSE /\ tok' = SendToken(tok, call.feeOwner, Input, TotalIn)
                  /\ UNCHANGED sol
          /\ dust' = TotalIn
          /\ pc' = "charge"
          /\ UNCHANGED <<acct, native, price, saved, call, before, cached, expected,
                         delta, reward, owed, lost, spent, out, feeDue, net, event,
                         status,
                         calls>>

\* swap_v2 returns at least the threshold.  It may take less than the input, or more (a
\* token with a transfer fee), which nothing checks: the rest is paid from what the
\* signer had before.  The output is the growth of the target balance since it was last
\* read.
ConvertSwap(received, unspent) ==
  LET used == TotalIn - unspent IN
  /\ pc = "convert"
  /\ TotalIn > 0 /\ ThresholdError = "none" /\ ~IsDust
  /\ call.swapAccountsOk
  /\ received >= Threshold
  /\ used \in 0..tok[Signer][Input]
  /\ tok' = [tok EXCEPT ![Signer][Input] = @ - used, ![Signer][Target] = @ + received]
  /\ cached' = tok'[Signer]
  /\ out' = cached'[Target] - cached[Target]
  /\ spent' = used
  /\ pc' = "charge"
  /\ UNCHANGED <<sol, acct, native, price, saved, call, before, expected, delta,
                 reward, owed, lost, dust, feeDue, net, event, status, calls>>

\* The accounts before the separator are not swap accounts, or Raydium refuses.
SwapFails ==
  /\ pc = "convert"
  /\ TotalIn > 0 /\ ThresholdError = "none" /\ ~IsDust
  /\ IF call.swapAccountsOk THEN Abort("CpiError") ELSE Refuse("InvalidRemainingAccounts")

(***************************************************************************)
(* The fee: fee_percent of the reward, in the settlement currency.  A wSOL *)
(* fee is only noted here, it is paid in lamports when the account has     *)
(* been unwrapped.                                                         *)
(***************************************************************************)
\* A bug: the converted part of the reward counts as principal.
MutRewardOut == 0

RewardOut == IF TotalIn = 0 \/ RewardIn = 0 THEN 0 ELSE (out * RewardIn) \div TotalIn

\* A bug: the fee is taken on everything the call brought.
MutFeeBase ==
  IF call.convert
  THEN [s \in Sides |-> IF s = Target THEN delta[s] + out ELSE 0]
  ELSE delta

\* What the fee is a percentage of, by side.
FeeBase ==
  IF call.convert
  THEN [s \in Sides |-> IF s = Target THEN reward[s] + RewardOut ELSE 0]
  ELSE reward

FeeOf(amount) == (amount * call.feePercent) \div BPS

\* A bug: the event reports the reward before the fee.
MutEventOf(fee) == [principal |-> expected, reward |-> FeeBase, fee |-> fee]

EventOf(fee) ==
  [principal |-> IF call.convert
                 THEN [s \in Sides |->
                         IF s = Target THEN expected[s] + (out - RewardOut) ELSE 0]
                 ELSE expected,
   reward    |-> [s \in Sides |-> FeeBase[s] - fee[s]],
   fee       |-> fee]

\* A bug: the wSOL fee is paid in tokens, and in lamports later.
MutPayTokenFees(fee) ==
  SendToken(SendToken(tok, call.feeOwner, 0, fee[0]), call.feeOwner, 1, fee[1])

\* transfer_fee on every side that is not wSOL (an amount of 0 is skipped).
PayTokenFees(fee) ==
  LET after0 == IF native = 0 THEN tok
                ELSE SendToken(tok, call.feeOwner, 0, fee[0])
  IN  IF native = 1 THEN after0
      ELSE SendToken(after0, call.feeOwner, 1, fee[1])

Charge ==
  LET fee == [s \in Sides |-> FeeOf(FeeBase[s])] IN
  /\ pc = "charge"
  /\ IF \E s \in Sides : FeeBase[s] * call.feePercent > U64_MAX
     THEN Refuse("MathOverflow")
     ELSE IF \E s \in Sides : s # native /\ tok[Signer][s] < fee[s]
     THEN Abort("InsufficientFunds")
     ELSE /\ feeDue' = fee
          /\ tok' = PayTokenFees(fee)
          /\ event' = EventOf(fee)
          /\ pc' = "tally"
          /\ UNCHANGED <<sol, acct, native, price, saved, call, before, cached,
                         expected, delta, reward, owed, lost, spent, out, dust, net,
                         status,
                         calls>>

(***************************************************************************)
(* Settlement: what the call added to the transit accounts goes to the     *)
(* recipient.                                                              *)
(***************************************************************************)
Tally ==
  /\ pc = "tally"
  /\ cached' = tok[Signer]
  /\ net' = [s \in Sides |-> SatSub(cached'[s], before[s])]
  /\ pc' = "settle0"
  /\ UNCHANGED <<ledger, native, price, saved, call, before, expected, delta, reward,
                 owed, lost, spent, out, dust, feeDue, event, status, calls>>

AtSettle(s) == pc = IF s = 0 THEN "settle0" ELSE "settle1"
AfterSettle(s) == pc' = IF s = 0 THEN "settle1" ELSE "exit"

SettleNothing(s) ==
  /\ AtSettle(s)
  /\ \/ net[s] = 0
     \/ s # native /\ call.recipient = Signer
  /\ AfterSettle(s)
  /\ UNCHANGED <<ledger, native, price, saved, call, locals, status, calls>>

\* A bug: the whole transit account is sent, not what the call added to it.
MutSettleToken(s) ==
  /\ AtSettle(s)
  /\ net[s] > 0 /\ s # native /\ call.recipient # Signer
  /\ tok' = SendToken(tok, call.recipient, s, tok[Signer][s])
  /\ AfterSettle(s)
  /\ UNCHANGED <<sol, acct, native, price, saved, call, locals, status, calls>>

SettleToken(s) ==
  /\ AtSettle(s)
  /\ net[s] > 0 /\ s # native /\ call.recipient # Signer
  /\ tok' = SendToken(tok, call.recipient, s, net[s])
  /\ AfterSettle(s)
  /\ UNCHANGED <<sol, acct, native, price, saved, call, locals, status, calls>>

\* A bug: the recipient gets all that the closed account held.
MutSettleNative(s) ==
  LET unwrapped == CloseLamports(tok, sol, Signer, s, Rent)
      feePaid   == MoveSol(unwrapped, Signer, call.feeOwner, feeDue[s])
  IN
  /\ AtSettle(s)
  /\ net[s] > 0 /\ s = native
  /\ IF net[s] < feeDue[s] THEN Refuse("MathOverflow")
     ELSE IF CloseRefused(acct[s]) THEN Abort("OwnerMismatch")
     ELSE /\ tok' = CloseTokens(tok, Signer, s)
          /\ acct' = CloseAccount(acct, s)
          /\ sol' = MoveSol(feePaid, Signer, call.recipient, tok[Signer][s] - feeDue[s])
          /\ AfterSettle(s)
          /\ UNCHANGED <<native, price, saved, call, locals, status, calls>>

\* unwrap_wsol_to_destination closes the whole transit account: its balance and its
\* rent become lamports of the signer.  Then the fee, then the remainder.
SettleNative(s) ==
  LET unwrapped == CloseLamports(tok, sol, Signer, s, Rent)
      feePaid   == MoveSol(unwrapped, Signer, call.feeOwner, feeDue[s])
  IN
  /\ AtSettle(s)
  /\ net[s] > 0 /\ s = native
  /\ IF net[s] < feeDue[s] THEN Refuse("MathOverflow")
     ELSE IF CloseRefused(acct[s]) THEN Abort("OwnerMismatch")
     ELSE /\ tok' = CloseTokens(tok, Signer, s)
          /\ acct' = CloseAccount(acct, s)
          /\ sol' = MoveSol(feePaid, Signer, call.recipient, net[s] - feeDue[s])
          /\ AfterSettle(s)
          /\ UNCHANGED <<native, price, saved, call, locals, status, calls>>

(***************************************************************************)
(* Exit check, and the end of the call.                                    *)
(***************************************************************************)
ExitFails ==
  /\ pc = "exit"
  /\ ExitError # "none"
  /\ Abort(ExitError)

Commit ==
  /\ pc = "exit"
  /\ ExitError = "none"
  /\ pc' = "done"
  /\ status' = "ok"
  /\ UNCHANGED <<ledger, native, price, saved, call, locals, calls>>

Return ==
  /\ pc = "done"
  /\ pc' = "idle"
  /\ call' = NoCall
  /\ saved' = [tok |-> tok, sol |-> sol, acct |-> acct]
  /\ EmptyLocals
  /\ UNCHANGED <<ledger, native, price, status, calls>>

(***************************************************************************)
(* Between two calls.                                                      *)
(***************************************************************************)
Between == pc = "idle" /\ calls < MaxCalls

\* The user creates the wSOL account again, at the ATA or elsewhere.
ReopenNative(isAta) ==
  /\ Between
  /\ native # NoSide
  /\ ~acct[native].live
  /\ sol[Signer] >= Rent
  /\ sol' = [sol EXCEPT ![Signer] = @ - Rent]
  /\ acct' = [acct EXCEPT ![native] =
                [live |-> TRUE, ata |-> isAta, delegate |-> FALSE, closeAuth |-> FALSE]]
  /\ UNCHANGED <<tok, native, price, saved, pc, call, locals, status, calls>>

\* The user approves or revokes a delegate, or sets or clears a close authority.
SetPermissions(s, perm) ==
  /\ Between
  /\ acct[s].live
  /\ acct' = [acct EXCEPT ![s].delegate = perm.delegate, ![s].closeAuth = perm.closeAuth]
  /\ UNCHANGED <<tok, sol, native, price, saved, pc, call, locals, status, calls>>

PriceMoves(p) ==
  /\ Between
  /\ price' = p
  /\ UNCHANGED <<ledger, native, saved, pc, call, locals, status, calls>>

(***************************************************************************)
(* Specification.                                                          *)
(***************************************************************************)
Init ==
  /\ native \in Natives
  /\ price \in SqrtPrices
  /\ tok = [w \in Wallets |-> [s \in Sides |-> IF w = Signer THEN OwnToken ELSE 0]]
  /\ sol = [w \in Wallets |-> IF w = Signer THEN OwnSol ELSE 0]
  /\ \E isAta \in BOOLEAN :
       acct = [s \in Sides |-> [live |-> TRUE, ata |-> isAta /\ s = native,
                                delegate |-> FALSE, closeAuth |-> FALSE]]
  /\ saved = [tok |-> tok, sol |-> sol, acct |-> acct]
  /\ pc = "idle"
  /\ call = NoCall
  /\ before = Zero /\ cached = Zero /\ expected = Zero /\ delta = Zero
  /\ reward = Zero /\ owed = Zero /\ lost = Zero /\ feeDue = Zero /\ net = Zero
  /\ spent = 0 /\ out = 0 /\ dust = 0
  /\ event = NoEvent
  /\ status = "none"
  /\ calls = 0

Handler ==
  \/ \E p \in Payouts : DecreaseCpi(p)
  \/ \E p \in Payouts : PrincipalFails(p)
  \/ CpiFails
  \/ ConvertNothing \/ ThresholdFails \/ ConvertDust \/ SwapFails
  \/ \E received \in SwapOuts : \E unspent \in SwapRests :
       ConvertSwap(received, unspent)
  \/ Charge
  \/ Tally
  \/ \E s \in Sides : SettleNothing(s) \/ SettleToken(s) \/ SettleNative(s)
  \/ ExitFails \/ Commit \/ Return

Environment ==
  \/ \E isAta \in BOOLEAN : ReopenNative(isAta)
  \/ \E s \in Sides : \E perm \in Permissions : SetPermissions(s, perm)
  \/ \E p \in SqrtPrices : PriceMoves(p)

Next ==
  \/ \E c \in Calls : Reject(c) \/ Begin(c)
  \/ Handler
  \/ Environment

Spec == Init /\ [][Next]_vars

(***************************************************************************)
(* Properties.                                                             *)
(***************************************************************************)

\* Every variable keeps its type.
TypeOK ==
  /\ tok \in [Wallets -> [Sides -> Nat]]
  /\ sol \in [Wallets -> Nat]
  /\ acct \in [Sides -> TransitType]
  /\ native \in {0, 1, NoSide} /\ price \in Nat
  /\ saved \in [tok : [Wallets -> [Sides -> Nat]], sol : [Wallets -> Nat],
                acct : [Sides -> TransitType]]
  /\ pc \in Steps
  /\ call \in IF pc = "idle" THEN {NoCall} ELSE Calls
  /\ before \in [Sides -> Nat] /\ cached \in [Sides -> Nat]
  /\ expected \in [Sides -> Nat] /\ delta \in [Sides -> Nat]
  /\ reward \in [Sides -> Nat]
  /\ owed \in [Sides -> Nat] /\ lost \in [Sides -> Nat]
  /\ feeDue \in [Sides -> Nat] /\ net \in [Sides -> Nat]
  /\ spent \in Nat /\ out \in Nat /\ dust \in Nat
  /\ event \in [principal : [Sides -> Nat], reward : [Sides -> Nat],
                fee : [Sides -> Nat]]
  /\ status \in Errors \cup {"none", "running", "ok"} /\ calls \in Nat

Settling == pc \in {"settle0", "settle1", "exit", "done"}

\* The wSOL fee is decided before the account is unwrapped and paid after: by
\* then the net amount always covers it, so the require of the settlement never
\* fires and the remainder never underflows.
NetCoversFee ==
  Settling /\ native # NoSide => net[native] >= feeDue[native]

FeeWithinReward ==
  IF call.convert
  THEN /\ feeDue[Input] = 0
       /\ IF delta[Input] = 0
          THEN feeDue[Target] * BPS <= call.feePercent * owed[Target]
          ELSE feeDue[Target] * BPS * delta[Input]
                 <= call.feePercent * (owed[Target] * delta[Input] + out * owed[Input])
  ELSE \A s \in Sides : feeDue[s] * BPS <= call.feePercent * owed[s]

\* The fee is a share of the reward Raydium really paid, of the converted part in
\* proportion to the input it came from.  Rounding of the principal, the merged
\* swap and the stale balances never let it bite into the principal.
FeeOnRewardOnly == Settling => FeeWithinReward

\* The part of the paid reward that must be charged: the computed principal may be one
\* unit too high, and the mint may withhold its transfer fee.
Chargeable(s) == owed[s] - lost[s] - 1

FeeReachesReward ==
  LET charged(s) == (feeDue[s] + 1) * BPS IN
  IF ~call.convert
  THEN \A s \in Sides : charged(s) > call.feePercent * Chargeable(s)
  ELSE IF delta[Input] = 0
  THEN charged(Target) > call.feePercent * Chargeable(Target)
  ELSE charged(Target) * delta[Input] >
         call.feePercent * (Chargeable(Target) * delta[Input]
                              + out * Chargeable(Input) - delta[Input])

\* Input that the conversion leaves unsold is settled with the recipient, without a fee on
\* the reward in it (decrease_liquidity.rs:402-430).  No more than that escapes whole.
UnsoldEscapes == call.convert => net[Input] <= SatSub(delta[Input], spent)

\* The fee owner gets the percentage of the reward that was paid in the settlement
\* currency, and of the proceeds of a conversion, in the share the reward has in the
\* whole input, short of one unit for each rounding and what the mint withheld: no claim,
\* merged swap or balance read before the swap lets such reward pass as principal.  The
\* rest of the reward is in what the conversion left unsold and goes to the recipient.
FeeOnProceeds == Settling => FeeReachesReward /\ UnsoldEscapes

\* What wallet w has gained on side s since the call began.
Holding(t, b, a, w, s) == HoldingOf(t, b, a, w, s, native, Signer, Rent)

Gain(w, s) ==
  Holding(tok, sol, acct, w, s) - Holding(saved.tok, saved.sol, saved.acct, w, s)

\* What the position yielded on side s once converted, before fee and dust.
Yield(s) ==
  IF ~call.convert THEN delta[s]
  ELSE IF s = Target THEN delta[s] + out ELSE SatSub(delta[s], spent)

\* What the conversion took beyond the yield.
Overspent(s) == IF call.convert /\ s = Input THEN SatSub(spent, delta[s]) ELSE 0

\* Fee and dust a signer owes to itself stay in the transit account, except for a wSOL
\* fee, which it keeps as lamports.  The dust of wSOL is paid in lamports, the tokens it
\* stands for are still in the transit account.
FeePaid(s) == IF call.feeOwner = Signer /\ s # native THEN 0 ELSE feeDue[s]
DustPaid(s) == IF call.convert /\ s = Input /\ call.feeOwner # Signer THEN dust ELSE 0
Advanced(s) == IF s = native THEN DustPaid(s) ELSE 0

Settled(s) == Yield(s) - FeePaid(s) - (DustPaid(s) - Advanced(s))

\* What reaches recipient and fee owner.  Nothing is withheld of what the signer keeps.
RecipientGets(s) == IF call.recipient = Signer THEN Settled(s) ELSE Arrives(s, Settled(s))
FeeOwnerGets(s) == Arrives(s, FeePaid(s)) + Arrives(s, DustPaid(s))

\* A committed call moves exactly this, on whatever path: the recipient gets the yield
\* minus fee and dust, the fee owner gets fee and dust in full, and nobody else gains or
\* loses, except the signer who pays the dust of a wSOL claim and what a conversion takes
\* beyond the yield, and a mint that withholds its transfer fee from what arrives.
PayoutExact ==
  pc = "done" =>
    \A w \in Wallets, s \in Sides :
      Gain(w, s) = (IF w = call.recipient THEN RecipientGets(s) ELSE 0)
                 + (IF w = call.feeOwner THEN FeeOwnerGets(s) ELSE 0)
                 - (IF w = Signer THEN Advanced(s) + Overspent(s) ELSE 0)

\* The payout of a committed call.
Made ==
  [made |-> TRUE, recipient |-> call.recipient, feeOwner |-> call.feeOwner,
   principal |-> expected, yield |-> [s \in Sides |-> Yield(s)],
   settled |-> [s \in Sides |-> RecipientGets(s)],
   fee |-> [s \in Sides |-> FeeOwnerGets(s)],
   withheld |-> [s \in Sides |-> (Settled(s) - RecipientGets(s))
                                  + (FeePaid(s) + DustPaid(s) - FeeOwnerGets(s))],
   advanced |-> [s \in Sides |-> Advanced(s)],
   overspent |-> [s \in Sides |-> Overspent(s)]]

\* While a call runs, its outcome is open: what counts is what was held before it.
Visible ==
  IF pc \in {"idle", "done"} THEN [tok |-> tok, sol |-> sol, acct |-> acct] ELSE saved

Held ==
  [w \in Wallets |-> [s \in Sides |->
     Holding(Visible.tok, Visible.sol, Visible.acct, w, s)]]

LastPayout == IF pc = "done" THEN Made ELSE [made |-> FALSE]

Promise == INSTANCE Payout WITH holding <- Held, payout <- LastPayout

\* Every behaviour is a sequence of exact payouts: an instruction that fails at any
\* step, its retry, a wSOL account opened again and a change of permissions or of the
\* price change nothing of what anybody holds.
ImplementsPayout == Promise!Spec

\* The settled amounts of the event are what was settled, up to the unit by which the
\* computed principal may exceed the paid one and what the mint withheld when Raydium
\* paid it: the event never reports less.
EventMatchesPayout ==
  pc = "done" =>
    \A s \in Sides :
      ~call.convert \/ s = Target =>
        event.principal[s] + event.reward[s] - (Yield(s) - feeDue[s]) \in 0..(1 + lost[s])

\* What must be the case for a call to fail with this error.
HasCause(err) ==
  CASE err = "CpiError" -> pc \in {"cpi", "convert"}
    [] err = "Panicked" -> pc = "cpi" /\ call.liquidity > I128_MAX
    [] err = "MaxTokenOverflow" ->
         pc = "cpi" /\ \E p \in Payouts, s \in Sides : Planned(p)[s] > U64_MAX
    [] err = "NoBalanceChange" -> pc = "cpi"
    [] err = "InvalidRemainingAccounts" -> call.convert /\ ~call.swapAccountsOk
    [] err = "InvalidSqrtPrice" -> call.convert /\ PriceOf(price) = 0
    [] err = "MathOverflow" ->
         \/ call.convert /\ QuoteOut(delta[Input], Input = 0, price) > U64_MAX
         \/ \E s \in Sides : (owed[s] + out) * call.feePercent > U64_MAX
    [] err = "InsufficientFunds" ->
         /\ call.convert /\ native = Input /\ expected[Input] = 0
         /\ saved.sol[Signer] < delta[Input]
    [] err = "OwnerMismatch" -> native \in Sides /\ saved.acct[native].closeAuth
    [] err = "SecurityTokenAccountCorrupted" ->
         native \in Sides /\ ~saved.acct[native].ata
    [] err = "SecurityTokenDelegateNotAllowed" ->
         \E s \in Sides : saved.acct[s].delegate
    [] err = "SecurityTokenCloseAuthorityNotAllowed" ->
         \E s \in Sides : saved.acct[s].closeAuth
    [] OTHER -> FALSE

\* A call that has passed the checks of its arguments fails only for what the user or
\* the market brought about: Raydium, a price or an amount out of range, lamports the
\* signer does not have, the state of its accounts before the call.  The handler runs
\* into none of its own guards: it can pay the token fee it computed, the net amount
\* covers the wSOL fee, and it sets no permission that its exit check refuses.
FailsForCause ==
  [][pc \notin {"idle", "done"} /\ pc' = "idle" => HasCause(status')]_vars

(***************************************************************************)
(* What comments of the code say and the handler does not do.              *)
(***************************************************************************)

\* decrease_liquidity.rs:76-78 says that the handler checks fee_owner against a
\* whitelist so that the fee cannot go back to the user.
FeeOwnerIsListed ==
  pc = "done" /\ (\E s \in Sides : feeDue[s] > 0) =>
    call.feeOwner \in Config.feeOwners

\* decrease_liquidity.rs:303 says that the conversion takes its input from what the
\* call received and never from what the user had before.
ConversionSparesOwnFunds ==
  pc = "done" /\ call.recipient # Signer =>
    \A s \in Sides : Gain(Signer, s) >= 0

=============================================================================

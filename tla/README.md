# A TLA+ model of the lp_handler program

`lp_handler` is a Solana program that opens, tops up and empties positions in Raydium
CLMM pools on behalf of a user. It swaps before a deposit so that both tokens fit the
range, converts what a withdrawal yields into one token if asked to, takes a fee on the
rewards, and wraps every business instruction in an entry and an exit check. This
directory holds its specification in TLA+, the TLC configurations that check it and the
proofs that TLAPS checks.

Contents: [inventory](#inventory), [how a Solana call is modelled](#how-a-call-is-modelled),
[modules](#modules), [runs](#runs), [fairness and deadlock](#fairness-and-deadlock),
[proofs](#proofs), [where code and documents differ](#where-code-and-documents-differ),
[what is not modelled](#what-is-not-modelled), [plan](#plan).

## Inventory

Paths are relative to `programs/lp_handler/src/`.

| component | state it keeps | operations | what makes it correct |
|---|---|---|---|
| entry points, `secure_entrypoint!` (`lib.rs`) | none | runs entry check, body and exit check of one instruction | a failing check or body leaves no trace; the exit check runs after the body in every case |
| security layer (`security/mod.rs`) | a snapshot for the length of a call | `entry_check_and_snapshot`, `exit_check`, parsers of the raw configuration | a call is served exactly for the lists last written, refused only for a cause outside the program, and leaves no permission over the user's accounts |
| configuration (`instructions/security_config.rs`, `state/security_config.rs`) | the `security_config` PDA: authority, pools, fee owners, lamports | `init`, `update`, `close` | the parsers, which read by offset, see exactly the lists last written |
| `decrease_liquidity` (`instructions/decrease_liquidity.rs`) | locals of a call | withdraw, claim; conversion; fee; settlement | the recipient gets all the call yielded but the fee; the fee is a share of the reward only; the signer's own funds pay for nothing but the dust of a wSOL claim and what a conversion takes beyond the yield; all at once or not at all |
| deposits (`instructions/swap_and_deposit.rs`, `increase_liquidity.rs`, `zap_common.rs`) | locals of a call | plan, swap, liquidity, deposit, return of the leftovers | the signer spends at most `amount_in`, and beyond it only what a swap back takes more than it was asked to sell; the liquidity computed is the liquidity added and fits the budget; the event accounts for what is returned; nobody else gets anything but dust |
| arithmetic (`state/utils.rs`) | none | `calc_min_amount_out`, `calculate_principal_amounts_for_liquidity`, ... | rounding does not make a fair swap fail, and is monotone in the inputs |
| events, errors, constants (`state/`) | none | | the amounts of an event are those that moved |
| Raydium CLMM, token and system programs | external | decrease, swap, open, increase, transfer, close | modelled by what the handlers rely on |
| scripts, tests, audit document | none on chain | | not modelled |

How they interact. A transaction calls an entry point of `lib.rs`. Anchor deserialises
the accounts; the entry check reads the configuration PDA, the pool and the token
accounts; the body makes cross-program calls to Raydium (decrease, swap, open, increase)
and to the token and system programs, and re-reads its token accounts after each; the
exit check compares the token accounts of the signer with the snapshot. The user's
accounts and the pool are shared with everybody else: between two calls permissions are
set, the wSOL account is opened again, the price moves, and lamports are sent to the PDA.
Within a call nothing runs concurrently, and an instruction is atomic.

So the hard behaviours are not races. They are the deserialised copies of balances that
become stale after each cross-program call; two rounding directions that meet in one
subtraction; the wSOL side, where tokens become lamports half-way through the settlement
and the closing takes along what was in the account before; roles that coincide; what
Raydium may do within its contract (leave input, take more for a token with a fee, return
nothing); and calls in sequence over accounts whose permissions and price changed. Each
is listed with its line under "hazards" in `PROJECT.json`.

## How a call is modelled

`pc` names the next step of the running call, `"idle"` between calls. A step is one
cross-program call or one decision of the handler with everything the code does up to
the next one. `saved` is the image of the accounts at the start; an error restores it
(`Abort`), which is what the runtime does. `Refuse(err)` is an error that the body
returns: `secure_entrypoint!` runs the exit check before it returns the body's result, so
an error of the exit check is reported instead. A failed cross-program call and a panic end
the instruction at once, without the exit check (`Abort` alone). `status` is the result of the last call.

Wallets stand for the roles (signer, recipient, fee owner); `tok[w][s]` is the balance of
the one account of wallet `w` on side `s` that the instruction uses and `sol[w]` its
lamports. Roles may coincide. `native` is the side that is wSOL, if any. The arguments of
a call are a record (`CallType`), and the set `Calls` of records a user may submit is a
constant, as are the payouts of Raydium, the results of a swap and the prices.

Amounts are natural numbers. The scales of the code are parameters of `LpMath`: `Q64` is
2^64 in the code, `DUST_FLOOR` 100, `U64_MAX` 2^64 - 1. The runs give them small values so
that roundings, dust and overflow occur on small amounts; the proofs hold for every value.

## Modules

| module | models | correspondence |
|---|---|---|
| `LpMath` | `state/utils.rs` | `CalcMinAmountOut` and `MinOutError` split the `Result` of `calc_min_amount_out` into value and error. The intermediate values are u128 in the code; the overflow of the last conversion to u64 is kept. `CeilDiv` is the rounding of the principal. |
| `LiquidityMath` | Raydium's `liquidity_math`, external | the liquidity two amounts allow, rounded down, which `zap_common` calls, and what a liquidity costs, rounded up, which Raydium charges. Both are needed to ask whether one fits the other. |
| `TokenLedger` | transfers, closing of an account | `MoveToken` allows a source that is its own destination; `CloseTokens`, `CloseLamports` and `CloseAccount` are `unwrap_wsol_to_destination`. |
| `SecurityLayer` | `security/mod.rs`, `state/consts.rs` | the checks as operators: `EntryError` in the code's order, with `AccountsError` for the loop over the accounts (executables, then token accounts), `LamportsLeaked`, `SignerAccountError` and `CreatedAccountError` for the three parts of the exit check, the whitelists of programs. |
| `SecurityConfig` | the configuration | the data is an array of cells (32-byte key or 4-byte length) at the offsets of the Borsh layout; `Serialize` leaves the cells beyond the new lists as they were; the parsers read by offset. |
| `LpHandler` | `lib.rs`: the whole program | extends the two modules above. `EntryRefuses`, `Enter`, one action per way a body can end (`BodySucceeds`, `BodyFails`, `CpiFails`), `ExitRefuses`, `ErrorReturned`, `Commit`, for all three business entry points, and the three configuration instructions between calls. The body is reduced to what the checks can see: accounts it closes and creates. `listed` and `donated` remember what the administrator wrote and what was sent to the PDA; no action reads them. |
| `DecreaseLiquidity` | `decrease_liquidity` | `Begin`, `PrincipalFails` (the principal is computed before the CPI; a liquidity beyond i128 panics, an amount beyond u64 is an error), `DecreaseCpi`, then `ConvertNothing`, `ConvertDust` or `ConvertSwap`, `Charge`, `Tally`, one of `SettleNothing`, `SettleToken`, `SettleNative` for each side, `Commit`. `ConvertSwap` may leave input or take more than the yield. One failing action per error path. A transfer of a mint with a fee (`TRANSFER_FEE`) delivers what `Arrives`. `owed`, `lost`, `spent` and `dust` remember what happened for the properties. |
| `Zap` | both deposits | `Begin` (plan and checks), `Swap`, `DepositCpi`, one of `ReturnAsIs`, `SwapBack`, `DustToFee`, `DustKept`, then `EmitAndUnwrap` and `Commit`. `ComputedLiquidity` and `BaseSide` are the liquidity and `base_flag` passed to Raydium, `AddedLiquidity` what Raydium makes of them. `increase_liquidity` differs in that its recipient is the signer and the position has a range of its own (`posLower`, `posUpper`). `SwapBack` sells the leftover and may leave part of it or take more; `unsold` remembers which (below zero: more), `added` what the position got. |
| `MinOut` | `calc_min_amount_out` alone | a walk through its inputs, so that one threshold can be compared with the exact quote and with its neighbours. |
| `SecurityRegistry` | abstract specification of the configuration | an administrator and two sets, replaced together. `SecurityConfig` implements it under the mapping that reads the sets through the parsers (`RefinesRegistry`). |
| `Payout` | abstract specification of a withdrawal | one step divides a yield between recipient, fee owner and what the mint withholds, and takes from the signer what a conversion used beyond it; nothing else changes what anybody holds. `DecreaseLiquidity` implements it (`ImplementsPayout`) under a mapping in which a running call shows the holdings of its start. |
| `Gate` | abstract specification of the whole program | extends `SecurityRegistry` by what the outside can see of the calls: whether the registry is blocked by lamports, which accounts of the signer carry a permission, and the call that has just taken effect. `LpHandler` implements it (`ImplementsGate`) under a mapping in which a running call shows the accounts of its start. |
| `Deposit` | abstract specification of a deposit | one step takes an affordable input and gives back what is returned or unsold; of one token of which nothing is returned it may take more, as far as selling the rest of it took more; only a rest may go to the fee owner. `Zap` implements it (`ImplementsDeposit`) under the same kind of mapping. |
| `MC*` | | instances for TLC: the wallets and the sets of calls |
| `*Proofs` | | theorems |

The operators named `Mut...` are not part of the model: each is the definition after it
with a plausible bug, kept to show that the properties depend on that definition.

The composition is in two layers. `LpHandler` has every instruction of the program and
their interplay through the configuration and the permissions of the signer's accounts,
with bodies that move no amounts. `DecreaseLiquidity` and `Zap` have the bodies in full,
under a configuration that stays the same, with the same operators of `SecurityLayer`
around them. What the second layer takes for granted of the configuration is what
`ServedAsListed` says of the first, and what the first takes for granted of the bodies
(they close nothing but the wSOL account and leave the permissions alone) is proved of
the second (`WithdrawalKeepsAccounts`, `DepositKeepsAccounts`).

Choices worth knowing.

- Raydium is external. It pays a principal rounded down where the handler computes it
  rounded up (`PRECISION` units of a fraction), plus a reward that it alone knows. Each call may fail.
- All three swaps of the program go through `swap_v2_common`, and each may return any
  output from its minimum on, leave input, or take more than asked, as a token with a
  transfer fee would (`SwapExtras`, `SwapRests` below zero). The code compares what was
  taken with the budget after the first swap of a deposit only (`zap_common.rs:305-317`).
  After the swap back (`446-455`, `509-518`) and after the conversion of a withdrawal
  (`decrease_liquidity.rs:381-399`) it does not, so there the transit account may pay from
  what the signer had before; the properties below count that amount and say that nothing
  else is ever spent. The deposit itself may cost more too (`DepositFees`), but Raydium is
  given the budget as its maximum.
- `calculate_principal_amounts_for_liquidity` converts the liquidity to an i128 with
  `try_into().unwrap()` (`utils.rs:159`). `I128_MAX` is 2^127 - 1 in the code and 2 in the
  runs, so that the panic occurs.
- A tick is represented by the price at it. Both orders are the same.
- Account constraints of Anchor are the domains of a call: the transit accounts exist
  (`Submit`), and mints and authorities match.
- `PayoutExact` and the holdings of the two refinements count wSOL and lamports as one
  currency, and count the rent in an account as its owner's, so that unwrapping moves
  nothing.

## Runs

| run | instance | shows |
|---|---|---|
| `lp_handler` | 2 keys that are pools, fee owners and administrators at once; lists of up to 2 pools and 1 fee owner, in an account laid out for 3 and 1; up to 3 lamports on the PDA; every business instruction with and without a wSOL side, accounts of the signer among the remaining accounts, every pool and fee owner, malformed calls; 153,034 states | `ProgramTypeOK`, `ServedAsListed`, `RefusedForCause`, `BlockedByDonations`, `CommittedAccountsClean`, `ImplementsGate` |
| `decrease_payout` | 1 call out of 154: roles, claim or withdraw, 3 fees, conversion and its direction, one malformed call per check; 25 payouts, one of them with a principal that is no u64; 3 prices, 4 swap outputs, swaps that take one unit more or less; a transfer fee of 30% on token1; 343,024 states | `TypeOK`, `NetCoversFee`, `FeeOnRewardOnly`, `PayoutExact`, `EventMatchesPayout`, `FeeOnProceeds` |
| `decrease_sequence` | 2 calls out of 6, permissions and wSOL account change in between; a fee and reward large enough to overflow, a liquidity that panics, a principal that is no u64; 472,440 states | `ImplementsPayout`, `FailsForCause` |
| `config_registry` | 2 keys, up to 3 pools and 2 fee owners, and lists one longer; 3,131 states | `TypeOK`, `LiveConfigParses`, `RefinesRegistry`, `WritesAreExact` |
| `zap_deposit` | 1 call out of 123: amounts, plan, return token, fee owner, malformed calls; 6 prices below, in, above and at the ends of the range; first swaps and swaps back that take one unit more or less; a deposit that costs one unit more; 63,496 states | `TypeOK`, `BudgetRespected`, `EventMatchesHoldings`, `OnlyDustLeaves`, `ComputedLiquidityFits`, `EventLiquidityAdded` |
| `zap_sequence` | 2 deposits out of 4: one that sells its rest back, one that swaps the whole input, one whose swap may take all of it, one into a position with another range; permissions change and the wSOL account is opened again with some wSOL in it; 154,868 states | `ImplementsDeposit`, `FailsForCause` |
| `min_out` | amounts and prices to 24 with `Q64 = 8`; slippages from none to all, a trade fee of none or 10%; 9,600 states | `TypeOK`, `NeverOverasksToken0`, `OveraskBounded`, `LossBounded`, `ThresholdMonotone` |
| `decrease_fee_owner`, `decrease_dust`, `config_uninit`, `zap_unwrap`, `zap_remaining` | as the runs above; in `decrease_dust` no swap takes more than asked, so that its violation comes from the dust alone | one statement of a document each, which the code does not meet; see below |

What the properties say.

- `ServedAsListed`: a call takes effect only for a pool and a fee owner of the lists
  written last, after any sequence of writes, closings and creations in between.
- `RefusedForCause`: each refusal by the security layer has its cause outside the
  program: what the caller passed, what the administrator listed, lamports somebody sent
  to the PDA, a permission the signer had set. What the bodies do never causes one.
- `BlockedByDonations`: the lamport check of the exit refuses business calls exactly when
  the PDA got lamports after its creation, or more than the rent before it.
- `CommittedAccountsClean`: when a call takes effect, no account of the signer it was
  passed, also among the remaining accounts, carries a delegate or a close authority.
- `ImplementsGate`: the program with all its instructions behaves like a gate that serves
  one call at a time. A call takes effect only under the registry as it stands then, with
  the lamports of the PDA within its rent, and only if no account that takes part carries
  a permission, the wSOL account excepted, which is closed; or it changes nothing. Calls
  never change the registry, and writes of the registry never the accounts.
- `NetCoversFee`: the wSOL fee is fixed before the account is unwrapped and paid after;
  the net amount always covers it.
- `FeeOnRewardOnly`: the fee is at most `fee_percent` of the reward Raydium really paid,
  the part that was converted counted in proportion to the input it came from, although
  the handler never sees that reward and estimates it from balances.
- `FeeOnProceeds`: the other direction. The fee reaches the percentage of the reward that
  was paid in the token of the settlement, and of the proceeds of a conversion in the share
  the reward has in its input, but for one unit per rounding and what the mint withheld.
  Reward in input that the conversion leaves unsold is settled without a fee
  (`decrease_liquidity.rs:402-430`). The property does not hide that: it says that what is
  settled of the input is at most what the swap did not take (`UnsoldEscapes`).
- `PayoutExact`: over the whole call, every wallet gains exactly what it should on each
  side, down to the unit, after what a mint withholds; the signer loses nothing but the
  dust of a wSOL claim (`Advanced`) and what a conversion took beyond the yield
  (`Overspent`).
- `EventMatchesPayout`: the settled amounts of the event are the payout before the
  transfer fee of the settlement, up to one unit of rounding of the principal and what the
  mint withheld when the position paid.
- `ImplementsPayout`, `ImplementsDeposit`: the call happens at once or not at all. Failures
  at any step, refusals, permissions and an account opened again do not change what
  anybody holds, and what changes adds up.
- `FailsForCause`, of both handlers: a call that passed the checks of its arguments fails
  only for a cause outside the handler. `HasCause` names the cause of each error: Raydium
  or a swap, a price, a liquidity, a principal or a quote out of range, the overflow of reward times percentage,
  lamports the signer does not have, an account in a state the user left it in. No guard
  of the handler on an amount it computed itself ever fires.
- `BudgetRespected`: a deposit costs the signer at most `amount_in` of each token, and what
  a swap back took beyond the leftover it was asked to sell (`Overdrawn`). More than
  `amount_in` is spent only of the token the caller does not want back, and only when
  nothing of it is returned.
- `ComputedLiquidityFits`: at the price the swap leads to, the liquidity that the handler
  computes from the budget costs no more than the budget. This is about the cost of the
  liquidity. What a mint withholds on top is in `DepositFees`: with it Raydium may refuse
  the same deposit, which is one of the causes in `FailsForCause`.
- `EventLiquidityAdded`: the liquidity of the event is the one the position got. When the
  computed liquidity is 0 Raydium chooses by `base_flag`; the property says that it can
  then only fail or add nothing.
- `EventMatchesHoldings`: the signer's loss is `amount_in` minus the returned amounts of
  the event, except for what a swap back left unsold or took beyond the leftover, which is
  the one amount the event does not report.
- `OnlyDustLeaves`: a deposit pays another wallet nothing but an unwanted leftover that is
  not wSOL and hardly worth anything. What the pool would pay for it at its price, less its
  fee and the caller's slippage, is at most `DUST_FLOOR` and two units of rounding. It need
  not be zero: `calc_min_amount_out` subtracts 100 units (`utils.rs:86`), and a minimum of 0
  is what the handler calls dust.
- `LiveConfigParses`, `RefinesRegistry`, `WritesAreExact`: the raw data after any sequence
  of writes is read as exactly the lists written last.
- `NeverOverasksToken0`, `OveraskBounded`, `ThresholdMonotone`: how far truncation can move
  the minimum output. `LossBounded`: how much of the quote the minimum output gives away,
  at most the shares of fee and slippage, the dust floor and two units.

Why the bounds are enough. A call touches at most three wallets and two sides, all of
which are there with every coincidence of roles. Every branch of the handlers depends on
a comparison with zero, with a threshold or with the range, and the amounts lie on both
sides of each; `U64_MAX` is small enough for the overflow of the fee to occur. Two calls are enough for what one call leaves to the next, as the
accounts are all the state there is; `lp_handler` has no bound on the number of calls.
With three pools and two fee owners a shorter list leaves stale pools and stale fee
owners where a longer pool list would be, and both maxima occur; in `lp_handler` a list of
one pool over a list of two leaves the second pool and its successor in place. Lamports
on the PDA up to 3 with a rent of 1 are on both sides of every comparison, before and
after the creation. The sequence runs use fewer arguments, because what they add are the
changes between calls.

## Fairness and deadlock

No specification assumes fairness, and none states liveness. The handlers are straight-line
code that the runtime executes to its end or drops; no loop waits for anything, and no step
depends on another actor. That a started call ends holds by the shape of such code and
would show nothing.

The runs of `DecreaseLiquidity` and `Zap` have `CHECK_DEADLOCK FALSE`, as nothing happens
any more after `MaxCalls` calls. `lp_handler`, `config_registry` and `min_out` check
deadlock: the program always accepts another instruction.

## Proofs

All theorems are over arbitrary constants under the named assumptions of the modules
(`ScaleAssumption`, `DecreaseAssumption`, `ZapAssumption`, `ConfigAssumption`,
`HandlerAssumption`, `MinOutAssumption`), which say that amounts are natural numbers, fees
are at most the whole, keys are not numbers, and calls have their type. In particular they
hold for any set of calls, payouts, prices, transfer fees, lists and swap results and for
any number of calls, where the runs have a few. Every property of a passing run is the
subject of a theorem.

`DecreaseLiquidityProofs`. `TypeOK` is not inductive: that balances stay natural numbers
depends on what the transit accounts held at each step. The invariant `IInv` is `TypeOK`
with `StepInv`, which says for each value of `pc` how balances, cached copies, deltas,
reward and fee are related: after the CPI a balance is the balance on entry plus the
delta, and the computed reward is at most the reward that was owed; after the
conversion the input is reduced by what was spent and the target raised by the output;
after the charge the fee is at most the share of the reward and the balances still
contain what is left to settle. There is one lemma per action. From it follow:

- `TypeCorrect` (`TypeOK`): no subtraction goes below zero;
- `FeeIsCovered` (`NetCoversFee`);
- `FeeWithinPaidReward` (`FeeOnRewardOnly`): the products and quotients of the rounding
  are isolated in lemmas of their own.

A second invariant, `FloorInv`, bounds from below what `IInv` bounds from above: the
computed reward is at least the one paid less one unit and the transfer fee, and from the
charge on the fee is at least its share of that.

`PayoutProofs`. `IInv` says nothing of the other wallets and of lamports. Two invariants
on top of it do. `FlowInv` is about amounts: fee and dust are within the yield, and the
computed principal exceeds what arrived by at most one unit and the transfer fee.
`LedgerInv` accounts for every unit of every wallet at every step: a side that is not
settled has its yield in the transit account less the fee and dust already paid, a settled
one has its final distribution. From them `PayoutIsExact`, `EventIsClose`,
`FeeReachesOwner` (`FeeOnProceeds`, from `FloorInv` and from `NetInv`, which says that what
is settled of a converted input is what the swap left), and the refinement
`PayoutRefined`: `Commit` maps to `Pay`, `Return` to `Finish`, and every other step to a
stutter, failures because the runtime restores the image of the start.
`OnlySignerAdvances` is a property of `Payout` that the refinement carries over: nobody but
the signer ever has less than before. The signer pays either at most what the fee owner
gets, where there is no principal, or what a conversion took of a token that yields nothing
more; it has that, and it happens with one token only. `WithdrawalFailsForCause` (`FailsForCause`) goes through the errors one by one.
It needs `CauseInv` besides: until the settlement the accounts have the permissions they
had before the call, and none but the wSOL account is closed (`AccountsKept`, a theorem of
its own, `WithdrawalKeepsAccounts`), and the slippage was checked. That the guards of fee
and settlement do not fire follows from the balances of `IInv` and `LedgerInv`.

`ZapProofs`. The invariant `ZapInv` follows the budget: what the transit accounts lost on
a side is `amount_in` minus the budget that is left (`AtSwap`, `AtCpi`), then minus the
leftover (`AtBack`), then minus what is returned, unsold or dust (`Accounted`). Where a
swap back left something or took more, nothing of that token is returned and the other one
is the token wanted (`SoldBack`). Other wallets only ever get dust, and dust is worth at
most its bound at the price of the call (`HardlyWorth`, by `DustValue` from what
`DiscountLoss` in `LpMathProofs` says of the discounts). From it
`ZapTypeCorrect`, `BudgetIsRespected`, `EventIsExact`, `OnlyDustIsLost`,
and with the facts of the next module `LiquidityFits` and `EventLiquidityIsAdded`. For the refinement `DepositRefined` it is joined by what a call
leaves behind when it is over (`ClosedEmpty`). `OnlySignerSpends` carries a property of
`Deposit` over: nobody but the signer ever has less than before, and the signer at most by
`amount_in` and what selling a rest took beyond it, which it has, and which is of one token
of which nothing is returned. `DepositFailsForCause` (`FailsForCause`) is by `CauseInv`: `AccountsKept`
(`DepositKeepsAccounts`), and `PlanFits`, that the plan checked at the start is within the budget when it is swapped.

`LiquidityMathProofs`. The liquidity is computed with two roundings down and charged with
two roundings up, on different intermediate products. `CostFits`: the first always
outweighs the second, for every price, range and pair of amounts. `BaseSideAlone`: if the
two amounts allow no liquidity together, then the liquidity of one side alone costs more
than the other amount, so that Raydium's own choice by `base_flag` cannot be paid for.
`LiquidityNearlyLargest` is the converse of `CostFits`: a larger liquidity that both
amounts would pay for exists only where token0 decides, and within the one unit by which
the product of the bounds is cut.
`LpMathProofs` has the lemmas on integer division all of these rest on.

`SecurityConfigProofs`. The invariant says that a live account holds a serialisation of
*some* lists of allowed length, the cells beyond them being arbitrary. From it:
`TypeCorrect`, `LiveConfigIsWellFormed`, `WritesAreExactAlways`, and the refinement
`ConfigRefinesRegistry`: every instruction maps to an action of the registry and lamports
received map to a stutter.

`LpHandlerProofs` builds on it. `ProgramInv` adds that the parsers' view of the data is
`listed`, that the lamports on the PDA are the rent and what was sent, that a running
call passed the entry check against the lists as they are (no configuration instruction
runs within a call), and how the signer's accounts differ from their image at each step.
From it the theorems `ProgramTypeCorrect`, `OnlyListedIsServed`, `RefusalHasCause`,
`DonationsBlock` and `CommittedIsClean`, and the refinement `ProgramIsGate`: `Commit` maps to
`Serve`, the instructions of the administrator to `Administer`, lamports received to `Fund`,
the user's changes to `Grant`, every step inside a call to a stutter. `GateInv` adds that
what is not open as a token account carries no permission (`ClosedBare`).

`MinOutProofs`. `Token0NeverOverasked`, `Token1OveraskBounded`, `LossIsBounded`,
`ThresholdIsMonotone` and `TypeCorrect`, from lemmas on integer division (`DivLeast`, `DivMonotone`, `DivAntitone`).

Only model-checked: the five violations of the next section, each a counterexample on a
small instance. Nothing is left to TLC because the prover cannot reach it: there is no
liveness property and no ENABLED, and the model has no recursive definition whose value for
every input would have to be proved by induction.

## Where code and documents differ

Each item is a run with `expect: violation`; `PROJECT.json` quotes the lines.

1. `FeeOwnerIsListed`. The fee owner is said to be checked against the whitelist. The
   entry check skips accounts of the signer and of the recipient, so either may be the
   fee owner.
2. `ConversionSparesOwnFunds`. The dust of a wSOL claim is paid from lamports that the
   signer had before, while the claimed wSOL goes to the recipient. `Payout` says how far
   this goes: it happens only on a side without principal, and costs no more than the fee
   owner gets.
3. `UninitializedSkipsWhitelist`. A comment says that the pool whitelist is skipped with
   an uninitialised configuration; the code refuses the call.
4. `UnwrapPaysReturnAndRent`. Closing the wSOL account pays out all it held, not the
   returned amount plus rent.
5. `SwapAccountsSuffice`. `swap_and_deposit` needs the separator among the remaining
   accounts, which the README does not mention for it.

Not contradictions a run could show, but worth knowing:

- The dust of a conversion is in no field of the event of `decrease_liquidity`.
- A comment at `zap_common.rs:305` says that a token with a transfer fee may take more than
  the swap asked for, and that this must stay within the input budget. The first swap is
  checked so; a swap back and a conversion are not:
  if Raydium takes more than asked, the rest comes from what the signer had before, as
  `BudgetRespected` and `PayoutExact` count it.
- What a conversion leaves unsold goes to the recipient without a fee, reward or not
  (`FeeOnProceeds`).
- `increase_liquidity` decides about the swap, computes the liquidity and names a range in
  its event by its arguments, which nothing compares with the range of the position.
  `zap_deposit` and `zap_sequence` have such calls; the budget is kept all the same, while
  `ComputedLiquidityFits` and `EventLiquidityAdded` are stated for equal ranges only.
- A comment at `swap_and_deposit.rs:212-215` says that a liquidity of 0 is passed to
  Raydium; what is passed is the liquidity computed from the budget.
- Lamports sent to the configuration account stay there until it is closed, and business
  calls are refused meanwhile (`BlockedByDonations`).

## What is not modelled

- `apply_slippage_bps_floor`, `calculate_optimal_swap_amount` and
  `collect_accounts_to_check`, which nothing calls.
- A second token account of the signer for the same mint, passed as fee or recipient
  account; a wallet has one account per side.
- What a mint withholds when a deposit pays dust to the fee owner. The transfer fees of a
  deposit appear where they touch the signer's balance: in both swaps and in the deposit.
- The rent floor of system accounts, the amount of compute, and the size of a transaction.
- The state inside a pool: liquidity of others, tick arrays, reward accounts and vaults.
  A price is chosen anew by every swap.
- Wording of errors and messages, and the keys in events.
- Scripts, migrations, tests and their client. They run off-chain; what they send is an
  input that the models take from a set larger than what they would compute.

## Plan

Done: the whole program under the security layer, the two handlers, the configuration,
four abstract specifications with their refinements proved, the arithmetic of the
program and of the liquidity, and a theorem for every safety property of the runs. What
could follow, in this order:

1. A second account per wallet and mint in `TokenLedger`, and the transfer fee of dust.
2. The client's search for the swap of a deposit (`tests/utils.ts`), against the plan
   checks of the handler.
3. Several users of one pool, once a pool has a state of its own.

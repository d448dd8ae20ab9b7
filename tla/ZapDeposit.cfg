SPECIFICATION Spec
CONSTANTS
  sam = sam
  rex = rex
  fay = fay
  pat = pat
  Wallets <- mcWallets
  Signer = sam
  Config <- mcConfig
  Calls <- mcAllCalls
  SqrtPrices = {1, 2, 3, 4, 5, 6}
  SwapOuts = {0, 1, 3, 10}
  SwapExtras <- mcSwapExtras
  Permissions <- mcNoPermissions
  Q64 = 4
  DUST_FLOOR = 1
  U64_MAX = 13
  DepositFees = {0, 1}
  TRADE_FEE_RATE = 2500
  Rent = 5
  OwnToken = 4
  OwnSol = 1
  Natives = {0, 1, 2}
  MaxCalls = 1
CHECK_DEADLOCK FALSE
INVARIANTS TypeOK BudgetRespected EventMatchesHoldings OnlyDustLeaves ComputedLiquidityFits EventLiquidityAdded

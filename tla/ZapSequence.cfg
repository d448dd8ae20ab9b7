SPECIFICATION Spec
CONSTANTS
  sam = sam
  rex = rex
  fay = fay
  pat = pat
  Wallets <- mcWallets
  Signer = sam
  Config <- mcConfig
  Calls <- mcFewCalls
  SqrtPrices = {2, 4}
  SwapOuts = {1, 3}
  SwapExtras <- mcSwapExtras
  Permissions <- mcPermissions
  Q64 = 4
  DUST_FLOOR = 0
  U64_MAX = 25000
  DepositFees = {0, 1}
  TRADE_FEE_RATE = 2500
  Rent = 5
  OwnToken = 4
  OwnSol = 6
  Natives = {0, 1, 2}
  MaxCalls = 2
CHECK_DEADLOCK FALSE
PROPERTIES ImplementsDeposit FailsForCause

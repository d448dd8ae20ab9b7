SPECIFICATION Spec
CONSTANTS
  sam = sam
  rex = rex
  fay = fay
  pat = pat
  Wallets <- mcWallets
  Signer = sam
  Config <- mcConfig
  Calls <- mcDocCalls
  SqrtPrices = {1, 2, 4, 6}
  SwapOuts = {0, 1, 3}
  SwapExtras <- mcSwapExtras
  Permissions <- mcNoPermissions
  Q64 = 4
  DUST_FLOOR = 1
  U64_MAX = 25000
  DepositFees = {0, 1}
  TRADE_FEE_RATE = 2500
  Rent = 5
  OwnToken = 4
  OwnSol = 1
  Natives = {0, 1, 2}
  MaxCalls = 1
CHECK_DEADLOCK FALSE
PROPERTIES SwapAccountsSuffice

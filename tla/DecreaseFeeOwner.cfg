SPECIFICATION Spec
CONSTANTS
  sam = sam
  rex = rex
  fay = fay
  pat = pat
  Wallets <- mcWallets
  Signer = sam
  Config <- mcConfig
  Calls <- mcAllCalls
  Payouts <- mcAllPayouts
  SqrtPrices = {1, 3, 4}
  SwapOuts = {0, 1, 2, 4}
  SwapRests <- mcSwapRests
  Permissions <- mcNoPermissions
  Q64 = 4
  DUST_FLOOR = 1
  U64_MAX = 25000
  I128_MAX = 2
  TRADE_FEE_RATE = 2500
  TRANSFER_FEE <- mcNoTransferFee
  Rent = 5
  OwnToken = 2
  OwnSol = 1
  Natives = {0, 1, 2}
  MaxCalls = 1
CHECK_DEADLOCK FALSE
INVARIANT FeeOwnerIsListed

SPECIFICATION Spec
CONSTANTS
  k1 = k1
  k2 = k2
  Keys <- mcKeys
  Disc = Disc
  NoAdmin = NoAdmin
  MAX_ALLOWED_POOLS = 3
  MAX_FEE_OWNERS = 2
  RentMin = 1
  MaxLamports = 2
INVARIANTS TypeOK LiveConfigParses
PROPERTIES RefinesRegistry WritesAreExact

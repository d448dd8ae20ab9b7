SPECIFICATION Spec
CONSTANTS
  Q64 = 8
  DUST_FLOOR = 0
  U64_MAX = 100
  TradeFees = {0, 100000}
  MaxAmount = 24
  MaxSqrtPrice = 24
  Slippages = {0, 100, 4999, 10000}
INVARIANTS TypeOK NeverOverasksToken0 OveraskBounded LossBounded
PROPERTIES ThresholdMonotone

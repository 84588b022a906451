SPECIFICATION Spec
CONSTANTS
  Mss = 4
  InitialSsthresh = 13
  MaxWindow = 47
  BetaPercent = 70
  CubicIncreases <- MCCubicIncreases
  Bytes <- MCBytes
INVARIANTS TypeOK WindowFloor RecoveryWindow RecoveryRemembered
PROPERTIES OpensBySegment RecoveryThresholdKept

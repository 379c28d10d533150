CONSTANTS
  TICKS_PERIOD = 32
  period_ms = 3
SPECIFICATION Spec
INVARIANTS TypeOK ReadingIsExact NeverOverflows
PROPERTY ImplementsRateSpec

SPECIFICATION Spec
CONSTANTS
  Jobs = {j1}
  Second = 2
  Starts = {6, 7}
  Horizon = 31
  Delays = {0, 1, 2, 11, 17}
  HalfRange = 16
  Base = 1
  Factor = 2
  Cap = 3
  MaxAttempts = 4
  StuckTimeout = 5
  StuckPeriod = 6
  MaxSkew = 1
  Lag = 1
INVARIANTS
  TimingTypeOK
  NeverLate
  RecoveredInTime
PROPERTIES
  NeverEarly
  NeverRecoveredEarly
  EachLivesItsLife

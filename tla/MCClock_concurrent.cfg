SPECIFICATION ClockSpec
CONSTANTS
  Callers = {a, b}
  DriftRates <- ThreeRates
  TicksPerSecond = 3
  Uncertainty = 2
  SyncPeriod = 5
  MaxTime = 6
INVARIANTS
  SimWithinUncertainty

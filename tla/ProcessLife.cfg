\* A server or a worker with its two parts, every telemetry setting.
SPECIFICATION Spec
CONSTANTS
  Parts = {first, second}
INVARIANTS
  CleanExit
  CutsExplained
  LossExplained
PROPERTIES
  SignalEndsProcess
CHECK_DEADLOCK FALSE

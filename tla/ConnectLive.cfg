SPECIFICATION LiveSpec
CONSTANTS
  Settings <- MCSettings
CHECK_DEADLOCK FALSE
INVARIANTS
  NoSocketLeft
  HandedOverUnbounded
PROPERTIES
  ConnectReturns
  HealthyConnects

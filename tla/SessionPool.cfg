SPECIFICATION SessionSpec
CONSTANTS
  dsnKey = dsnKey
  key = key
  MaxUsers = 3
  Keys = {dsnKey, key}
  DsnKeys = {dsnKey}
  Levels = {1, 4}
  CfgLevel = 1
  TrueAutocommit = TRUE
INVARIANTS
  SessionAgrees
  AckedIsCommitted
PROPERTIES
  NeverCommittedByOthers
  ResetRestores

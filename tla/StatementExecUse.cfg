SPECIFICATION Spec
CONSTANTS
  Queries = {"select", "selectArgs", "insert", "insertArgs", "call", "callArgs"}
  PackageHolds = {"select", "selectArgs"}
  Settings <- MCSettings
  h1 = h1
  h2 = h2
  Handles = {h1, h2}
  MaxDescriptor = 2
  MaxCursor = 1
  MaxRows = 2
  MaxBatch = 2
  MaxOps = 3
  None = None
SYMMETRY HandleSymmetry
CHECK_DEADLOCK FALSE
INVARIANTS
  
  
  
  RunsOwnStatement
  BatchAccounting

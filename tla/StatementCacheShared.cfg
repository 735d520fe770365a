SPECIFICATION LiveSpec
CONSTANTS
  o1 = o1
  o2 = o2
  o3 = o3
  q1 = q1
  q2 = q2
  q3 = q3
  Ops = {o1, o2, o3}
  Queries = {q1, q2, q3}
  MaxHandle = 2
  CacheSizes = {0, 1, 2}
  NoStmt = NoStmt
INVARIANTS
  HandleOwnership
  UsesOwnStatement
  

  

SPECIFICATION Spec
CONSTANTS
  MaxRows = 4
  MaxSets = 2
  MaxBlock = 3
INVARIANTS
  CursorDiscipline
  NothingLeftOpen
  RowIsDelivered
PROPERTIES
  RowsInOrder

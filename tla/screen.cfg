SPECIFICATION Spec
CONSTANTS
  Limit = 2
  MaxRows = 3
  MaxWrites = 2
  MaxHistory = 3
INVARIANTS
  GridInv
  ScrollbackIsHistory
  PendingIsUnsent
  OnePlace
PROPERTIES
  OutsideStays
CHECK_DEADLOCK FALSE

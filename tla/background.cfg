SPECIFICATION FairSpec
CONSTANTS
  a = a
  b = b
  Id = {a, b}
  None = None
  First = a
  OpSlot = {1, 2}
  Slot = {1, 2}
  Left <- NothingLeft
  Budgets <- MCBudgets
CHECK_DEADLOCK FALSE
INVARIANTS
  GoneStaysGone
  ClosedIsForgotten
PROPERTIES
  StatusSettles
  MarksSettle

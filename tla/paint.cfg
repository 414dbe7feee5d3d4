SPECIFICATION Spec
CONSTANTS
  Programs <- SixPrograms
  Slots = 1
  Default = "default"
INVARIANTS
  HalvesTogether
  InkStays
CHECK_DEADLOCK FALSE

SPECIFICATION FairSpec
CONSTANTS
  Slot = {1, 2, 3}
  Session = {1, 2, 3, 4}
  MaxInputs = 2
  MaxFaults = 1
ACTION_CONSTRAINT OneTrouble
CHECK_DEADLOCK FALSE
INVARIANTS
  InputOnce
  ClosedIsStopped
PROPERTIES
  NoFalseAlarm
  CallsEnd

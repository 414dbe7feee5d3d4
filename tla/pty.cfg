SPECIFICATION FairPtySpec
CONSTANTS
  Clients = {c1, c2}
  NoOne = NoOne
  Reader = Reader
  MAX_DEFERRED = 1
  InRoom = 2
  OutRoom = 2
  MaxAsked = 3
  MaxTyped = 2
CHECK_DEADLOCK FALSE
INVARIANTS
  AnswersKept
PROPERTIES
  InputSpec
  InputArrives

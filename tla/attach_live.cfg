SPECIFICATION FairSpec
CONSTANTS
  c1 = c1
  c2 = c2
  NoClient = NoClient
  Clients <- TwoClients
  Kinds = {"paint"}
  Endings = {"kill", "sweep"}
  Refreshers <- OneClient
  MaxChunks = 2
  MaxNotes = 1
CHECK_DEADLOCK FALSE
ACTION_CONSTRAINT LiveBound
PROPERTIES
  LeavesAtLast
  ScreenCatchesUp

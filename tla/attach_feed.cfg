SPECIFICATION Spec
CONSTANTS
  c1 = c1
  c2 = c2
  NoClient = NoClient
  Clients <- TwoClients
  Kinds = {"scroll", "note"}
  Endings = {"kill"}
  Refreshers <- Nobody
  MaxChunks = 1
  MaxNotes = 1
CHECK_DEADLOCK FALSE
SYMMETRY SymmetricTwoClients
ACTION_CONSTRAINT FeedBound
INVARIANTS
  NoRepeatedLine
  NoteOnce
  HasClientAlone
  NoOrphan
PROPERTIES
  FeedSpec

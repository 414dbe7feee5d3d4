SPECIFICATION Spec
CONSTANTS
  Programs <- TwoColoursWatched
  Slots = 2
  Default = "default"
INVARIANT
  SkippedIsShown
CHECK_DEADLOCK FALSE

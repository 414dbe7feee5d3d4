SPECIFICATION Spec
CONSTANTS
  w1 = w1
  w2 = w2
  w3 = w3
  p1 = p1
  p2 = p2
  t1 = t1
  t2 = t2
  Workspace = {w1, w2}
  Pane = {p1, p2}
  None = None
  Default = w2
  Existing = {w1, w2}
  Stored = {p1}
  Terminal = {p2}
  Slot = {t1, t2}
  MaxPending = 2
  MaxReloads = 1
  MaxFaults = 1
CHECK_DEADLOCK FALSE
CONSTRAINT MCBound
SYMMETRY MCSymmetry
INVARIANTS
  ShownIsActive
  LayoutSound
  NeverBlank
  SettledAgrees
  ClosedStaysClosed
  OneTerminal
PROPERTIES
  LiveKeepsPane
  StoredPanesStay

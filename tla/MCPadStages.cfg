CONSTANTS
  p1 = p1
  p2 = p2
  Pads = {p1, p2}
  FirstPad = p1
  Routed = {p1}
  Isolated = {"head-soft"}
  StageTarget = 2
  Capacity = 1
  Verbs = {"start", "select", "stop", "new-session", "discard", "archive-seal"}
  Faults = {"save"}
  MaxSessions = 2
  MaxStages = 2
  MaxWindows = 3
SPECIFICATION Spec
INVARIANT StageAccounting
PROPERTY SealedFrozen

CONSTANTS
  p1 = p1
  p2 = p2
  Pads = {p1}
  FirstPad = p1
  Routed = {p1}
  Isolated = {}
  StageTarget = 1
  Capacity = 2
  Verbs = {"wizard", "archive-seal"}
  Faults = {}
  MaxSessions = 2
  MaxStages = 0
  MaxWindows = 4
SPECIFICATION Spec
PROPERTY SealedFrozen

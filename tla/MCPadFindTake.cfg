CONSTANTS
  p1 = p1
  p2 = p2
  Pads = {p1}
  FirstPad = p1
  Routed = {p1}
  Isolated = {"head-soft"}
  StageTarget = 1
  Capacity = 2
  Verbs = {"start", "stop"}
  Faults = {"space"}
  MaxSessions = 2
  MaxStages = 4
  MaxWindows = 5
SPECIFICATION Spec
INVARIANT TakeBegun

CONSTANTS
  p1 = p1
  p2 = p2
  Pads = {p1, p2}
  FirstPad = p1
  Routed = {p1, p2}
  Isolated = {"head-soft"}
  StageTarget = 2
  Capacity = 2
  Verbs = {"wizard", "settings", "stop", "archive-ack", "zones", "restart"}
  Faults = {"space", "save", "config", "seal", "release"}
  MaxSessions = 3
  MaxStages = 0
  MaxWindows = 8
SPECIFICATION FairSpec
INVARIANTS OneTakePerStep LastOnDisk TakeBegun
PROPERTIES SealedFrozen ReviewBacked WritingEnds CalibrationEnds

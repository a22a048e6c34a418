CONSTANTS
  TrigWarm = 2
  TrigQuiet = 2
  TrigUnsettled = 2
  TrigWindow = 2
  TrigMasks = {1, 7}
  TrigClipMask = 2
  TrigFollow = 1
  TrigLevels = 3
  TrigEvents = 1
  TrigBatch = 4
  TrigFar = 7
SPECIFICATION TrigSpec
PROPERTY TrigMaskKept
CHECK_DEADLOCK FALSE

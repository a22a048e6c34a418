CONSTANTS
  shell = shell
  panel = panel
  RingFrames = 4
  RingGap = 2
  RingMaxFrames = 9
  TrigWarm = 2
  TrigQuiet = 2
  TrigUnsettled = 2
  TrigWindow = 2
  TrigMasks = {1, 7}
  TrigClipMask = 2
  TrigFollow = 1
  TrigLevels = 3
  TrigEvents = 1
  TrigBatch = 4
  TrigFar = 7
  StreamMax = 3
  StreamInput = 5
  AudioProcs = {shell, panel}
  AudioPanelProc = panel
  AudioBlocks = 1
  AuxFull = 1
  PadVersions = {1}
  PadTokens = 2
  MpPorts <- Ports
  MpFifo = 1
  MpPlugs = 2
  TpValues = {"low", "high"}
  TpDefault = "low"
  TpFifo = 2
  PcPads = 2
  PcRouted = {1}
  PcFifo = 1
  FifoWriters = {"hits", "command"}
  FifoKeepers = {"hits"}
  FifoLine = 2
  FifoChunk = 3
  FifoRoom = 8
  FifoLines = 3
  FifoLongest = 4
  Picked = {"ring", "fifo", "models", "midi page"}
SPECIFICATION PageSpec
INVARIANTS FifoExact RingExact PmConsistent PmVerdicts
PROPERTIES MpFaithful
CHECK_DEADLOCK FALSE

SPECIFICATION Spec
CONSTANTS
    Ports = {din, usb}
    Din = din
    None = none
    Keys = {36}
    Channels = 1
    MaxBytes = 12
    MaxNotes = 3
    Chunk = 3
    DrainPasses = 2
    MaxStrikes = 3
    MaxUnplugs = 1
    Faults <- PullsAndStatus
INVARIANTS NoteOffsFit OneTimer NoStuckNote StoppedSilent

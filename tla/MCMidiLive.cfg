SPECIFICATION FairSpec
CONSTANTS
    Ports = {din, usb}
    Din = din
    None = none
    Keys = {36}
    Channels = 1
    MaxBytes = 9
    MaxNotes = 2
    Chunk = 2
    DrainPasses = 1
    MaxStrikes = 1
    MaxUnplugs = 1
    Faults <- PullsAndErrors
PROPERTIES PanicSilences StrikesEnd ServiceStops

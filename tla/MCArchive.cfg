SPECIFICATION FairSpec
CONSTANTS
    Sessions = {s1, s2}
    None = none
    Recordings = {r1, r2}
    ImportExisting = TRUE
    Faults <- EitherEndFails
    MaxFaults = 2
    MaxCommands = 2
INVARIANTS NothingLost ReceiptTruthful ArchiveComplete
PROPERTIES AcknowledgmentRetried SealedArchived

SPECIFICATION FairSpec
CONSTANTS
    Sessions = {s1}
    None = none
    Recordings = {r1}
    ImportExisting = FALSE
    Faults <- DeathInTheGap
    MaxFaults = 1
    MaxCommands = 2
PROPERTIES AcknowledgmentRetried

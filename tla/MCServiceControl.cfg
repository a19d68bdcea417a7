SPECIFICATION LiveSpec
CONSTANTS
    MaxQueue = 2
INVARIANTS
    OnlyStopAccepted
    StoringComesLast
PROPERTIES
    StopEnds

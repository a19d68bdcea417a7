SPECIFICATION LiveSpec
CONSTANTS
    Bodies = {b1}
    NoBody = none
    Hash <- HashMC
    NoMessage = nothing
    Leaving = leaving
    MaxSends <- TwoAndOne
INVARIANTS
    OneWriteAtATime
    FramesMatch
    AcceptedIsSent
    NeverGreeted
PROPERTIES
    ClosedAtLast
    IsChannel
CHECK_DEADLOCK FALSE

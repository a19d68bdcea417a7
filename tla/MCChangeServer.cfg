SPECIFICATION LiveSpec
CONSTANTS
    c1 = c1
    c2 = c2
    Names <- MCNames
    Walls <- MCWalls
    Locs <- MCLocs
    Clients <- MCClients
    Start <- MCStart
    NotUtf8 <- MCNotUtf8
    MaxListing = 1
    MaxRequests = 2
    MaxBacklog = 0
INVARIANTS
    AnswerFits
    StoppedIsStored
PROPERTIES
    AnsweredUnlessRefused
    StopEnds
    SuccessMeansDone

SPECIFICATION Spec
CONSTANTS
    d1 = d1
    d2 = d2
    one = one
    two = two
    NoDir = NoDir
    NoFile = NoFile
    Emptied = Emptied
    Garbled = Garbled
    Names <- OneName
    Walls <- MCWalls
    Locs  <- MCLocs
    Dirs  <- MCDirs
    Crc   <- MCCrc
    Procs <- TwoProcs
    NotUtf8 <- Nothing
    Failing <- Nothing
    MaxItems = 1
    MaxListing = 1
    MaxCrashes = 0
INVARIANT ValidateAnswers

SPECIFICATION Spec
CONSTANTS
    d1 = d1
    d2 = d2
    one = one
    two = two
    NoDir = NoDir
    NoFile = NoFile
    Emptied = Emptied
    Garbled = Garbled
    Names <- OneName
    Walls <- MoreWalls
    Locs  <- MCLocs
    Dirs  <- MCDirs
    Crc   <- MCCrc
    Procs <- TwoProcs
    NotUtf8 <- OddOnes
    Failing <- BothFiles
    MaxItems = 1
    MaxListing = 1
    MaxCrashes = 0
INVARIANT WellFormed

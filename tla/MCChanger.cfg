SPECIFICATION Spec
CONSTANTS
    d1 = d1
    d2 = d2
    one = one
    two = two
    NoDir = NoDir
    NoFile = NoFile
    Emptied = Emptied
    Garbled = Garbled
    Names <- MCNames
    Walls <- MCWalls
    Locs  <- MCLocs
    Dirs  <- MCDirs
    Crc   <- MCCrc
    Procs <- OneProc
    NotUtf8 <- Nothing
    Failing <- BothFiles
    MaxItems = 2
    MaxListing = 1
    MaxCrashes = 1
INVARIANTS TypeOK PathsKnownOnDisk ValidateAnswers OneFileSurvives
PROPERTIES LostForever SavedUnlessEmpty

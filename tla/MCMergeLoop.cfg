SPECIFICATION MergeSpec
CONSTANTS
    Walls <- MCWalls
    Locs  <- MCLocs
    MaxLength = 3
INVARIANTS MergeTypeOK MergedIsTheLoop MergeKeepsOrder LoadedIsTheLoop
CHECK_DEADLOCK FALSE

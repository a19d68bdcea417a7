SPECIFICATION LiveSpec
CONSTANTS
    d1 = d1
    d2 = d2
    Names <- MCNames
    Walls <- MCWalls
    Locs <- MCLocs
    Dirs <- MCDirs
    Crc <- MCCrc
    MaxListing = 1
    MaxAdds = 2
    MaxHistory = 2
INVARIANTS
    ShownOncePerEntry
    UsedWereShown
    ShownIsThere
    DrawNeverThrows
PROPERTIES
    FoundAtLast
CHECK_DEADLOCK FALSE

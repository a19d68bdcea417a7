SPECIFICATION Spec
CONSTANTS
    Names <- MCNames
    Walls <- MCWalls
    Locs  <- MCLocs
    MaxItems = 2
    MaxListing = 2
INVARIANT CurrentIsActive

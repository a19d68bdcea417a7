SPECIFICATION Spec
CONSTANTS
    Names <- MCNames
    Walls <- MCWalls
    Locs  <- MCLocs
    MaxItems = 2
    MaxListing = 2
INVARIANTS TypeOK NamesUnique NonEmptyIsMarked
PROPERTIES AgreementKept ImplementsShelf
VIEW LibOnly

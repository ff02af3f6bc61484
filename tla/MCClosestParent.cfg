SPECIFICATION Spec
CONSTANTS
    Segments <- MCSegments
    Dirs <- MCDirs
    Leaves <- MCLeaves
    StrLen <- MCStrLen
    Malformed = Malformed
    Targets <- MCTargets
    Listings <- MCListings
    NoBest = NoBest
INVARIANT BestIsClosestSoFar
INVARIANT ResultIsClosestParent
CHECK_DEADLOCK FALSE

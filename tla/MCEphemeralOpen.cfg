SPECIFICATION Spec
CONSTANTS
    Segments <- MCSegments
    Dirs <- MCDirs
    Leaves <- MCLeaves
    StrLen <- MCStrLen
    LongHop <- MCLongHop
    Malformed = Malformed
    NoKey = NoKey
    Root = Root
    RootSecret = RootSecret
    Odd = Odd
    E1 = E1
    E2 = E2
    E3 = E3
    E4 = E4
    P1 = P1
    P2 = P2
    P3 = P3
    P4 = P4
    Multikeys <- MCMultikeys
    PublicOf <- MCPublicOf
    Unreadable = {Odd}
    Ephemerals <- MCEphemerals
    Roots <- MCRoots
    Codecs <- MCCodecs
    Configs <- MCConfigs
    Openings = {o1, o2}
SYMMETRY OpeningSymmetry
INVARIANT TypeOK
INVARIANT OwnerAloneExtends
INVARIANT EphemeralSignsOnce
CHECK_DEADLOCK FALSE

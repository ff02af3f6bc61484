SPECIFICATION Spec
CONSTANTS
    Segments <- MCSegments
    Dirs <- MCDirs
    Leaves <- MCLeaves
    StrLen <- MCStrLen
    LongHop <- MCLongHop
    Malformed = Malformed
    NoKey = NoKey
    NoId = NoId
    NoPath = NoPath
    NotJson = NotJson
    Blob = Blob
    NotMultibase = NotMultibase
    Root = Root
    EK = EK
    K1 = K1
    K2 = K2
    Multikeys <- MCKeys
    RootKey = Root
    EntryKey = EK
    Importable <- MCImportable
    ChallengeIds = {c1, c2}
    CHALLENGE_TTL = 1
    Requests <- BroadRequests
    PathInputs <- BroadPaths
    KeyInputs <- BroadKeys
INVARIANT TypeOK
PROPERTY SugarTakesEffect
PROPERTY SugarLeavesRestAlone
SYMMETRY IdSymmetry

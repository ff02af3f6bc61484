SPECIFICATION FairSpec
CONSTANTS
    Segments <- MCSegments
    Dirs <- MCDirs
    Leaves <- MCLeaves
    StrLen <- MCStrLen
    LongHop <- MCLongHop
    Malformed = Malformed
    NoKey = NoKey
    NoId = NoId
    NoPath = NoPath
    NotJson = NotJson
    Blob = Blob
    NotMultibase = NotMultibase
    Root = Root
    EK = EK
    K1 = K1
    K2 = K2
    Multikeys <- RaceSigners
    RootKey = Root
    EntryKey = EK
    Importable = {}
    ChallengeIds = {c1, c2}
    CHALLENGE_TTL = 3
    Requests <- RaceRequests
    PathInputs <- ExpiryPaths
    KeyInputs <- RaceKeys
PROPERTY ChallengesExpire

SPECIFICATION Spec
CONSTANTS
    Segments <- MCSegments
    Dirs <- MCDirs
    Leaves <- MCLeaves
    StrLen <- MCStrLen
    LongHop <- MCLongHop
    Malformed = Malformed
    NoKey = NoKey
    NoId = NoId
    NoPath = NoPath
    NotJson = NotJson
    Blob = Blob
    NotMultibase = NotMultibase
    Root = Root
    EK = EK
    K1 = K1
    K2 = K2
    Multikeys <- RaceSigners
    RootKey = Root
    EntryKey = EK
    Importable = {}
    ChallengeIds = {c1, c2, c3}
    CHALLENGE_TTL = 2
    Requests <- RaceRequests
    PathInputs <- RacePaths
    KeyInputs <- RaceKeys
INVARIANT LogVerified
INVARIANT PendingOnHead
INVARIANT LoserSeesNotFound
INVARIANT SigningKeyAccepted
PROPERTY CommitAppendsPrepared
PROPERTY ChallengeSpentOnce
PROPERTY GrowsOnlyWithLive
PROPERTY KeepsContract
PROPERTY DelegateStaysInBranch
PROPERTY ImplementsOptimisticLog
SYMMETRY IdSymmetry

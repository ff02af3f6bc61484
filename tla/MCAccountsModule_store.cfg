CONSTANTS
    Threads = {t1, t2}
    Vlads = {own, foreign}
    ForeignVlads = {foreign}
    NoVlad = NoVlad
    Bases = {b58, b64}
    Canonical = b58
    ChallengeIds = {c1}
    NoId = NoId
    MaxAccounts = 3
    Nobody = Nobody
SPECIFICATION Spec
SYMMETRY ModuleSymmetry
PROPERTY ImplementsAccountsStore

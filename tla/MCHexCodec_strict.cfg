CONSTANTS
    Texts <- MCTexts
SPECIFICATION Spec
INVARIANTS
    OthersRefused
CHECK_DEADLOCK FALSE

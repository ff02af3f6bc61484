CONSTANTS
    Texts <- MCTexts
SPECIFICATION Spec
INVARIANTS
    DecodesHex
CHECK_DEADLOCK FALSE

\* Zero with an exponent.
SPECIFICATION Spec
CONSTANTS
    Characters <- MCCharacters
    Texts <- MCTexts
    MaxPoint = 25
    LowPoint = 9
INVARIANT
    ZeroIsAccepted
CHECK_DEADLOCK FALSE

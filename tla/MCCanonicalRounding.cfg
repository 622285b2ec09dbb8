\* Decimals that the two parsers round to different doubles.
SPECIFICATION CanonicalSpec
CONSTANTS
    Texts <- NumberTexts
    Paths <- MCPaths
    Limit <- MCLimit
    Read <- MCRead
    MaxDepth = 4
    Height = 5
    HandBuilt <- MCHandBuilt
    NonFinite <- MCNonFinite
    Spelled <- MCSpelled
INVARIANTS
    SameBytes
CHECK_DEADLOCK FALSE

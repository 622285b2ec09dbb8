\* Both entries, the canonical form again, and what is read off a result.
SPECIFICATION CanonicalSpec
CONSTANTS
    Texts <- MCTexts
    Paths <- MCPaths
    Limit <- MCLimit
    Read <- MCRead
    MaxDepth = 4
    Height = 5
    HandBuilt <- MCHandBuilt
    NonFinite <- MCNonFinite
    Spelled <- MCSpelled
INVARIANTS
    TypeOK
    DepthIsBounded
    NamesAreDistinct
    ReadsTheGrammar
    ReadsTheText
    EntriesAgree
    CanonicalIsStable
    MembersAreUnordered
    PagesReadAsResults
    HashesAreOfTheBytes
    HashMeansDescriptor
PROPERTIES
    InputIsConsumed
    Returns
CHECK_DEADLOCK FALSE

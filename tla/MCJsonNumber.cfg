\* The grammar, the domain and the layout of numbers.
SPECIFICATION Spec
CONSTANTS
    Characters <- MCCharacters
    Texts <- MCTexts
    MaxPoint = 25
    LowPoint = 9
INVARIANTS
    TypeOK
    NumbersAreExact
    CanonicalIsStable
    EcmaScriptForm
CHECK_DEADLOCK FALSE

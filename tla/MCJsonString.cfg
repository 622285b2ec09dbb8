\* Spellings of strings and their canonical form.
SPECIFICATION Spec
CONSTANTS
    Pieces <- MCPieces
    Endings <- MCEndings
    MaxPieces = 3
INVARIANTS
    TypeOK
    ReadsTheMeaning
    CanonicalIsStable
CHECK_DEADLOCK FALSE

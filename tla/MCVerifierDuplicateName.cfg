\* An accepted catalog that lists two tools under one name.
SPECIFICATION Spec
CONSTANTS
    readV1 = readV1
    readV1Spelled = readV1Spelled
    readV2 = readV2
    write = write
    unnamed = unnamed
    tooDeep = tooDeep
    Read = Read
    Write = Write
    h1 = h1
    h2 = h2
    h3 = h3
    h4 = h4
    NoName = NoName
    NoHash = NoHash
    NoPin = NoPin
    NoCatalogHash = NoCatalogHash
    MaxTools = 2
    Descriptor = {readV1, readV1Spelled, readV2, write, unnamed, tooDeep}
    Name <- MCName
    Hash <- MCHash
    NameOf <- MCNameOf
    HashOf <- MCHashOf
    Catalog <- MCCatalog
INVARIANT
    AcceptedCatalogHasNoDrift

\* One approval, and pages that fail, arrive twice or change under the fetch.
SPECIFICATION Spec
CONSTANTS
    readV1 = readV1
    readV2 = readV2
    write = write
    unnamed = unnamed
    Read = Read
    Write = Write
    h1 = h1
    h2 = h2
    h3 = h3
    h4 = h4
    NoName = NoName
    NoHash = NoHash
    NoPin = NoPin
    NoCatalogHash = NoCatalogHash
    Host = host
    Absent = Absent
    Damaged = Damaged
    Descriptor = {readV1, readV2, write, unnamed}
    Name <- MCName
    Hash <- MCHash
    NameOf <- MCNameOf
    HashOf <- MCHashOf
    Catalog <- MCCatalog
    Policies = {"Report", "FailClosed"}
    Wires = {"sound", "duplicateMember", "tooDeep", "noTools"}
    CursorTypes = {"string"}
    PageSize = 1
    OnePageOnly = TRUE
    MaxApprovals = 1
    MaxFetched = 3
INVARIANTS
    TypeOK
    JudgedWhole

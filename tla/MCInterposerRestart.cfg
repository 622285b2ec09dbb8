\* Two approvals, restarts and power losses at any moment, and a host that goes on.
SPECIFICATION FairSpec
CONSTANTS
    readV1 = readV1
    readV2 = readV2
    write = write
    unnamed = unnamed
    Read = Read
    Write = Write
    h1 = h1
    h2 = h2
    h3 = h3
    h4 = h4
    NoName = NoName
    NoHash = NoHash
    NoPin = NoPin
    NoCatalogHash = NoCatalogHash
    Host = host
    Absent = Absent
    Damaged = Damaged
    Descriptor = {readV1, readV2, write, unnamed}
    Name <- MCName
    Hash <- MCHash
    NameOf <- MCNameOf
    HashOf <- MCHashOf
    Catalog <- RestartCatalog
    Policies = {"FailClosed"}
    Wires = {"sound", "noTools"}
    CursorTypes = {"string"}
    PageSize = 1
    OnePageOnly = TRUE
    MaxApprovals = 2
    MaxFetched = 2
INVARIANTS
    BaselinesAreApproved
    CleanIsApproved
PROPERTIES
    ChangeIsJudged

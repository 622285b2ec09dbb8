\* Two hosts that flush in turn, faults at every step.
SPECIFICATION SharedSpec
CONSTANTS
    hostA = hostA
    hostB = hostB
    Handle <- MCHandle
    Writers <- MCHandle
    Doc = {empty, docA}
    EmptyDoc = empty
    NoInode = NoInode
    Absent = Absent
    Damaged = Damaged
    docA = docA
    Parts = 2
    n1 = n1
    n2 = n2
    n3 = n3
    Inode <- MCInode
    External <- SomeExternal
    MaxFlushes = 2
SYMMETRY Symmetric
INVARIANTS
    TypeOK
    NeverTorn
    CorruptFailsClosed
    FlushInv
    OpensNoOlder
    LastFlushCounts
PROPERTIES
    ImplementsRegister

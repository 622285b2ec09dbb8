\* A flush that returned Ok, and the directory entry not on disk yet.
SPECIFICATION Spec
CONSTANTS
    Handle = {host}
    Writers = {host}
    Doc = {empty, docA, docB}
    EmptyDoc = empty
    NoInode = NoInode
    Absent = Absent
    Damaged = Damaged
    docA = docA
    docB = docB
    Parts = 2
    n1 = n1
    n2 = n2
    n3 = n3
    n4 = n4
    Inode <- MCInode
    External = {}
SYMMETRY Symmetric
INVARIANT
    FlushIsDurable

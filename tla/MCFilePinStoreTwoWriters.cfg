\* Two handles flush at once: they share one temporary file.
SPECIFICATION Spec
CONSTANTS
    Handle = {host, other}
    Writers = {host, other}
    Doc = {empty, docA, docB}
    EmptyDoc = empty
    NoInode = NoInode
    Absent = Absent
    Damaged = Damaged
    docA = docA
    docB = docB
    Parts = 2
    n1 = n1
    n2 = n2
    n3 = n3
    n4 = n4
    Inode <- MCInode
    External = {}
SYMMETRY Symmetric
INVARIANT
    NeverTorn

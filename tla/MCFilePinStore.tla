--------------------------- MODULE MCFilePinStore ---------------------------
(***************************************************************************)
(* FilePinStore with a few handles on one path.                              *)
(***************************************************************************)
EXTENDS FilePinStore, TLC

CONSTANTS n1, n2, n3, n4, docA, docB

MCInode == {n1, n2, n3, n4}

\* Inodes are interchangeable, and so are the two documents.
Symmetric == Permutations(MCInode) \cup Permutations({docA, docB})

=============================================================================

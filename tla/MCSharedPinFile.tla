-------------------------- MODULE MCSharedPinFile --------------------------
(***************************************************************************)
(* SharedPinFile with two hosts, two flushes and three inodes; the file may be   *)
(* someone else's.                                                         *)
(***************************************************************************)
EXTENDS SharedPinFile, TLC

CONSTANTS n1, n2, n3, docA, hostA, hostB

MCInode == {n1, n2, n3}
\* A file made by someone else, with members of the wrong types.
SomeExternal == {<<BadMembers>>}
MCHandle == {hostA, hostB}
Symmetric == Permutations(MCInode) \cup Permutations(MCHandle)
=============================================================================

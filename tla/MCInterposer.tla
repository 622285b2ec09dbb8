---------------------------- MODULE MCInterposer ----------------------------
(***************************************************************************)
(* Interposer with two versions of one tool, another tool and a descriptor    *)
(* without a name, in catalogs of one or two pages of one tool each.         *)
(***************************************************************************)
EXTENDS Interposer

CONSTANTS
    readV1, readV2, write, unnamed, \* descriptors
    Read, Write,                    \* names
    h1, h2, h3, h4                  \* hashes

MCName == {Read, Write}
MCHash == {h1, h2, h3, h4}

MCNameOf ==
    [d \in Descriptor |->
        IF d = unnamed THEN NoName ELSE IF d = write THEN Write ELSE Read]

MCHashOf ==
    [d \in Descriptor |->
        CASE d = readV1 -> h1 [] d = readV2 -> h2 [] d = write -> h3 [] d = unnamed -> h4]

\* Two tools; one of them mutated; one of them removed; two tools under one
\* name; a descriptor that cannot be identified after one that can.
MCCatalog == {<<readV1, write>>, <<readV2, write>>, <<write>>,
              <<readV1, readV2>>, <<readV1, unnamed>>}

\* Those that tell baselines apart, and one that cannot be judged.
RestartCatalog == {<<readV1, write>>, <<readV2, write>>, <<write>>, <<readV1, unnamed>>}
=============================================================================

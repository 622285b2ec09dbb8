----------------------------- MODULE MCVerifier -----------------------------
(***************************************************************************)
(* Verifier on a small set of descriptors: two names; two versions of the    *)
(* first tool, one of them in two spellings with one canonical form; one     *)
(* descriptor without a name and one without a canonical form.               *)
(***************************************************************************)
EXTENDS Verifier

CONSTANTS
    readV1, readV1Spelled, readV2, write, unnamed, tooDeep, \* descriptors
    Read, Write,                                            \* names
    h1, h2, h3, h4,                                         \* hashes
    MaxTools                                                \* bound on a catalog

MCName == {Read, Write}
MCHash == {h1, h2, h3, h4}

MCNameOf ==
    [d \in Descriptor |->
        IF d = unnamed THEN NoName
        ELSE IF d \in {write, tooDeep} THEN Write ELSE Read]

\* h4 is the hash of the descriptor without a name: it has a canonical form.
MCHashOf ==
    [d \in Descriptor |->
        CASE d \in {readV1, readV1Spelled} -> h1
          [] d = readV2 -> h2
          [] d = write -> h3
          [] d = unnamed -> h4
          [] d = tooDeep -> NoHash]

MCCatalog == UNION {[1..n -> Descriptor] : n \in 0..MaxTools}

=============================================================================

----------------------------- MODULE ToolCatalog -----------------------------
(***************************************************************************)
(* The data model of the core crate: tool descriptors, catalogs, descriptor *)
(* and catalog hashes, the pins of a pin store, and the drift report, with   *)
(* a declarative definition of what `verify` and `repin` compute.           *)
(*                                                                         *)
(* A descriptor is an opaque value.  All the code reads of it is its name   *)
(* and its hash.  A hash stands for the canonical form it is a SHA-256 of:   *)
(* equal hashes are equal canonical forms.                                  *)
(***************************************************************************)
EXTENDS Integers, Sequences, FiniteSets

CONSTANTS
    Descriptor,   \* the JSON values a server may advertise as a tool
    Name,         \* tool names
    Hash,         \* descriptor hashes
    NameOf,       \* the string `name` member of each descriptor, or NoName
    HashOf,       \* the hash of each descriptor, or NoHash
    Catalog,      \* the catalogs a host may hand to the crate
    NoName,       \* the descriptor has no string `name`
    NoHash,       \* the descriptor has no canonical form
    NoPin,        \* the name is not pinned
    NoCatalogHash \* no catalog hash was recorded yet

ASSUME DescriptorAssumption ==
    /\ NoName \notin Name
    /\ NoHash \notin Hash
    /\ NoPin \notin Hash
    /\ NameOf \in [Descriptor -> Name \cup {NoName}]
    /\ HashOf \in [Descriptor -> Hash \cup {NoHash}]

\* The name is a member of the object that is hashed, so equal canonical
\* forms have equal names.
ASSUME HashCoversName ==
    \A d, e \in Descriptor :
        (HashOf[d] \in Hash /\ HashOf[d] = HashOf[e]) => NameOf[d] = NameOf[e]

ASSUME CatalogAssumption == \A c \in Catalog : c \in Seq(Descriptor)

\* A recorded catalog hash is a function on Hash.
ASSUME NoCatalogHashAssumption == NoCatalogHash \notin [Hash -> Nat]

-----------------------------------------------------------------------------
\* The error `verify` and `repin` return at a descriptor, the name first.
ErrorOf(d) == IF NameOf[d] = NoName THEN "MissingName"
              ELSE IF HashOf[d] = NoHash THEN "Canonicalization"
              ELSE "Ok"

\* SHA-256 of the sorted, NUL-terminated hashes: it tells two lists of
\* hashes apart exactly when one is not a permutation of the other.
CatalogHash(hs) ==
    [h \in Hash |-> Cardinality({j \in DOMAIN hs : hs[j] = h})]

CatalogHashes == [Hash -> Nat] \cup {NoCatalogHash}

\* The contents of a pin store, as a total function.
Pins == [Name -> Hash \cup {NoPin}]
PinnedNames(p) == {n \in Name : p[n] # NoPin}

\* A sorted list of names is determined by how often each name occurs.
NameList == [Name -> Nat]
EmptyList == [n \in Name |-> 0]

Reports == [added : NameList, removed : NameList,
            mutated : NameList, unchanged : NameList]
EmptyReport == [added |-> EmptyList, removed |-> EmptyList,
                mutated |-> EmptyList, unchanged |-> EmptyList]

\* Mutant of HasDrift: a removed tool is no drift.
HasDrift_IgnoresRemoved(r) == \E n \in Name : r.added[n] > 0 \/ r.mutated[n] > 0

HasDrift(r) == \E n \in Name : r.added[n] > 0 \/ r.removed[n] > 0 \/ r.mutated[n] > 0

-----------------------------------------------------------------------------
(* Declarative definitions of the two operations. *)

\* The number of leading descriptors of c that have a name and a hash.
Accepted(c) ==
    CHOOSE k \in 0..Len(c) :
        /\ \A j \in 1..k : ErrorOf(c[j]) = "Ok"
        /\ k < Len(c) => ErrorOf(c[k+1]) # "Ok"

ResultOf(c) == IF Accepted(c) = Len(c) THEN "Ok" ELSE ErrorOf(c[Accepted(c) + 1])

NamesIn(c, k) == {NameOf[c[j]] : j \in 1..k}
HashesIn(c) == [j \in 1..Len(c) |-> HashOf[c[j]]]

\* The tools of a catalog as (name, hash) pairs.
ToolsOf(c) == {<<NameOf[c[j]], HashOf[c[j]]>> : j \in DOMAIN c}

\* The positions among the first k whose tool has the name n.
At(c, k, n) == {j \in 1..k : NameOf[c[j]] = n}

\* The pins once the first k descriptors have been pinned over p: of several
\* descriptors with one name the last one counts.
PinnedOver(p, c, k) ==
    [n \in Name |->
        IF At(c, k, n) = {} THEN p[n]
        ELSE HashOf[c[CHOOSE j \in At(c, k, n) : \A l \in At(c, k, n) : l <= j]]]

\* The pins a successful re-pin of c leaves: those of c and no others.
BaselineOf(c) == PinnedOver([n \in Name |-> NoPin], c, Len(c))

\* How often `verify` lists each name among the first k descriptors of c
\* as added, mutated and unchanged, and the pinned names it did not see.
AddedIn(c, k, p)     == [n \in Name |-> Cardinality({j \in At(c, k, n) : p[n] = NoPin})]
MutatedIn(c, k, p)   == [n \in Name |-> Cardinality({j \in At(c, k, n) :
                                            p[n] # NoPin /\ p[n] # HashOf[c[j]]})]
UnchangedIn(c, k, p) == [n \in Name |-> Cardinality({j \in At(c, k, n) :
                                            p[n] # NoPin /\ p[n] = HashOf[c[j]]})]
RemovedFrom(c, k, p) == [n \in Name |-> IF p[n] # NoPin /\ At(c, k, n) = {} THEN 1 ELSE 0]

\* The report on the whole of c.
ReportOf(c, p) ==
    [added |-> AddedIn(c, Len(c), p), removed |-> RemovedFrom(c, Len(c), p),
     mutated |-> MutatedIn(c, Len(c), p), unchanged |-> UnchangedIn(c, Len(c), p)]
=============================================================================

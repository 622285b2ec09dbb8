-------------------------- MODULE ToolCatalogProofs --------------------------
(***************************************************************************)
(* Lemmas about the operators of ToolCatalog, for every set of descriptors, names, *)
(* hashes and catalogs that satisfies its assumptions.                          *)
(***************************************************************************)
EXTENDS ToolCatalog, TLAPS, FiniteSetTheorems, SequenceTheorems, WellFoundedInduction

USE DescriptorAssumption, CatalogAssumption

-----------------------------------------------------------------------------
\* A catalog hash is recorded as a count for each hash, whatever the list of
\* hashes (descriptor_hash.rs, catalog_hash).
LEMMA CatalogHashType ==
    ASSUME NEW n \in Nat, NEW hs, DOMAIN hs = 1..n
    PROVE  CatalogHash(hs) \in [Hash -> Nat]
<1> SUFFICES ASSUME NEW h \in Hash
             PROVE  Cardinality({j \in DOMAIN hs : hs[j] = h}) \in Nat
  BY DEF CatalogHash
<1> DEFINE S == {j \in DOMAIN hs : hs[j] = h}
<1>1. IsFiniteSet(1..n)
  BY FS_Interval
<1>2. IsFiniteSet(S)
  BY <1>1, FS_Subset
<1>3. Cardinality(S) \in Nat
  BY <1>2, FS_CardinalityType
<1> QED
  BY <1>3

\* A good descriptor has a name and a hash.
LEMMA GoodDescriptor ==
    ASSUME NEW d \in Descriptor, ErrorOf(d) = "Ok"
    PROVE  NameOf[d] \in Name /\ HashOf[d] \in Hash
BY DEF ErrorOf

\* The number of descriptors accepted is the one that fits the definition.
LEMMA AcceptedUnique ==
    ASSUME NEW c \in Seq(Descriptor), NEW k \in 0..Len(c),
           \A j \in 1..k : ErrorOf(c[j]) = "Ok",
           k < Len(c) => ErrorOf(c[k+1]) # "Ok"
    PROVE  Accepted(c) = k
<1> DEFINE Fits(m) == /\ \A j \in 1..m : ErrorOf(c[j]) = "Ok"
                      /\ m < Len(c) => ErrorOf(c[m+1]) # "Ok"
<1>1. Fits(k)
  OBVIOUS
<1>2. ASSUME NEW m \in 0..Len(c), Fits(m) PROVE m = k
  <2>1. CASE m < k
    <3>1. m + 1 \in 1..k /\ m < Len(c)
      BY <2>1
    <3> QED
      BY <1>2, <3>1
  <2>2. CASE k < m
    <3>1. k + 1 \in 1..m /\ k < Len(c)
      BY <2>2
    <3> QED
      BY <1>2, <3>1
  <2> QED
    BY <2>1, <2>2
<1>3. Accepted(c) = CHOOSE m \in 0..Len(c) : Fits(m)
  BY DEF Accepted
<1> HIDE DEF Fits
<1> QED
  BY <1>1, <1>2, <1>3

\* A function on names that differs from another at one name at most.
LEMMA UpdateOne ==
    ASSUME NEW f, f = [m \in Name |-> f[m]], NEW g, g = [m \in Name |-> g[m]],
           NEW n \in Name, NEW v,
           \A m \in Name : g[m] = IF m = n THEN v ELSE f[m]
    PROVE  g = [f EXCEPT ![n] = v]
<1>1. DOMAIN f = Name
  OBVIOUS
<1>2. [f EXCEPT ![n] = v] = [m \in Name |-> IF m = n THEN v ELSE f[m]]
  BY <1>1
<1>3. g = [m \in Name |-> IF m = n THEN v ELSE f[m]]
  OBVIOUS
<1> QED
  BY <1>2, <1>3

\* One more descriptor adds its own position to those of its name, only.
LEMMA AtStep ==
    ASSUME NEW c \in Seq(Descriptor), NEW k \in Nat, k < Len(c), NEW n \in Name
    PROVE  /\ At(c, k+1, n) = IF NameOf[c[k+1]] = n THEN At(c, k, n) \cup {k+1}
                              ELSE At(c, k, n)
           /\ k + 1 \notin At(c, k, n)
           /\ IsFiniteSet(At(c, k, n))
<1>1. 1..k+1 = 1..k \cup {k+1} /\ k + 1 \notin 1..k
  OBVIOUS
<1>2. IsFiniteSet(1..k)
  BY FS_Interval
<1>3. IsFiniteSet(At(c, k, n))
  BY <1>2, FS_Subset DEF At
<1> QED
  BY <1>1, <1>3 DEF At

\* The three lists after one more descriptor: its name is counted once more
\* in the list it belongs to (verifier.rs, the match in verify).
LEMMA CountStep ==
    ASSUME NEW c \in Seq(Descriptor), NEW k \in Nat, k < Len(c), NEW p \in Pins,
           NEW n \in Name, n = NameOf[c[k+1]], NEW h, h = HashOf[c[k+1]]
    PROVE  /\ AddedIn(c, k+1, p) =
                  IF p[n] = NoPin THEN [AddedIn(c, k, p) EXCEPT ![n] = @ + 1]
                  ELSE AddedIn(c, k, p)
           /\ MutatedIn(c, k+1, p) =
                  IF p[n] # NoPin /\ p[n] # h
                  THEN [MutatedIn(c, k, p) EXCEPT ![n] = @ + 1]
                  ELSE MutatedIn(c, k, p)
           /\ UnchangedIn(c, k+1, p) =
                  IF p[n] # NoPin /\ p[n] = h
                  THEN [UnchangedIn(c, k, p) EXCEPT ![n] = @ + 1]
                  ELSE UnchangedIn(c, k, p)
<1> DEFINE A(j, m) == p[m] = NoPin
           M(j, m) == p[m] # NoPin /\ p[m] # HashOf[c[j]]
           U(j, m) == p[m] # NoPin /\ p[m] = HashOf[c[j]]
<1>1. ASSUME NEW m \in Name
      PROVE  /\ At(c, k+1, m) = IF n = m THEN At(c, k, m) \cup {k+1} ELSE At(c, k, m)
             /\ k + 1 \notin At(c, k, m)
             /\ IsFiniteSet(At(c, k, m))
  BY AtStep
<1>2. ASSUME NEW S, IsFiniteSet(S), NEW x, x \notin S
      PROVE  Cardinality(S \cup {x}) = Cardinality(S) + 1
  BY <1>2, FS_AddElement
<1>3. ASSUME NEW m \in Name
      PROVE  /\ Cardinality({j \in At(c, k+1, m) : A(j, m)}) =
                   IF n = m /\ A(k+1, m)
                   THEN Cardinality({j \in At(c, k, m) : A(j, m)}) + 1
                   ELSE Cardinality({j \in At(c, k, m) : A(j, m)})
             /\ Cardinality({j \in At(c, k+1, m) : M(j, m)}) =
                   IF n = m /\ M(k+1, m)
                   THEN Cardinality({j \in At(c, k, m) : M(j, m)}) + 1
                   ELSE Cardinality({j \in At(c, k, m) : M(j, m)})
             /\ Cardinality({j \in At(c, k+1, m) : U(j, m)}) =
                   IF n = m /\ U(k+1, m)
                   THEN Cardinality({j \in At(c, k, m) : U(j, m)}) + 1
                   ELSE Cardinality({j \in At(c, k, m) : U(j, m)})
  <2> HIDE DEF A, M, U
  <2>1. {j \in At(c, k+1, m) : A(j, m)} =
          IF n = m /\ A(k+1, m) THEN {j \in At(c, k, m) : A(j, m)} \cup {k+1}
          ELSE {j \in At(c, k, m) : A(j, m)}
    BY <1>1
  <2>2. {j \in At(c, k+1, m) : M(j, m)} =
          IF n = m /\ M(k+1, m) THEN {j \in At(c, k, m) : M(j, m)} \cup {k+1}
          ELSE {j \in At(c, k, m) : M(j, m)}
    BY <1>1
  <2>3. {j \in At(c, k+1, m) : U(j, m)} =
          IF n = m /\ U(k+1, m) THEN {j \in At(c, k, m) : U(j, m)} \cup {k+1}
          ELSE {j \in At(c, k, m) : U(j, m)}
    BY <1>1
  <2>4. /\ IsFiniteSet({j \in At(c, k, m) : A(j, m)})
        /\ IsFiniteSet({j \in At(c, k, m) : M(j, m)})
        /\ IsFiniteSet({j \in At(c, k, m) : U(j, m)})
    BY <1>1, FS_Subset
  <2>5. /\ k + 1 \notin {j \in At(c, k, m) : A(j, m)}
        /\ k + 1 \notin {j \in At(c, k, m) : M(j, m)}
        /\ k + 1 \notin {j \in At(c, k, m) : U(j, m)}
    BY <1>1
  <2>6. /\ Cardinality({j \in At(c, k, m) : A(j, m)} \cup {k+1}) =
              Cardinality({j \in At(c, k, m) : A(j, m)}) + 1
        /\ Cardinality({j \in At(c, k, m) : M(j, m)} \cup {k+1}) =
              Cardinality({j \in At(c, k, m) : M(j, m)}) + 1
        /\ Cardinality({j \in At(c, k, m) : U(j, m)} \cup {k+1}) =
              Cardinality({j \in At(c, k, m) : U(j, m)}) + 1
    BY <1>2, <2>4, <2>5
  <2> QED
    BY <2>1, <2>2, <2>3, <2>6
<1>4. n \in Name
  OBVIOUS
<1>5. ASSUME NEW f, f = [m \in Name |-> f[m]], NEW g, g = [m \in Name |-> g[m]],
             NEW b \in BOOLEAN,
             \A m \in Name : g[m] = IF n = m /\ b THEN f[m] + 1 ELSE f[m]
      PROVE  g = IF b THEN [f EXCEPT ![n] = @ + 1] ELSE f
  <2>1. CASE b
    <3>1. \A m \in Name : g[m] = IF m = n THEN f[n] + 1 ELSE f[m]
      BY <1>5, <2>1
    <3>2. g = [f EXCEPT ![n] = f[n] + 1]
      BY <1>4, <1>5, <3>1, UpdateOne
    <3> QED
      BY <2>1, <3>2
  <2>2. CASE ~b
    <3>1. \A m \in Name : g[m] = f[m]
      BY <1>5, <2>2
    <3>2. [m \in Name |-> g[m]] = [m \in Name |-> f[m]]
      BY <3>1
    <3>3. g = f
      BY <1>5, <3>2
    <3> QED
      BY <2>2, <3>3
  <2> QED
    BY <2>1, <2>2
<1>6. AddedIn(c, k+1, p) = IF p[n] = NoPin THEN [AddedIn(c, k, p) EXCEPT ![n] = @ + 1]
                           ELSE AddedIn(c, k, p)
  <2>1. \A m \in Name : AddedIn(c, k+1, p)[m] =
           IF n = m /\ (p[n] = NoPin) THEN AddedIn(c, k, p)[m] + 1 ELSE AddedIn(c, k, p)[m]
    BY <1>3 DEF AddedIn
  <2> DEFINE f == AddedIn(c, k, p)
             g == AddedIn(c, k+1, p)
             b == p[n] = NoPin
  <2>2. f = [m \in Name |-> f[m]] /\ g = [m \in Name |-> g[m]]
    BY DEF AddedIn
  <2>b. b \in BOOLEAN
    OBVIOUS
  <2>3. \A m \in Name : g[m] = IF n = m /\ b THEN f[m] + 1 ELSE f[m]
    BY <2>1
  <2> HIDE DEF f, g, b
  <2>4. g = IF b THEN [f EXCEPT ![n] = @ + 1] ELSE f
    BY <1>5, <2>2, <2>b, <2>3
  <2> QED
    BY <2>4 DEF f, g, b
<1>7. MutatedIn(c, k+1, p) = IF p[n] # NoPin /\ p[n] # h
                             THEN [MutatedIn(c, k, p) EXCEPT ![n] = @ + 1]
                             ELSE MutatedIn(c, k, p)
  <2>1. \A m \in Name : MutatedIn(c, k+1, p)[m] =
           IF n = m /\ (p[n] # NoPin /\ p[n] # h) THEN MutatedIn(c, k, p)[m] + 1
           ELSE MutatedIn(c, k, p)[m]
    <3>1. \A m \in Name : /\ MutatedIn(c, k, p)[m] = Cardinality({j \in At(c, k, m) : M(j, m)})
                          /\ MutatedIn(c, k+1, p)[m] = Cardinality({j \in At(c, k+1, m) : M(j, m)})
      BY DEF MutatedIn
    <3>2. M(k+1, n) <=> p[n] # NoPin /\ p[n] # h
      OBVIOUS
    <3> HIDE DEF A, M, U
    <3>3. ASSUME NEW m \in Name
          PROVE  Cardinality({j \in At(c, k+1, m) : M(j, m)}) =
                     IF n = m /\ (p[n] # NoPin /\ p[n] # h)
                     THEN Cardinality({j \in At(c, k, m) : M(j, m)}) + 1
                     ELSE Cardinality({j \in At(c, k, m) : M(j, m)})
      BY <1>3, <3>2, Zenon
    <3>4. ASSUME NEW m \in Name
          PROVE  MutatedIn(c, k+1, p)[m] =
                     IF n = m /\ (p[n] # NoPin /\ p[n] # h) THEN MutatedIn(c, k, p)[m] + 1
                     ELSE MutatedIn(c, k, p)[m]
      <4>1. MutatedIn(c, k, p)[m] = Cardinality({j \in At(c, k, m) : M(j, m)})
        BY <3>1
      <4>2. MutatedIn(c, k+1, p)[m] = Cardinality({j \in At(c, k+1, m) : M(j, m)})
        BY <3>1
      <4> QED
        BY <3>3, <4>1, <4>2
    <3> QED
      BY <3>4
  <2> DEFINE f == MutatedIn(c, k, p)
             g == MutatedIn(c, k+1, p)
             b == p[n] # NoPin /\ p[n] # h
  <2>2. f = [m \in Name |-> f[m]] /\ g = [m \in Name |-> g[m]]
    BY DEF MutatedIn
  <2>b. b \in BOOLEAN
    OBVIOUS
  <2>3. \A m \in Name : g[m] = IF n = m /\ b THEN f[m] + 1 ELSE f[m]
    BY <2>1
  <2> HIDE DEF f, g, b
  <2>4. g = IF b THEN [f EXCEPT ![n] = @ + 1] ELSE f
    BY <1>5, <2>2, <2>b, <2>3
  <2> QED
    BY <2>4 DEF f, g, b
<1>8. UnchangedIn(c, k+1, p) = IF p[n] # NoPin /\ p[n] = h
                               THEN [UnchangedIn(c, k, p) EXCEPT ![n] = @ + 1]
                               ELSE UnchangedIn(c, k, p)
  <2>1. \A m \in Name : UnchangedIn(c, k+1, p)[m] =
           IF n = m /\ (p[n] # NoPin /\ p[n] = h) THEN UnchangedIn(c, k, p)[m] + 1
           ELSE UnchangedIn(c, k, p)[m]
    <3>1. \A m \in Name : /\ UnchangedIn(c, k, p)[m] = Cardinality({j \in At(c, k, m) : U(j, m)})
                          /\ UnchangedIn(c, k+1, p)[m] = Cardinality({j \in At(c, k+1, m) : U(j, m)})
      BY DEF UnchangedIn
    <3>2. U(k+1, n) <=> p[n] # NoPin /\ p[n] = h
      OBVIOUS
    <3> HIDE DEF A, M, U
    <3>3. ASSUME NEW m \in Name
          PROVE  Cardinality({j \in At(c, k+1, m) : U(j, m)}) =
                     IF n = m /\ (p[n] # NoPin /\ p[n] = h)
                     THEN Cardinality({j \in At(c, k, m) : U(j, m)}) + 1
                     ELSE Cardinality({j \in At(c, k, m) : U(j, m)})
      BY <1>3, <3>2, Zenon
    <3>4. ASSUME NEW m \in Name
          PROVE  UnchangedIn(c, k+1, p)[m] =
                     IF n = m /\ (p[n] # NoPin /\ p[n] = h) THEN UnchangedIn(c, k, p)[m] + 1
                     ELSE UnchangedIn(c, k, p)[m]
      <4>1. UnchangedIn(c, k, p)[m] = Cardinality({j \in At(c, k, m) : U(j, m)})
        BY <3>1
      <4>2. UnchangedIn(c, k+1, p)[m] = Cardinality({j \in At(c, k+1, m) : U(j, m)})
        BY <3>1
      <4> QED
        BY <3>3, <4>1, <4>2
    <3> QED
      BY <3>4
  <2> DEFINE f == UnchangedIn(c, k, p)
             g == UnchangedIn(c, k+1, p)
             b == p[n] # NoPin /\ p[n] = h
  <2>2. f = [m \in Name |-> f[m]] /\ g = [m \in Name |-> g[m]]
    BY DEF UnchangedIn
  <2>b. b \in BOOLEAN
    OBVIOUS
  <2>3. \A m \in Name : g[m] = IF n = m /\ b THEN f[m] + 1 ELSE f[m]
    BY <2>1
  <2> HIDE DEF f, g, b
  <2>4. g = IF b THEN [f EXCEPT ![n] = @ + 1] ELSE f
    BY <1>5, <2>2, <2>b, <2>3
  <2> QED
    BY <2>4 DEF f, g, b
<1> QED
  BY <1>6, <1>7, <1>8

\* Pinning one more descriptor (verifier.rs, the body of repin's loop).
LEMMA PinStep ==
    ASSUME NEW c \in Seq(Descriptor), NEW k \in Nat, k < Len(c), NEW p,
           NameOf[c[k+1]] \in Name
    PROVE  PinnedOver(p, c, k+1) =
               [PinnedOver(p, c, k) EXCEPT ![NameOf[c[k+1]]] = HashOf[c[k+1]]]
<1> DEFINE Last(S) == CHOOSE j \in S : \A l \in S : l <= j
<1>1. ASSUME NEW m \in Name
      PROVE  At(c, k+1, m) = IF NameOf[c[k+1]] = m THEN At(c, k, m) \cup {k+1}
                             ELSE At(c, k, m)
  BY AtStep
<1>2. ASSUME NEW m \in Name, NameOf[c[k+1]] = m
      PROVE  At(c, k+1, m) # {} /\ Last(At(c, k+1, m)) = k + 1
  <2> DEFINE S == At(c, k+1, m)
  <2>1. k + 1 \in S /\ S \subseteq 1..k+1
    BY <1>1, <1>2 DEF At
  <2>2. \A l \in S : l <= k + 1
    BY <2>1
  <2>3. ASSUME NEW j \in S, \A l \in S : l <= j PROVE j = k + 1
    BY <2>1, <2>3
  <2> HIDE DEF S
  <2>4. Last(S) = k + 1
    BY <2>1, <2>2, <2>3
  <2> QED
    BY <2>1, <2>4 DEF S
<1>3. ASSUME NEW m \in Name
      PROVE  PinnedOver(p, c, k+1)[m] =
               IF NameOf[c[k+1]] = m THEN HashOf[c[k+1]] ELSE PinnedOver(p, c, k)[m]
  <2>1. \A q \in Nat : PinnedOver(p, c, q)[m] =
           IF At(c, q, m) = {} THEN p[m] ELSE HashOf[c[Last(At(c, q, m))]]
    BY DEF PinnedOver
  <2> HIDE DEF Last
  <2>2. CASE NameOf[c[k+1]] = m
    BY <1>2, <2>1, <2>2
  <2>3. CASE NameOf[c[k+1]] # m
    <3>1. At(c, k+1, m) = At(c, k, m)
      BY <1>1, <2>3
    <3> QED
      BY <2>1, <2>3, <3>1
  <2> QED
    BY <2>2, <2>3
<1> DEFINE f == PinnedOver(p, c, k)
           g == PinnedOver(p, c, k+1)
<1>5. f = [m \in Name |-> f[m]] /\ g = [m \in Name |-> g[m]]
  BY DEF PinnedOver
<1>6. \A m \in Name : g[m] = IF m = NameOf[c[k+1]] THEN HashOf[c[k+1]] ELSE f[m]
  BY <1>3
<1> HIDE DEF f, g
<1>7. g = [f EXCEPT ![NameOf[c[k+1]]] = HashOf[c[k+1]]]
  BY <1>5, <1>6, UpdateOne
<1> QED
  BY <1>7 DEF f, g

\* No descriptor scanned yet: empty lists, and the pins of the call.
LEMMA NothingScanned ==
    ASSUME NEW c, NEW p \in Pins
    PROVE  /\ NamesIn(c, 0) = {}
           /\ AddedIn(c, 0, p) = EmptyList
           /\ MutatedIn(c, 0, p) = EmptyList
           /\ UnchangedIn(c, 0, p) = EmptyList
           /\ PinnedOver(p, c, 0) = p
<1>1. 1..0 = {}
  OBVIOUS
<1>2. \A n \in Name : At(c, 0, n) = {}
  BY <1>1 DEF At
<1>3. NamesIn(c, 0) = {}
  BY <1>1 DEF NamesIn
<1>4. Cardinality({}) = 0
  BY FS_EmptySet
<1>5. /\ \A n \in Name : {j \in At(c, 0, n) : p[n] = NoPin} = {}
      /\ \A n \in Name : {j \in At(c, 0, n) : p[n] # NoPin /\ p[n] # HashOf[c[j]]} = {}
      /\ \A n \in Name : {j \in At(c, 0, n) : p[n] # NoPin /\ p[n] = HashOf[c[j]]} = {}
  BY <1>2
<1>6. AddedIn(c, 0, p) = EmptyList
  <2>1. \A n \in Name : Cardinality({j \in At(c, 0, n) : p[n] = NoPin}) = 0
    BY <1>4, <1>5
  <2> QED
    BY <2>1 DEF AddedIn, EmptyList
<1>7. MutatedIn(c, 0, p) = EmptyList
  <2>1. \A n \in Name :
           Cardinality({j \in At(c, 0, n) : p[n] # NoPin /\ p[n] # HashOf[c[j]]}) = 0
    BY <1>4, <1>5
  <2> QED
    BY <2>1 DEF MutatedIn, EmptyList
<1>8. UnchangedIn(c, 0, p) = EmptyList
  <2>1. \A n \in Name :
           Cardinality({j \in At(c, 0, n) : p[n] # NoPin /\ p[n] = HashOf[c[j]]}) = 0
    BY <1>4, <1>5
  <2> QED
    BY <2>1 DEF UnchangedIn, EmptyList
<1>9. PinnedOver(p, c, 0) = [n \in Name |-> p[n]]
  BY <1>2 DEF PinnedOver
<1> QED
  BY <1>3, <1>6, <1>7, <1>8, <1>9 DEF Pins

\* The report on a catalog of good descriptors shows no drift exactly when its
\* tools are the pinned ones.
LEMMA CleanReport ==
    ASSUME NEW c \in Seq(Descriptor), \A j \in 1..Len(c) : ErrorOf(c[j]) = "Ok",
           NEW p \in Pins
    PROVE  ~HasDrift(ReportOf(c, p)) <=>
               ToolsOf(c) = {<<n, p[n]>> : n \in PinnedNames(p)}
<1> DEFINE L == Len(c)
<1>1. L \in Nat /\ DOMAIN c = 1..L
  OBVIOUS
<1>2. \A j \in 1..L : NameOf[c[j]] \in Name /\ HashOf[c[j]] \in Hash
  <2>1. \A j \in 1..L : c[j] \in Descriptor
    BY <1>1
  <2> QED
    BY <2>1, GoodDescriptor
<1>3. \A S : S \subseteq 1..L => (Cardinality(S) > 0 <=> S # {})
  <2>1. ASSUME NEW S, S \subseteq 1..L PROVE Cardinality(S) > 0 <=> S # {}
    <3>1. IsFiniteSet(S)
      <4>1. IsFiniteSet(1..L)
        BY <1>1, FS_Interval
      <4> QED
        BY <2>1, <4>1, FS_Subset
    <3>2. Cardinality(S) \in Nat
      BY <3>1, FS_CardinalityType
    <3>3. Cardinality(S) = 0 <=> S = {}
      BY <3>1, FS_EmptySet
    <3> QED
      BY <3>2, <3>3
  <2> QED
    BY <2>1
<1>4. ASSUME NEW n \in Name
      PROVE  /\ AddedIn(c, L, p)[n] > 0 <=> (p[n] = NoPin /\ \E j \in 1..L : NameOf[c[j]] = n)
             /\ MutatedIn(c, L, p)[n] > 0 <=>
                   \E j \in 1..L : NameOf[c[j]] = n /\ p[n] # NoPin /\ p[n] # HashOf[c[j]]
             /\ RemovedFrom(c, L, p)[n] > 0 <=>
                   (p[n] # NoPin /\ ~\E j \in 1..L : NameOf[c[j]] = n)
  <2>1. /\ {j \in At(c, L, n) : p[n] = NoPin} \subseteq 1..L
        /\ {j \in At(c, L, n) : p[n] # NoPin /\ p[n] # HashOf[c[j]]} \subseteq 1..L
    BY DEF At
  <2>2. /\ AddedIn(c, L, p)[n] > 0 <=> {j \in At(c, L, n) : p[n] = NoPin} # {}
        /\ MutatedIn(c, L, p)[n] > 0 <=>
               {j \in At(c, L, n) : p[n] # NoPin /\ p[n] # HashOf[c[j]]} # {}
    BY <1>3, <2>1 DEF AddedIn, MutatedIn
  <2>3. At(c, L, n) = {j \in 1..L : NameOf[c[j]] = n}
    BY DEF At
  <2> HIDE DEF L
  <2>4. RemovedFrom(c, L, p)[n] > 0 <=> (p[n] # NoPin /\ At(c, L, n) = {})
    BY DEF RemovedFrom
  <2> QED
    BY <2>2, <2>3, <2>4
<1>5. ~HasDrift(ReportOf(c, p)) <=>
         \A n \in Name : /\ ~(AddedIn(c, L, p)[n] > 0)
                         /\ ~(MutatedIn(c, L, p)[n] > 0)
                         /\ ~(RemovedFrom(c, L, p)[n] > 0)
  BY DEF HasDrift, ReportOf
<1>6. ToolsOf(c) = {<<NameOf[c[j]], HashOf[c[j]]>> : j \in 1..L}
  BY <1>1 DEF ToolsOf
<1>7. PinnedNames(p) = {n \in Name : p[n] # NoPin}
  BY DEF PinnedNames
<1> HIDE DEF L
<1>8. ASSUME \A n \in Name : /\ ~(AddedIn(c, L, p)[n] > 0)
                             /\ ~(MutatedIn(c, L, p)[n] > 0)
                             /\ ~(RemovedFrom(c, L, p)[n] > 0)
      PROVE  ToolsOf(c) = {<<n, p[n]>> : n \in PinnedNames(p)}
  <2>1. \A j \in 1..L : p[NameOf[c[j]]] # NoPin /\ p[NameOf[c[j]]] = HashOf[c[j]]
    BY <1>2, <1>4, <1>8
  <2>2. \A n \in PinnedNames(p) : \E j \in 1..L : NameOf[c[j]] = n
    BY <1>4, <1>7, <1>8
  <2> QED
    BY <1>2, <1>6, <1>7, <2>1, <2>2
<1>9. ASSUME ToolsOf(c) = {<<n, p[n]>> : n \in PinnedNames(p)}
      PROVE  \A n \in Name : /\ ~(AddedIn(c, L, p)[n] > 0)
                             /\ ~(MutatedIn(c, L, p)[n] > 0)
                             /\ ~(RemovedFrom(c, L, p)[n] > 0)
  <2>1. ASSUME NEW j \in 1..L
        PROVE  p[NameOf[c[j]]] # NoPin /\ p[NameOf[c[j]]] = HashOf[c[j]]
    <3>1. <<NameOf[c[j]], HashOf[c[j]]>> \in ToolsOf(c)
      BY <1>6
    <3>2. PICK n \in PinnedNames(p) : <<NameOf[c[j]], HashOf[c[j]]>> = <<n, p[n]>>
      BY <1>9, <3>1
    <3> QED
      BY <1>7, <3>2
  <2>2. ASSUME NEW n \in Name, p[n] # NoPin
        PROVE  \E j \in 1..L : NameOf[c[j]] = n
    <3>1. <<n, p[n]>> \in ToolsOf(c)
      BY <1>7, <1>9, <2>2
    <3>2. PICK j \in 1..L : <<n, p[n]>> = <<NameOf[c[j]], HashOf[c[j]]>>
      BY <1>6, <3>1
    <3> QED
      BY <3>2
  <2> QED
    BY <1>4, <2>1, <2>2
<1> QED
  BY <1>5, <1>8, <1>9

-----------------------------------------------------------------------------
(* What a catalog is judged to be. *)

\* A non-empty set of naturals has a least member, one of positions a last.
LEMMA LeastExists ==
    ASSUME NEW S \in SUBSET Nat, S # {}
    PROVE  \E j \in S : \A l \in S : j <= l
<1> DEFINE R == OpToRel(<, Nat)
<1>1. IsWellFoundedOn(R, Nat)
  BY NatLessThanWellFounded
<1>2. \A x, y \in Nat : x < y => <<x, y>> \in R
  BY DEF OpToRel
<1> HIDE DEF R
<1>3. PICK j \in S : \A l \in S : ~(<<l, j>> \in R)
  BY <1>1, WFMin
<1>4. ASSUME NEW l \in S PROVE j <= l
  <2>1. j \in Nat /\ l \in Nat /\ ~(l < j)
    BY <1>2, <1>3
  <2> QED
    BY <2>1
<1> QED
  BY <1>4

\* A nonempty set of positions has a last one.
LEMMA LastExists ==
    ASSUME NEW n \in Nat, NEW S, S \subseteq 1..n, S # {}
    PROVE  \E j \in S : \A l \in S : l <= j
<1> DEFINE T == {n - j : j \in S}
<1>1. T \in SUBSET Nat /\ T # {}
  <2>1. \A j \in S : n - j \in Nat
    OBVIOUS
  <2>2. T \in SUBSET Nat
    BY <2>1
  <2>3. PICK j \in S : TRUE
    OBVIOUS
  <2>4. n - j \in T
    BY <2>3
  <2> QED
    BY <2>2, <2>4
<1>2. PICK t \in T : \A l \in T : t <= l
  BY <1>1, LeastExists
<1>3. PICK j \in S : t = n - j
  OBVIOUS
<1>4. ASSUME NEW l \in S PROVE l <= j
  <2>1. n - l \in T
    OBVIOUS
  <2>2. t <= n - l
    BY <1>2, <2>1
  <2> QED
    BY <1>3, <2>2
<1> QED
  BY <1>4

\* The loop stops at the first bad descriptor, or at the end.
LEMMA AcceptedFits ==
    ASSUME NEW c \in Seq(Descriptor)
    PROVE  /\ Accepted(c) \in 0..Len(c)
           /\ \A j \in 1..Accepted(c) : ErrorOf(c[j]) = "Ok"
           /\ Accepted(c) < Len(c) => ErrorOf(c[Accepted(c) + 1]) # "Ok"
<1> DEFINE bad == {j \in 1..Len(c) : ErrorOf(c[j]) # "Ok"}
<1>1. CASE bad = {}
  <2>1. Len(c) \in 0..Len(c) /\ \A j \in 1..Len(c) : ErrorOf(c[j]) = "Ok"
    BY <1>1
  <2>2. Accepted(c) = Len(c)
    BY <2>1, AcceptedUnique
  <2> QED
    BY <2>1, <2>2
<1>2. CASE bad # {}
  <2>1. bad \in SUBSET Nat
    OBVIOUS
  <2>2. PICK b \in bad : \A l \in bad : b <= l
    BY <1>2, <2>1, LeastExists
  <2>3. /\ b - 1 \in 0..Len(c) /\ b - 1 + 1 = b
        /\ \A j \in 1..(b - 1) : ErrorOf(c[j]) = "Ok"
        /\ ErrorOf(c[b - 1 + 1]) # "Ok"
    BY <2>2
  <2>4. Accepted(c) = b - 1
    BY <2>3, AcceptedUnique
  <2> QED
    BY <2>3, <2>4
<1> QED
  BY <1>1, <1>2

\* A call on a catalog succeeds exactly when every descriptor is good.
LEMMA GoodCatalog ==
    ASSUME NEW c \in Seq(Descriptor)
    PROVE  ResultOf(c) = "Ok" <=> \A j \in 1..Len(c) : ErrorOf(c[j]) = "Ok"
<1>1. /\ Accepted(c) \in 0..Len(c) /\ Len(c) \in Nat
      /\ \A j \in 1..Accepted(c) : ErrorOf(c[j]) = "Ok"
      /\ Accepted(c) < Len(c) => ErrorOf(c[Accepted(c) + 1]) # "Ok"
  BY AcceptedFits
<1> QED
  BY <1>1 DEF ResultOf

\* The pins of a good catalog are those of its tools, one for each of its names.
LEMMA BaselineTools ==
    ASSUME NEW c \in Seq(Descriptor), ResultOf(c) = "Ok"
    PROVE  LET p == BaselineOf(c) IN
           /\ p \in Pins
           /\ \A n \in PinnedNames(p) : <<n, p[n]>> \in ToolsOf(c)
           /\ PinnedNames(p) = NamesIn(c, Len(c))
<1> DEFINE p == BaselineOf(c)
           L == Len(c)
           Last(n) == CHOOSE j \in At(c, L, n) : \A l \in At(c, L, n) : l <= j
<1>1. L \in Nat /\ DOMAIN c = 1..L
  OBVIOUS
<1>2. \A j \in 1..L : NameOf[c[j]] \in Name /\ HashOf[c[j]] \in Hash
  <2>1. \A j \in 1..L : c[j] \in Descriptor /\ ErrorOf(c[j]) = "Ok"
    BY <1>1, GoodCatalog
  <2> QED
    BY <2>1, GoodDescriptor
<1>3. \A n \in Name : p[n] = IF At(c, L, n) = {} THEN NoPin ELSE HashOf[c[Last(n)]]
  BY DEF BaselineOf, PinnedOver
<1>4. p = [n \in Name |-> p[n]]
  BY DEF BaselineOf, PinnedOver
<1>5. \A n : At(c, L, n) = {j \in 1..L : NameOf[c[j]] = n}
  BY DEF At
<1>6. ASSUME NEW n \in Name, At(c, L, n) # {}
      PROVE  Last(n) \in 1..L /\ NameOf[c[Last(n)]] = n
  <2>1. At(c, L, n) \subseteq 1..L
    BY <1>5
  <2>2. \E j \in At(c, L, n) : \A l \in At(c, L, n) : l <= j
    BY <1>1, <1>6, <2>1, LastExists
  <2>3. Last(n) \in At(c, L, n)
    BY <2>2
  <2> QED
    BY <1>5, <2>3
<1> HIDE DEF p, L, Last
<1>7. p \in Pins
  <2>1. \A n \in Name : p[n] \in Hash \cup {NoPin}
    BY <1>2, <1>3, <1>6
  <2> QED
    BY <1>4, <2>1 DEF Pins
<1>8. \A n \in Name : p[n] # NoPin <=> At(c, L, n) # {}
  BY <1>2, <1>3, <1>6
<1>9. ASSUME NEW n \in PinnedNames(p) PROVE <<n, p[n]>> \in ToolsOf(c)
  <2>1. n \in Name /\ At(c, L, n) # {}
    BY <1>8 DEF PinnedNames
  <2>2. Last(n) \in DOMAIN c /\ NameOf[c[Last(n)]] = n /\ HashOf[c[Last(n)]] = p[n]
    BY <1>1, <1>3, <1>6, <2>1
  <2> QED
    BY <2>2 DEF ToolsOf
<1>10. PinnedNames(p) = NamesIn(c, L)
  <2>1. \A n : n \in PinnedNames(p) <=> n \in Name /\ \E j \in 1..L : NameOf[c[j]] = n
    BY <1>5, <1>8 DEF PinnedNames
  <2> QED
    BY <1>2, <2>1 DEF NamesIn
<1> QED
  BY <1>7, <1>9, <1>10 DEF p, L

\* The names of a good catalog are those of its tools.
LEMMA NamesOfTools ==
    ASSUME NEW c \in Seq(Descriptor), NEW p,
           ToolsOf(c) = {<<n, p[n]>> : n \in PinnedNames(p)}
    PROVE  NamesIn(c, Len(c)) = PinnedNames(p)
<1>1. DOMAIN c = 1..Len(c)
  OBVIOUS
<1>2. ASSUME NEW j \in 1..Len(c) PROVE NameOf[c[j]] \in PinnedNames(p)
  <2>1. <<NameOf[c[j]], HashOf[c[j]]>> \in ToolsOf(c)
    BY <1>1 DEF ToolsOf
  <2>2. PICK n \in PinnedNames(p) : <<NameOf[c[j]], HashOf[c[j]]>> = <<n, p[n]>>
    BY <2>1
  <2> QED
    BY <2>2
<1>3. ASSUME NEW n \in PinnedNames(p) PROVE \E j \in 1..Len(c) : NameOf[c[j]] = n
  <2>1. <<n, p[n]>> \in ToolsOf(c)
    OBVIOUS
  <2>2. PICK j \in DOMAIN c : <<n, p[n]>> = <<NameOf[c[j]], HashOf[c[j]]>>
    BY <2>1 DEF ToolsOf
  <2> QED
    BY <1>1, <2>2
<1> QED
  BY <1>2, <1>3 DEF NamesIn

\* Which hashes a catalog hash counts.
LEMMA HashCounted ==
    ASSUME NEW c \in Seq(Descriptor), NEW h \in Hash
    PROVE  CatalogHash(HashesIn(c))[h] > 0 <=> \E j \in 1..Len(c) : HashOf[c[j]] = h
<1> DEFINE hs == HashesIn(c)
           S == {j \in DOMAIN hs : hs[j] = h}
<1>1. Len(c) \in Nat /\ DOMAIN hs = 1..Len(c) /\ \A j \in 1..Len(c) : hs[j] = HashOf[c[j]]
  BY DEF HashesIn
<1>2. CatalogHash(hs)[h] = Cardinality(S)
  BY DEF CatalogHash
<1> HIDE DEF hs
<1>3. IsFiniteSet(S)
  <2>1. IsFiniteSet(1..Len(c))
    BY <1>1, FS_Interval
  <2> QED
    BY <1>1, <2>1, FS_Subset
<1>4. Cardinality(S) > 0 <=> S # {}
  <2>1. Cardinality(S) \in Nat
    BY <1>3, FS_CardinalityType
  <2>2. Cardinality(S) = 0 <=> S = {}
    BY <1>3, FS_EmptySet
  <2> QED
    BY <2>1, <2>2
<1>5. S # {} <=> \E j \in 1..Len(c) : HashOf[c[j]] = h
  BY <1>1
<1> QED
  BY <1>2, <1>4, <1>5 DEF hs

\* A set in three parts.
LEMMA ThreeParts ==
    ASSUME NEW S, IsFiniteSet(S), NEW A, NEW B, NEW C,
           S = A \cup B \cup C, A \cap B = {}, A \cap C = {}, B \cap C = {}
    PROVE  Cardinality(A) + Cardinality(B) + Cardinality(C) = Cardinality(S)
<1>1. IsFiniteSet(A) /\ IsFiniteSet(B) /\ IsFiniteSet(C)
  BY FS_Subset
<1>2. Cardinality({}) = 0
  BY FS_EmptySet
<1>3. Cardinality(A) \in Nat /\ Cardinality(B) \in Nat /\ Cardinality(C) \in Nat
  BY <1>1, FS_CardinalityType
<1>4. /\ IsFiniteSet(A \cup B)
      /\ Cardinality(A \cup B) = Cardinality(A) + Cardinality(B) - Cardinality(A \cap B)
  BY <1>1, FS_Union
<1>5. Cardinality((A \cup B) \cup C) =
          Cardinality(A \cup B) + Cardinality(C) - Cardinality((A \cup B) \cap C)
  BY <1>1, <1>4, FS_Union
<1>6. (A \cup B) \cap C = {} /\ A \cap B = {} /\ S = (A \cup B) \cup C
  OBVIOUS
<1>7. Cardinality((A \cup B) \cap C) = 0 /\ Cardinality(A \cap B) = 0
  BY <1>2, <1>6, Zenon
<1>8. Cardinality((A \cup B) \cup C) = Cardinality(S)
  BY <1>6, Zenon
<1> HIDE DEF Cardinality
<1> QED
  BY <1>3, <1>4, <1>5, <1>7, <1>8

\* Each listing is counted in one list of the report, and a pinned name that is not
\* listed once as removed.
LEMMA AllClassified ==
    ASSUME NEW c \in Seq(Descriptor), NEW p \in Pins, NEW n \in Name
    PROVE  LET r == ReportOf(c, p) IN
           /\ r.added[n] + r.mutated[n] + r.unchanged[n] = Cardinality(At(c, Len(c), n))
           /\ r.removed[n] > 0 <=> (p[n] # NoPin /\ At(c, Len(c), n) = {})
           /\ r.removed[n] \in {0, 1}
<1> DEFINE S == At(c, Len(c), n)
           A == {j \in S : p[n] = NoPin}
           M == {j \in S : p[n] # NoPin /\ p[n] # HashOf[c[j]]}
           U == {j \in S : p[n] # NoPin /\ p[n] = HashOf[c[j]]}
           r == ReportOf(c, p)
<1>1. IsFiniteSet(S)
  <2>1. IsFiniteSet(1..Len(c))
    BY FS_Interval
  <2>2. S \subseteq 1..Len(c)
    BY DEF At
  <2> QED
    BY <2>1, <2>2, FS_Subset
<1>2. /\ r.added[n] = Cardinality(A) /\ r.mutated[n] = Cardinality(M)
      /\ r.unchanged[n] = Cardinality(U)
      /\ r.removed[n] = IF p[n] # NoPin /\ S = {} THEN 1 ELSE 0
  BY DEF ReportOf, AddedIn, MutatedIn, UnchangedIn, RemovedFrom
<1>3. S = A \cup M \cup U /\ A \cap M = {} /\ A \cap U = {} /\ M \cap U = {}
  <2> HIDE DEF S
  <2> QED
    OBVIOUS
<1> HIDE DEF S, A, M, U, r
<1>4. Cardinality(A) + Cardinality(M) + Cardinality(U) = Cardinality(S)
  BY <1>1, <1>3, ThreeParts
<1> QED
  BY <1>2, <1>4 DEF S, r

\* Of a good catalog that lists no name with two hashes, every tool is pinned.
LEMMA BaselineHasAll ==
    ASSUME NEW c \in Seq(Descriptor), ResultOf(c) = "Ok",
           \A j, k \in 1..Len(c) : NameOf[c[j]] = NameOf[c[k]] => HashOf[c[j]] = HashOf[c[k]]
    PROVE  ToolsOf(c) = {<<n, BaselineOf(c)[n]>> : n \in PinnedNames(BaselineOf(c))}
<1> DEFINE p == BaselineOf(c)
<1>1. /\ \A n \in PinnedNames(p) : <<n, p[n]>> \in ToolsOf(c)
      /\ PinnedNames(p) = NamesIn(c, Len(c))
  BY BaselineTools
<1> HIDE DEF p
<1>2. DOMAIN c = 1..Len(c)
  OBVIOUS
<1>3. ASSUME NEW j \in 1..Len(c)
      PROVE  NameOf[c[j]] \in PinnedNames(p) /\ HashOf[c[j]] = p[NameOf[c[j]]]
  <2>1. NameOf[c[j]] \in PinnedNames(p)
    BY <1>1 DEF NamesIn
  <2>2. <<NameOf[c[j]], p[NameOf[c[j]]]>> \in ToolsOf(c)
    BY <1>1, <2>1
  <2>3. PICK k \in 1..Len(c) : <<NameOf[c[j]], p[NameOf[c[j]]]>> = <<NameOf[c[k]], HashOf[c[k]]>>
    BY <1>2, <2>2 DEF ToolsOf
  <2> QED
    BY <2>1, <2>3
<1>4. ToolsOf(c) \subseteq {<<n, p[n]>> : n \in PinnedNames(p)}
  BY <1>2, <1>3 DEF ToolsOf
<1> QED
  BY <1>1, <1>4 DEF p
=============================================================================

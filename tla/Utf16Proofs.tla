----------------------------- MODULE Utf16Proofs -----------------------------
(***************************************************************************)
(* Proofs about sequences that are joined and about Utf16: strings that differ   *)
(* have code units that differ, and the order of member names is a total one.    *)
(***************************************************************************)
EXTENDS Utf16, TLAPS, SequenceTheorems, NaturalsInduction, WellFoundedInduction

-----------------------------------------------------------------------------
(* Joining sequences. *)

\* Induction over the natural numbers, for a set.
LEMMA NatInduct ==
    ASSUME NEW S, 0 \in S, \A n \in Nat : n \in S => n + 1 \in S
    PROVE  Nat \subseteq S
<1> DEFINE R == OpToRel(<, Nat)
           U == Nat \ S
<1>1. IsWellFoundedOn(R, Nat)
  BY NatLessThanWellFounded
<1>2. \A x, y \in Nat : x < y => <<x, y>> \in R
  BY DEF OpToRel
<1> HIDE DEF R
<1> SUFFICES ASSUME U # {} PROVE FALSE
  OBVIOUS
<1>3. PICK j \in U : \A l \in U : ~(<<l, j>> \in R)
  BY <1>1, WFMin
<1>4. j \in Nat /\ j # 0 /\ j - 1 \in Nat /\ j - 1 < j
  BY DEF U
<1>5. j - 1 \in S
  BY <1>2, <1>3, <1>4
<1>6. (j - 1) + 1 = j /\ (j - 1) + 1 \in S
  BY <1>4, <1>5
<1> QED
  BY <1>6 DEF U

\* x stands in u, behind the first d elements.
Stands(x, u, d) == \A j \in 1..Len(x) : d + j \in 1..Len(u) /\ u[d + j] = x[j]

\* So do the two parts of a sequence.
LEMMA Parts ==
    ASSUME NEW S, NEW x \in Seq(S), NEW y \in Seq(S)
    PROVE  /\ x \o y \in Seq(S) /\ Len(x) \in Nat /\ Len(y) \in Nat
           /\ Len(x \o y) = Len(x) + Len(y)
           /\ Stands(x, x \o y, 0) /\ Stands(y, x \o y, Len(x))
<1>1. x \o y \in Seq(S) /\ Len(x) \in Nat /\ Len(y) \in Nat /\ Len(x \o y) = Len(x) + Len(y)
  OBVIOUS
<1>2. \A j \in 1..Len(x) : 0 + j \in 1..Len(x) + Len(y) /\ (x \o y)[0 + j] = x[j]
  OBVIOUS
<1>3. \A j \in 1..Len(y) : Len(x) + j \in 1..Len(x) + Len(y) /\ (x \o y)[Len(x) + j] = y[j]
  OBVIOUS
<1> QED
  BY <1>1, <1>2, <1>3 DEF Stands

\* And what stands in a part.
LEMMA StandsIn ==
    ASSUME NEW x, NEW m, NEW u, NEW d \in Int, NEW e \in Int,
           Len(x) \in Nat, Stands(x, m, d), Stands(m, u, e)
    PROVE  Stands(x, u, e + d)
<1> SUFFICES ASSUME NEW j \in 1..Len(x)
             PROVE  e + d + j \in 1..Len(u) /\ u[e + d + j] = x[j]
  BY DEF Stands
<1>1. d + j \in 1..Len(m) /\ m[d + j] = x[j]
  BY DEF Stands
<1>2. e + (d + j) \in 1..Len(u) /\ u[e + (d + j)] = m[d + j]
  BY <1>1 DEF Stands
<1>3. e + (d + j) = e + d + j
  OBVIOUS
<1> QED
  BY <1>1, <1>2, <1>3

\* f holds what the elements of s join to, up to each of the first n.
Joins(s, n, f) == \A i \in 1..n : f[i] = IF i = 1 THEN s[i] ELSE f[i-1] \o s[i]

\* There are such joins, by induction on their number.
LEMMA JoinsExist ==
    ASSUME NEW S, NEW s \in Seq(Seq(S)), NEW m \in 0..Len(s)
    PROVE  \E f \in [1..m -> Seq(S)] : Joins(s, m, f)
<1> DEFINE P(n) == \E f \in [1..n -> Seq(S)] : Joins(s, n, f)
           T == {n \in Nat : n <= Len(s) => P(n)}
<1>1. P(0)
  <2> DEFINE f == [i \in 1..0 |-> <<>>]
  <2>1. f \in [1..0 -> Seq(S)] /\ Joins(s, 0, f)
    BY DEF Joins
  <2> QED
    BY <2>1
<1>2. ASSUME NEW n \in Nat, n + 1 <= Len(s), P(n) PROVE P(n + 1)
  <2>1. PICK f \in [1..n -> Seq(S)] : Joins(s, n, f)
    BY <1>2
  <2>2. s[n + 1] \in Seq(S)
    BY <1>2
  <2> DEFINE last == IF n = 0 THEN s[1] ELSE f[n] \o s[n + 1]
             g == [i \in 1..n+1 |-> IF i = n + 1 THEN last ELSE f[i]]
  <2>3. last \in Seq(S)
    <3>1. CASE n = 0
      BY <2>2, <3>1
    <3>2. CASE n # 0
      <4>1. f[n] \in Seq(S)
        BY <3>2
      <4> QED
        BY <2>2, <3>2, <4>1
    <3> QED
      BY <3>1, <3>2
  <2>4. g \in [1..n+1 -> Seq(S)]
    <3> HIDE DEF last
    <3> QED
      BY <2>3
  <2>5. ASSUME NEW i \in 1..n+1
        PROVE  g[i] = IF i = 1 THEN s[i] ELSE g[i-1] \o s[i]
    <3>1. CASE i = n + 1
      BY <3>1
    <3>2. CASE i # n + 1
      <4>1. i \in 1..n /\ (i # 1 => i - 1 \in 1..n /\ i - 1 \in 1..n+1 /\ i - 1 # n + 1)
        BY <3>2
      <4>2. f[i] = IF i = 1 THEN s[i] ELSE f[i-1] \o s[i]
        BY <2>1, <4>1 DEF Joins
      <4>3. g[i] = f[i] /\ (i # 1 => g[i-1] = f[i-1])
        BY <3>2, <4>1
      <4> QED
        BY <4>2, <4>3
    <3> QED
      BY <3>1, <3>2
  <2> HIDE DEF g
  <2>6. Joins(s, n + 1, g)
    BY <2>5 DEF Joins
  <2> QED
    BY <2>4, <2>6
<1> HIDE DEF P
<1>3. Nat \subseteq T
  <2>1. 0 \in T
    BY <1>1
  <2>2. ASSUME NEW n \in Nat, n \in T PROVE n + 1 \in T
    BY <1>2, <2>2
  <2> HIDE DEF T
  <2> QED
    BY <2>1, <2>2, NatInduct
<1> QED
  BY <1>3 DEF P

\* And only one of each.
LEMMA JoinsAgree ==
    ASSUME NEW s, NEW m \in Nat, NEW f, NEW g, Joins(s, m, f), Joins(s, m, g)
    PROVE  \A i \in 1..m : f[i] = g[i]
<1> DEFINE T == {i \in Nat : i \in 1..m => f[i] = g[i]}
<1>1. 0 \in T
  OBVIOUS
<1>2. ASSUME NEW i \in Nat, i \in T PROVE i + 1 \in T
  <2> SUFFICES ASSUME i + 1 \in 1..m PROVE f[i + 1] = g[i + 1]
    OBVIOUS
  <2> DEFINE j == i + 1
  <2>1. /\ f[j] = IF j = 1 THEN s[j] ELSE f[j-1] \o s[j]
        /\ g[j] = IF j = 1 THEN s[j] ELSE g[j-1] \o s[j]
    BY DEF Joins
  <2>2. j # 1 => j - 1 = i /\ i \in 1..m
    OBVIOUS
  <2>3. j # 1 => f[j - 1] = g[j - 1]
    BY <1>2, <2>2
  <2> QED
    BY <2>1, <2>3
<1> HIDE DEF T
<1>3. Nat \subseteq T
  BY <1>1, <1>2, NatInduct
<1> QED
  BY <1>3 DEF T

\* FlattenSeq, which is defined by recursion, gives the last of them.
LEMMA FlattenIs ==
    ASSUME NEW S, NEW s \in Seq(Seq(S)), Len(s) # 0
    PROVE  \E f \in [1..Len(s) -> Seq(S)] : Joins(s, Len(s), f) /\ FlattenSeq(s) = f[Len(s)]
<1> DEFINE Unfolds(f) == f = [i \in 1..Len(s) |-> IF i = 1 THEN s[i] ELSE f[i-1] \o s[i]]
           g == CHOOSE f : Unfolds(f)
<1>1. FlattenSeq(s) = g[Len(s)]
  BY DEF FlattenSeq
<1>2. PICK f \in [1..Len(s) -> Seq(S)] : Joins(s, Len(s), f)
  BY JoinsExist
<1>3. Unfolds(f)
  BY <1>2 DEF Joins
<1> HIDE DEF Unfolds
<1>4. Unfolds(g)
  BY <1>3
<1> HIDE DEF g
<1>5. Joins(s, Len(s), g)
  <2> DEFINE e(i) == IF i = 1 THEN s[i] ELSE g[i-1] \o s[i]
  <2>1. g = [i \in 1..Len(s) |-> e(i)]
    BY <1>4 DEF Unfolds
  <2> HIDE DEF e
  <2>2. \A i \in 1..Len(s) : g[i] = e(i)
    BY <2>1
  <2> QED
    BY <2>2 DEF e, Joins
<1>6. f[Len(s)] = g[Len(s)]
  <2>1. Len(s) \in 1..Len(s) /\ Len(s) \in Nat
    OBVIOUS
  <2>2. \A i \in 1..Len(s) : f[i] = g[i]
    BY <1>2, <1>5, <2>1, JoinsAgree
  <2> QED
    BY <2>1, <2>2
<1> QED
  BY <1>1, <1>2, <1>6

\* What the first n sequences of s join to.
Joined(s, n) == FlattenSeq(SubSeq(s, 1, n))

\* No sequences join to the empty one.
LEMMA JoinedZero ==
    ASSUME NEW S, NEW s \in Seq(Seq(S))
    PROVE  Joined(s, 0) = <<>>
BY DEF Joined, FlattenSeq

\* All of them join to what FlattenSeq gives.
LEMMA JoinedAll ==
    ASSUME NEW S, NEW s \in Seq(Seq(S))
    PROVE  Joined(s, Len(s)) = FlattenSeq(s)
<1>1. SubSeq(s, 1, Len(s)) = s
  OBVIOUS
<1> QED
  BY <1>1 DEF Joined

\* The first n join to the n-th join.
LEMMA JoinedIs ==
    ASSUME NEW S, NEW s \in Seq(Seq(S)), NEW n \in 1..Len(s),
           NEW f, Joins(s, Len(s), f)
    PROVE  Joined(s, n) = f[n]
<1> DEFINE t == SubSeq(s, 1, n)
<1>1. t \in Seq(Seq(S)) /\ Len(t) = n /\ n # 0 /\ \A i \in 1..n : t[i] = s[i]
  OBVIOUS
<1> HIDE DEF t
<1>2. PICK g \in [1..n -> Seq(S)] : Joins(t, n, g) /\ FlattenSeq(t) = g[n]
  BY <1>1, FlattenIs
<1>3. Joins(s, n, g)
  BY <1>1, <1>2 DEF Joins
<1>4. Joins(s, n, f)
  <2>1. \A i \in 1..n : i \in 1..Len(s)
    OBVIOUS
  <2> QED
    BY <2>1 DEF Joins
<1>5. n \in Nat /\ n \in 1..n
  OBVIOUS
<1>6. f[n] = g[n]
  BY <1>3, <1>4, <1>5, JoinsAgree
<1> QED
  BY <1>2, <1>6 DEF Joined, t

\* Sequences over S join to one over S.
LEMMA JoinedType ==
    ASSUME NEW S, NEW s \in Seq(Seq(S)), NEW n \in 0..Len(s)
    PROVE  Joined(s, n) \in Seq(S)
<1>1. CASE n = 0
  <2>1. Joined(s, 0) = <<>> /\ <<>> \in Seq(S)
    BY JoinedZero
  <2> QED
    BY <1>1, <2>1
<1>2. CASE n # 0
  <2>1. n \in 1..Len(s) /\ Len(s) # 0
    BY <1>2
  <2>2. PICK f \in [1..Len(s) -> Seq(S)] : Joins(s, Len(s), f)
    BY <2>1, FlattenIs
  <2>3. Joined(s, n) = f[n]
    BY <2>1, <2>2, JoinedIs
  <2> QED
    BY <2>1, <2>2, <2>3
<1> QED
  BY <1>1, <1>2

\* The next sequence is joined at the end.
LEMMA JoinedNext ==
    ASSUME NEW S, NEW s \in Seq(Seq(S)), NEW n \in 0..Len(s) - 1
    PROVE  Joined(s, n + 1) = Joined(s, n) \o s[n + 1]
<1>1. n + 1 \in 1..Len(s) /\ (n + 1) - 1 = n /\ Len(s) # 0 /\ Len(s) \in Nat
  OBVIOUS
<1>2. PICK f \in [1..Len(s) -> Seq(S)] : Joins(s, Len(s), f)
  BY <1>1, FlattenIs
<1>3. f[n + 1] = IF n = 0 THEN s[n + 1] ELSE f[n] \o s[n + 1]
  <2> DEFINE j == n + 1
  <2>1. f[j] = IF j = 1 THEN s[j] ELSE f[j-1] \o s[j]
    BY <1>1, <1>2 DEF Joins
  <2>2. j - 1 = n /\ (j = 1 <=> n = 0)
    OBVIOUS
  <2> QED
    BY <2>1, <2>2
<1>4. Joined(s, n + 1) = f[n + 1]
  BY <1>1, <1>2, JoinedIs
<1>5. CASE n = 0
  <2>1. s[1] \in Seq(S) /\ s[n + 1] = s[1]
    BY <1>1, <1>5
  <2>2. <<>> \o s[1] = s[1]
    BY <2>1
  <2> QED
    BY <1>3, <1>4, <1>5, <2>1, <2>2, JoinedZero
<1>6. CASE n # 0
  <2>1. n \in 1..Len(s)
    BY <1>6
  <2>2. Joined(s, n) = f[n]
    BY <1>2, <2>1, JoinedIs
  <2> QED
    BY <1>3, <1>4, <1>6, <2>2
<1> QED
  BY <1>5, <1>6

\* What the first n join to is where all of them begin.
LEMMA JoinedBegins ==
    ASSUME NEW S, NEW s \in Seq(Seq(S)), NEW n \in 0..Len(s)
    PROVE  Stands(Joined(s, n), FlattenSeq(s), 0)
<1> DEFINE P(k) == Stands(Joined(s, k), FlattenSeq(s), 0)
           T == {d \in Nat : d <= Len(s) => P(Len(s) - d)}
<1>1. P(Len(s))
  <2>1. FlattenSeq(s) \in Seq(S) /\ Joined(s, Len(s)) = FlattenSeq(s)
    <3>1. Len(s) \in 0..Len(s)
      OBVIOUS
    <3> QED
      BY <3>1, JoinedType, JoinedAll
  <2>2. ASSUME NEW x \in Seq(S) PROVE Stands(x, x, 0)
    BY DEF Stands
  <2> QED
    BY <2>1, <2>2
<1>2. ASSUME NEW k \in 0..Len(s) - 1, P(k + 1) PROVE P(k)
  <2> DEFINE x == Joined(s, k)
             y == s[k + 1]
  <2>1. Joined(s, k + 1) = x \o y
    BY JoinedNext
  <2>2. x \in Seq(S) /\ y \in Seq(S)
    <3>1. k + 1 \in 1..Len(s) /\ k \in 0..Len(s)
      OBVIOUS
    <3> QED
      BY <3>1, JoinedType
  <2> HIDE DEF x, y
  <2>3. Len(x) \in Nat /\ Stands(x, x \o y, 0)
    BY <2>2, Parts
  <2>4. Stands(x \o y, FlattenSeq(s), 0)
    BY <1>2, <2>1, Zenon
  <2>5. Stands(x, FlattenSeq(s), 0 + 0)
    <3>1. 0 \in Int
      OBVIOUS
    <3> QED
      BY <2>3, <2>4, <3>1, StandsIn, Zenon
  <2> QED
    BY <2>5 DEF x
<1> HIDE DEF P
<1>3. 0 \in T
  <2>1. Len(s) - 0 = Len(s)
    OBVIOUS
  <2> QED
    BY <1>1, <2>1
<1>4. ASSUME NEW d \in Nat, d \in T PROVE d + 1 \in T
  <2> SUFFICES ASSUME d + 1 <= Len(s) PROVE P(Len(s) - (d + 1))
    OBVIOUS
  <2>1. Len(s) - (d + 1) \in 0..Len(s) - 1 /\ (Len(s) - (d + 1)) + 1 = Len(s) - d
    OBVIOUS
  <2>2. P(Len(s) - d)
    BY <1>4
  <2> QED
    BY <1>2, <2>1, <2>2
<1> HIDE DEF T
<1>5. Nat \subseteq T
  BY <1>3, <1>4, NatInduct
<1>6. Len(s) - n \in Nat /\ Len(s) - n <= Len(s) /\ Len(s) - (Len(s) - n) = n
  OBVIOUS
<1>7. P(n)
  BY <1>5, <1>6 DEF T
<1> QED
  BY <1>7 DEF P

\* The next sequence stands behind them.
LEMMA JoinedPart ==
    ASSUME NEW S, NEW s \in Seq(Seq(S)), NEW n \in 0..Len(s) - 1
    PROVE  /\ s[n + 1] \in Seq(S) /\ Len(s[n + 1]) \in Nat
           /\ Joined(s, n) \in Seq(S) /\ Len(Joined(s, n)) \in Nat
           /\ Len(Joined(s, n + 1)) = Len(Joined(s, n)) + Len(s[n + 1])
           /\ Stands(s[n + 1], FlattenSeq(s), Len(Joined(s, n)))
<1> DEFINE x == Joined(s, n)
           y == s[n + 1]
<1>1. n \in 0..Len(s) /\ n + 1 \in 1..Len(s) /\ n + 1 \in 0..Len(s)
  OBVIOUS
<1>2. Joined(s, n + 1) = x \o y
  BY JoinedNext
<1>3. x \in Seq(S) /\ y \in Seq(S)
  BY <1>1, JoinedType
<1>4. Stands(Joined(s, n + 1), FlattenSeq(s), 0)
  BY <1>1, JoinedBegins
<1> HIDE DEF x, y
<1>5. /\ Len(x) \in Nat /\ Len(y) \in Nat /\ Len(x \o y) = Len(x) + Len(y)
      /\ Stands(y, x \o y, Len(x))
  BY <1>3, Parts
<1>6. Stands(y, FlattenSeq(s), 0 + Len(x))
  <2>1. Stands(x \o y, FlattenSeq(s), 0)
    BY <1>2, <1>4, Zenon
  <2>2. 0 \in Int /\ Len(x) \in Int
    BY <1>5
  <2> QED
    BY <1>5, <2>1, <2>2, StandsIn, Zenon
<1>7. 0 + Len(x) = Len(x)
  BY <1>5
<1> QED
  BY <1>2, <1>3, <1>5, <1>6, <1>7 DEF x, y

\* When what s joins to is between a and b, the parts of all three stand there.
LEMMA JoinedBetween ==
    ASSUME NEW S, NEW s \in Seq(Seq(S)),
           NEW a \in Seq(S), NEW b \in Seq(S)
    PROVE  /\ Len(FlattenSeq(s)) \in Nat /\ Len(a) \in Nat /\ Len(b) \in Nat
           /\ a \o FlattenSeq(s) \o b \in Seq(S)
           /\ Len(a \o FlattenSeq(s) \o b) = Len(a) + Len(FlattenSeq(s)) + Len(b)
           /\ Stands(a, a \o FlattenSeq(s) \o b, 0)
           /\ Stands(b, a \o FlattenSeq(s) \o b, Len(a) + Len(FlattenSeq(s)))
           /\ Stands(FlattenSeq(s), a \o FlattenSeq(s) \o b, Len(a))
<1> DEFINE f == FlattenSeq(s)
           x == a \o f
           u == x \o b
<1>1. f \in Seq(S)
  <2>1. Len(s) \in 0..Len(s)
    OBVIOUS
  <2> QED
    BY <2>1, JoinedAll, JoinedType
<1> HIDE DEF f
<1>3. /\ x \in Seq(S) /\ Len(a) \in Nat /\ Len(f) \in Nat /\ Len(x) = Len(a) + Len(f)
      /\ Stands(a, x, 0) /\ Stands(f, x, Len(a))
  BY <1>1, Parts
<1> HIDE DEF x
<1>4. /\ x \o b \in Seq(S) /\ Len(x \o b) = Len(x) + Len(b)
      /\ Stands(x, x \o b, 0) /\ Stands(b, x \o b, Len(x))
  BY <1>3, Parts
<1> HIDE DEF u
<1>2. u \in Seq(S) /\ Len(u) = Len(x) + Len(b) /\ Stands(x, u, 0) /\ Stands(b, u, Len(x))
  BY <1>4 DEF u
<1>5. Stands(a, u, 0 + 0) /\ Stands(f, u, 0 + Len(a))
  <2>1. 0 \in Int /\ Len(a) \in Int
    BY <1>3
  <2> QED
    BY <1>2, <1>3, <2>1, StandsIn, Zenon
<1>6. 0 + Len(a) = Len(a) /\ 0 + 0 = 0
  BY <1>3
<1>7. Len(u) = Len(a) + Len(f) + Len(b)
  BY <1>2, <1>3
<1> QED
  BY <1>2, <1>3, <1>4, <1>5, <1>6, <1>7 DEF f, x, u

\* The next sequence, when the joined ones are between a and b.
LEMMA JoinedAt ==
    ASSUME NEW S, NEW s \in Seq(Seq(S)), NEW n \in 0..Len(s) - 1,
           NEW a \in Seq(S), NEW b \in Seq(S)
    PROVE  /\ s[n + 1] \in Seq(S)
           /\ Len(Joined(s, n)) \in Nat
           /\ Len(Joined(s, n + 1)) = Len(Joined(s, n)) + Len(s[n + 1])
           /\ Stands(s[n + 1], a \o FlattenSeq(s) \o b, Len(a) + Len(Joined(s, n)))
<1>1. /\ s[n + 1] \in Seq(S) /\ Len(s[n + 1]) \in Nat /\ Len(Joined(s, n)) \in Nat
      /\ Len(Joined(s, n + 1)) = Len(Joined(s, n)) + Len(s[n + 1])
      /\ Stands(s[n + 1], FlattenSeq(s), Len(Joined(s, n)))
  BY JoinedPart
<1>2. Stands(FlattenSeq(s), a \o FlattenSeq(s) \o b, Len(a)) /\ Len(a) \in Nat
  BY JoinedBetween
<1>3. Stands(s[n + 1], a \o FlattenSeq(s) \o b, Len(a) + Len(Joined(s, n)))
  <2>1. Len(a) \in Int /\ Len(Joined(s, n)) \in Int
    BY <1>1, <1>2
  <2> QED
    BY <1>1, <1>2, <2>1, StandsIn, Zenon
<1> QED
  BY <1>1, <1>3

\* What stands behind them.
LEMMA JoinedEnd ==
    ASSUME NEW S, NEW s \in Seq(Seq(S)),
           NEW a \in Seq(S), NEW b \in Seq(S)
    PROVE  /\ Len(Joined(s, Len(s))) \in Nat
           /\ Len(a \o FlattenSeq(s) \o b) = Len(a) + Len(Joined(s, Len(s))) + Len(b)
           /\ Stands(b, a \o FlattenSeq(s) \o b, Len(a) + Len(Joined(s, Len(s))))
<1>1. FlattenSeq(s) = Joined(s, Len(s))
  BY JoinedAll
<1> QED
  BY <1>1, JoinedBetween

\* Sequences that are the same up to n join to the same.
LEMMA JoinedSame ==
    ASSUME NEW S, NEW s \in Seq(Seq(S)), NEW t \in Seq(Seq(S)),
           NEW n \in 0..Len(s), n <= Len(t), \A i \in 1..n : s[i] = t[i]
    PROVE  Joined(s, n) = Joined(t, n)
<1>1. SubSeq(s, 1, n) = SubSeq(t, 1, n)
  OBVIOUS
<1> QED
  BY <1>1 DEF Joined

-----------------------------------------------------------------------------
(* Code units. *)

\* The bounds of an interval, so that the provers need not list its members.
LEMMA HighIs == \A x : x \in High <=> x \in Int /\ 55296 <= x /\ x <= 56319
<1> DEFINE lo == 55296
           hi == 56319
<1>1. High = lo..hi /\ lo = 55296 /\ hi = 56319
  BY DEF High
<1>2. lo \in Int /\ hi \in Int
  OBVIOUS
<1> HIDE DEF lo, hi
<1>3. \A x : x \in lo..hi <=> x \in Int /\ lo <= x /\ x <= hi
  BY <1>2
<1> QED
  BY <1>1, <1>3

LEMMA LowIs == \A x : x \in Low <=> x \in Int /\ 56320 <= x /\ x <= 57343
<1> DEFINE lo == 56320
           hi == 57343
<1>1. Low = lo..hi /\ lo = 56320 /\ hi = 57343
  BY DEF Low
<1>2. lo \in Int /\ hi \in Int
  OBVIOUS
<1> HIDE DEF lo, hi
<1>3. \A x : x \in lo..hi <=> x \in Int /\ lo <= x /\ x <= hi
  BY <1>2
<1> QED
  BY <1>1, <1>3

ScalarValue == {c \in Nat : IsScalar(c)}

\* Below the surrogates, between them and the supplementary planes, and from there.
LEMMA ScalarIs ==
    ASSUME NEW c \in Nat
    PROVE  c \in ScalarValue <=> \/ c < 55296
                                 \/ 57343 < c /\ c <= 1114111
BY HighIs, LowIs DEF ScalarValue, IsScalar

\* One code unit that is no half, or the two halves of a pair.
LEMMA UnitsOfIs ==
    ASSUME NEW c \in ScalarValue
    PROVE  \/ /\ UnitsOf(c) = <<c>> /\ c \in Int /\ c \notin High /\ c \notin Low
              /\ c < 65536
           \/ /\ ~(c < 65536)
              /\ \E h \in High, l \in Low :
                    /\ UnitsOf(c) = <<h, l>> /\ h \notin Low /\ l \notin High
                    /\ h \in Int /\ l \in Int /\ c = Combine(h, l)
<1>1. c \in Nat /\ c \notin High /\ c \notin Low /\ c <= 1114111
  BY DEF ScalarValue, IsScalar
<1>2. CASE c < 65536
  BY <1>1, <1>2 DEF UnitsOf
<1>3. CASE ~(c < 65536)
  <2> DEFINE d == c - 65536
             h == 55296 + d \div 1024
             l == 56320 + (d % 1024)
  <2>1. d \in Nat /\ d < 1024 * 1024 /\ c = 65536 + d
    BY <1>1, <1>3
  <2> HIDE DEF d
  <2>2. /\ d \div 1024 \in Nat /\ d \div 1024 < 1024 /\ d % 1024 \in Nat /\ d % 1024 < 1024
        /\ d = 1024 * (d \div 1024) + (d % 1024)
    BY <2>1
  <2>3. h \in High /\ l \in Low /\ h \notin Low /\ l \notin High /\ h \in Int /\ l \in Int
    BY <2>2, HighIs, LowIs
  <2>4. UnitsOf(c) = <<h, l>>
    BY <1>3 DEF UnitsOf, d
  <2>5. c = Combine(h, l)
    BY <2>1, <2>2 DEF Combine
  <2> HIDE DEF h, l
  <2> QED
    BY <1>3, <2>3, <2>4, <2>5
<1> QED
  BY <1>2, <1>3

\* Code units are integers.
LEMMA UnitsOfInts ==
    ASSUME NEW c \in ScalarValue
    PROVE  UnitsOf(c) \in Seq(Int)
<1>1. CASE UnitsOf(c) = <<c>> /\ c \in Int
  BY <1>1
<1>2. ASSUME NEW h \in High, NEW l \in Low, UnitsOf(c) = <<h, l>>, h \in Int, l \in Int
      PROVE  UnitsOf(c) \in Seq(Int)
  BY <1>2
<1> QED
  BY <1>1, <1>2, UnitsOfIs

\* A character more, and its code units at the end.
LEMMA Utf16Append ==
    ASSUME NEW s \in Seq(ScalarValue), NEW c \in ScalarValue
    PROVE  /\ Utf16(s) \in Seq(Int)
           /\ Utf16(Append(s, c)) = Utf16(s) \o UnitsOf(c)
<1> DEFINE Coded(r) == [i \in 1..Len(r) |-> UnitsOf(r[i])]
           t == Append(s, c)
           n == Len(s)
<1>1. /\ t \in Seq(ScalarValue) /\ Len(t) = n + 1 /\ t[n + 1] = c
      /\ n \in Nat /\ \A i \in 1..n : t[i] = s[i]
  OBVIOUS
<1>2. ASSUME NEW r \in Seq(ScalarValue)
      PROVE  /\ Coded(r) \in Seq(Seq(Int)) /\ Len(Coded(r)) = Len(r)
             /\ Utf16(r) = FlattenSeq(Coded(r))
  <2>1. \A i \in 1..Len(r) : UnitsOf(r[i]) \in Seq(Int)
    BY UnitsOfInts
  <2> QED
    BY <2>1 DEF Utf16
<1> HIDE DEF t
<1>3. /\ Coded(t) \in Seq(Seq(Int)) /\ Len(Coded(t)) = n + 1 /\ Utf16(t) = FlattenSeq(Coded(t))
  BY <1>1, <1>2
<1>4. /\ Coded(s) \in Seq(Seq(Int)) /\ Len(Coded(s)) = n /\ Utf16(s) = FlattenSeq(Coded(s))
  BY <1>2
<1>5. Coded(t)[n + 1] = UnitsOf(c) /\ \A i \in 1..n : Coded(s)[i] = Coded(t)[i]
  <2>1. n + 1 \in 1..Len(t) /\ \A i \in 1..n : i \in 1..Len(t) /\ i \in 1..Len(s)
    BY <1>1
  <2> QED
    BY <1>1, <2>1
<1> DEFINE a == Coded(t)
           b == Coded(s)
<1>6. /\ a \in Seq(Seq(Int)) /\ Len(a) = n + 1 /\ b \in Seq(Seq(Int)) /\ Len(b) = n
      /\ a[n + 1] = UnitsOf(c) /\ \A i \in 1..n : b[i] = a[i]
  BY <1>3, <1>4, <1>5
<1> HIDE DEF a, b, n
<1>7. /\ n \in 0..Len(a) - 1 /\ n \in 0..Len(b) /\ n <= Len(a) /\ n + 1 = Len(a)
  BY <1>1, <1>6
<1>8. Joined(b, n) = Joined(a, n)
  BY <1>6, <1>7, JoinedSame
<1>9. Joined(a, n + 1) = Joined(a, n) \o a[n + 1]
  BY <1>6, <1>7, JoinedNext
<1>10. Joined(b, n) = FlattenSeq(b) /\ Joined(a, n + 1) = FlattenSeq(a)
  BY <1>6, <1>7, JoinedAll
<1>11. FlattenSeq(b) \in Seq(Int)
  BY <1>6, <1>7, <1>10, JoinedType
<1>12. FlattenSeq(a) = FlattenSeq(b) \o UnitsOf(c)
  BY <1>6, <1>8, <1>9, <1>10
<1> QED
  BY <1>3, <1>4, <1>11, <1>12 DEF a, b, t

LEMMA Utf16Empty == Utf16(<<>>) = <<>>
<1> DEFINE w == [i \in 1..Len(<<>>) |-> UnitsOf(<<>>[i])]
<1>1. w \in Seq(Seq(Int)) /\ Len(w) = 0
  OBVIOUS
<1>2. Utf16(<<>>) = FlattenSeq(w)
  BY DEF Utf16
<1> HIDE DEF w
<1> QED
  BY <1>1, <1>2, JoinedAll, JoinedZero

-----------------------------------------------------------------------------
(* The order of member names. *)

\* A set of natural numbers below a bound has a greatest.
LEMMA MaxIs ==
    ASSUME NEW n \in Nat, NEW S \in SUBSET (0..n), S # {}
    PROVE  Max(S) \in S /\ \A k \in S : k <= Max(S)
<1> DEFINE HasMax(R) == \E x \in R : \A y \in R : x >= y
           T == {m \in Nat : \A R \in SUBSET (0..m) : R # {} => HasMax(R)}
<1>1. 0 \in T
  <2> SUFFICES ASSUME NEW R \in SUBSET (0..0), R # {} PROVE HasMax(R)
    OBVIOUS
  <2>1. PICK r \in R : TRUE
    OBVIOUS
  <2>2. \A y \in R : y = 0
    OBVIOUS
  <2>3. \A y \in R : r >= y
    BY <2>2
  <2> QED
    BY <2>3
<1>2. ASSUME NEW m \in Nat, m \in T PROVE m + 1 \in T
  <2> SUFFICES ASSUME NEW R \in SUBSET (0..m+1), R # {} PROVE HasMax(R)
    OBVIOUS
  <2>1. CASE m + 1 \in R
    <3>1. \A y \in R : m + 1 >= y
      OBVIOUS
    <3> QED
      BY <2>1, <3>1
  <2>2. CASE m + 1 \notin R
    <3>1. \A y \in R : y \in 0..m
      BY <2>2
    <3>2. R \in SUBSET (0..m)
      BY <3>1
    <3> HIDE DEF HasMax
    <3> QED
      BY <1>2, <3>2
  <2> QED
    BY <2>1, <2>2
<1> HIDE DEF T
<1>3. Nat \subseteq T
  BY <1>1, <1>2, NatInduct
<1>4. HasMax(S)
  <2> HIDE DEF HasMax
  <2> QED
    BY <1>3 DEF T
<1>5. PICK x \in S : \A y \in S : x >= y
  BY <1>4
<1>6. Max(S) \in S /\ \A y \in S : Max(S) >= y
  BY <1>5 DEF Max
<1> QED
  BY <1>6

\* x and y are the same in the first k places, and not in the one behind them.
DifferAt(x, y, k) ==
    /\ k \in 0..Len(x) /\ k <= Len(y) /\ \A i \in 1..k : x[i] = y[i]
    /\ k < Len(x) /\ k < Len(y) => x[k + 1] # y[k + 1]

\* Which is where Compare stops.
LEMMA CompareIs ==
    ASSUME NEW x \in Seq(Int), NEW y \in Seq(Int)
    PROVE  \E k \in Nat :
               /\ DifferAt(x, y, k)
               /\ Compare(x, y) = IF k < Len(x) /\ k < Len(y) THEN x[k + 1] - y[k + 1]
                                  ELSE Len(x) - Len(y)
<1> DEFINE S == {k \in 0..Len(x) : k <= Len(y) /\ \A i \in 1..k : x[i] = y[i]}
           k == Max(S)
<1>1. Len(x) \in Nat /\ Len(y) \in Nat /\ S \in SUBSET (0..Len(x)) /\ 0 \in S
  OBVIOUS
<1>2. k \in S /\ \A j \in S : j <= k
  <2> HIDE DEF S
  <2> QED
    BY <1>1, MaxIs
<1>3. Compare(x, y) = IF k < Len(x) /\ k < Len(y) THEN x[k + 1] - y[k + 1]
                      ELSE Len(x) - Len(y)
  BY DEF Compare
<1> HIDE DEF k
<1>4. ASSUME k < Len(x), k < Len(y), x[k + 1] = y[k + 1] PROVE FALSE
  <2>1. k \in Nat /\ \A i \in 1..k : x[i] = y[i]
    BY <1>2
  <2>2. \A i \in 1..k+1 : i = k + 1 \/ i \in 1..k
    BY <2>1
  <2>3. k + 1 \in S
    BY <1>1, <1>4, <2>1, <2>2
  <2>4. k + 1 <= k
    BY <1>2, <2>3
  <2> QED
    BY <2>1, <2>4
<1>5. DifferAt(x, y, k) /\ k \in Nat
  BY <1>2, <1>4 DEF DifferAt
<1> HIDE DEF S
<1> QED
  BY <1>3, <1>5

\* It is the lexicographic order.
LEMMA CompareLess ==
    ASSUME NEW x \in Seq(Int), NEW y \in Seq(Int)
    PROVE  Compare(x, y) \in Int /\ (Compare(x, y) < 0 <=> LexLess(x, y))
<1> DEFINE c == Compare(x, y)
<1>1. PICK k \in Nat :
          /\ DifferAt(x, y, k)
          /\ c = IF k < Len(x) /\ k < Len(y) THEN x[k + 1] - y[k + 1] ELSE Len(x) - Len(y)
  BY CompareIs
<1> HIDE DEF c
<1>2. /\ Len(x) \in Nat /\ Len(y) \in Nat
      /\ \A i \in 1..Len(x) : x[i] \in Int
      /\ \A i \in 1..Len(y) : y[i] \in Int
  OBVIOUS
<1>3. k <= Len(x) /\ k <= Len(y) /\ \A i \in 1..k : x[i] = y[i]
  BY <1>1 DEF DifferAt
<1>4. CASE k < Len(x) /\ k < Len(y)
  <2>1. c = x[k + 1] - y[k + 1] /\ x[k + 1] # y[k + 1] /\ x[k + 1] \in Int /\ y[k + 1] \in Int
    BY <1>1, <1>2, <1>4 DEF DifferAt
  <2>2. ASSUME c < 0 PROVE LexLess(x, y)
    BY <1>2, <1>3, <1>4, <2>1, <2>2 DEF LexLess
  <2>3. ASSUME LexLess(x, y) PROVE c < 0
    <3>1. PICK m \in 0..Len(x) : /\ m < Len(y) /\ \A i \in 1..m : x[i] = y[i]
                                 /\ m < Len(x) => x[m + 1] < y[m + 1]
      BY <2>3 DEF LexLess
    <3>2. ~(k < m)
      <4>1. k < m => k + 1 \in 1..m
        BY <3>1
      <4> QED
        BY <2>1, <3>1, <4>1
    <3>3. ~(m < k)
      <4>1. m < k => m + 1 \in 1..k /\ m + 1 \in 1..Len(x)
        BY <1>2, <1>3, <3>1
      <4> QED
        BY <1>2, <1>3, <3>1, <4>1
    <3>4. m = k
      BY <3>1, <3>2, <3>3
    <3> QED
      BY <1>4, <2>1, <3>1, <3>4
  <2> QED
    BY <2>1, <2>2, <2>3 DEF c
<1>5. CASE ~(k < Len(x) /\ k < Len(y))
  <2>1. c = Len(x) - Len(y)
    BY <1>1, <1>5
  <2>2. ASSUME c < 0 PROVE LexLess(x, y)
    <3>1. k = Len(x) /\ k < Len(y)
      BY <1>2, <1>3, <1>5, <2>1, <2>2
    <3> QED
      BY <1>2, <1>3, <3>1 DEF LexLess
  <2>3. ASSUME LexLess(x, y) PROVE c < 0
    <3>1. PICK m \in 0..Len(x) : /\ m < Len(y) /\ \A i \in 1..m : x[i] = y[i]
                                 /\ m < Len(x) => x[m + 1] < y[m + 1]
      BY <2>3 DEF LexLess
    <3>2. ~(m < k)
      <4>1. m < k => m + 1 \in 1..k /\ m + 1 \in 1..Len(x)
        BY <1>2, <1>3, <3>1
      <4> QED
        BY <1>2, <1>3, <3>1, <4>1
    <3> QED
      BY <1>2, <1>3, <1>5, <2>1, <3>1, <3>2
  <2> QED
    BY <1>2, <2>1, <2>2, <2>3 DEF c
<1> QED
  BY <1>4, <1>5

\* Nothing else than a sequence compares as equal to it.
LEMMA CompareEqual ==
    ASSUME NEW x \in Seq(Int), NEW y \in Seq(Int)
    PROVE  Compare(x, y) = 0 <=> x = y
<1> DEFINE c == Compare(x, y)
<1>1. PICK k \in Nat :
          /\ DifferAt(x, y, k)
          /\ c = IF k < Len(x) /\ k < Len(y) THEN x[k + 1] - y[k + 1] ELSE Len(x) - Len(y)
  BY CompareIs
<1> HIDE DEF c
<1>2. /\ Len(x) \in Nat /\ Len(y) \in Nat
      /\ \A i \in 1..Len(x) : x[i] \in Int
      /\ \A i \in 1..Len(y) : y[i] \in Int
  OBVIOUS
<1>3. k <= Len(x) /\ k <= Len(y) /\ \A i \in 1..k : x[i] = y[i]
  BY <1>1 DEF DifferAt
<1>4. CASE k < Len(x) /\ k < Len(y)
  <2>1. c = x[k + 1] - y[k + 1] /\ x[k + 1] # y[k + 1] /\ x[k + 1] \in Int /\ y[k + 1] \in Int
    BY <1>1, <1>2, <1>4 DEF DifferAt
  <2>2. c # 0 /\ x # y
    BY <2>1
  <2> QED
    BY <2>2 DEF c
<1>5. CASE ~(k < Len(x) /\ k < Len(y))
  <2>1. c = Len(x) - Len(y)
    BY <1>1, <1>5
  <2>2. c = 0 => k = Len(x) /\ k = Len(y)
    BY <1>2, <1>3, <1>5, <2>1
  <2>3. c = 0 => x = y
    BY <1>3, <2>2, SeqEqual
  <2>4. x = y => c = 0
    BY <1>2, <2>1
  <2> QED
    BY <2>3, <2>4 DEF c
<1> QED
  BY <1>4, <1>5

\* Of two that differ one is less.
LEMMA LexLessTotal ==
    ASSUME NEW x \in Seq(Int), NEW y \in Seq(Int)
    PROVE  LexLess(x, y) \/ LexLess(y, x) \/ x = y
<1>1. PICK k \in Nat : DifferAt(x, y, k)
  BY CompareIs
<1>2. /\ Len(x) \in Nat /\ Len(y) \in Nat
      /\ \A i \in 1..Len(x) : x[i] \in Int
      /\ \A i \in 1..Len(y) : y[i] \in Int
  OBVIOUS
<1>3. k <= Len(x) /\ k <= Len(y) /\ \A i \in 1..k : x[i] = y[i]
  BY <1>1 DEF DifferAt
<1>4. CASE k < Len(x) /\ k < Len(y)
  <2>1. x[k + 1] # y[k + 1] /\ x[k + 1] \in Int /\ y[k + 1] \in Int
    BY <1>1, <1>2, <1>4 DEF DifferAt
  <2>2. x[k + 1] < y[k + 1] \/ y[k + 1] < x[k + 1]
    BY <2>1
  <2> QED
    BY <1>2, <1>3, <1>4, <2>2 DEF LexLess
<1>5. CASE k = Len(x) /\ k < Len(y)
  BY <1>2, <1>3, <1>5 DEF LexLess
<1>6. CASE k < Len(x) /\ k = Len(y)
  BY <1>2, <1>3, <1>6 DEF LexLess
<1>7. CASE k = Len(x) /\ k = Len(y)
  BY <1>3, <1>7, SeqEqual
<1> QED
  BY <1>2, <1>3, <1>4, <1>5, <1>6, <1>7

\* None is less than itself.
LEMMA LexLessStrict ==
    ASSUME NEW x \in Seq(Int)
    PROVE  ~LexLess(x, x)
<1>1. Compare(x, x) = 0
  BY CompareEqual
<1> QED
  BY <1>1, CompareLess

LEMMA LexLessTransitive ==
    ASSUME NEW x \in Seq(Int), NEW y \in Seq(Int), NEW z \in Seq(Int),
           LexLess(x, y), LexLess(y, z)
    PROVE  LexLess(x, z)
<1>1. /\ Len(x) \in Nat /\ Len(y) \in Nat /\ Len(z) \in Nat
      /\ \A i \in 1..Len(x) : x[i] \in Int
      /\ \A i \in 1..Len(y) : y[i] \in Int
      /\ \A i \in 1..Len(z) : z[i] \in Int
  OBVIOUS
<1>2. PICK m \in 0..Len(x) : /\ m < Len(y) /\ \A i \in 1..m : x[i] = y[i]
                             /\ m < Len(x) => x[m + 1] < y[m + 1]
  BY DEF LexLess
<1>3. PICK n \in 0..Len(y) : /\ n < Len(z) /\ \A i \in 1..n : y[i] = z[i]
                             /\ n < Len(y) => y[n + 1] < z[n + 1]
  BY DEF LexLess
<1>4. CASE m <= n
  <2>1. m < Len(z) /\ \A i \in 1..m : i \in 1..n /\ x[i] = z[i]
    BY <1>2, <1>3, <1>4
  <2>2. m < Len(x) => x[m + 1] < z[m + 1]
    <3>1. CASE m = n
      BY <1>1, <1>2, <1>3, <3>1
    <3>2. CASE m < n
      <4>1. m + 1 \in 1..n
        BY <3>2, <1>2, <1>3
      <4> QED
        BY <1>2, <1>3, <4>1
    <3> QED
      BY <1>2, <1>3, <1>4, <3>1, <3>2
  <2> QED
    BY <2>1, <2>2 DEF LexLess
<1>5. CASE n < m
  <2>1. n \in 0..Len(x) /\ n < Len(z) /\ n + 1 \in 1..m /\ \A i \in 1..n : i \in 1..m /\ x[i] = z[i]
    BY <1>2, <1>3, <1>5
  <2>2. x[n + 1] < z[n + 1]
    BY <1>2, <1>3, <1>5, <2>1
  <2> QED
    BY <2>1, <2>2 DEF LexLess
<1> QED
  BY <1>2, <1>3, <1>4, <1>5

\* A scalar value has one sequence of code units, and no other has it.
LEMMA UnitsOfDiffer ==
    ASSUME NEW c \in ScalarValue, NEW d \in ScalarValue, UnitsOf(c) = UnitsOf(d)
    PROVE  c = d
<1>1. CASE c < 65536 /\ d < 65536
  BY <1>1 DEF UnitsOf
<1>2. CASE ~(c < 65536) /\ ~(d < 65536)
  <2>1. PICK h \in High, l \in Low : UnitsOf(c) = <<h, l>> /\ c = Combine(h, l)
    BY <1>2, UnitsOfIs
  <2>2. PICK g \in High, m \in Low : UnitsOf(d) = <<g, m>> /\ d = Combine(g, m)
    BY <1>2, UnitsOfIs
  <2>3. <<h, l>> = <<g, m>>
    BY <2>1, <2>2, Zenon
  <2>4. h = g /\ l = m
    BY <2>3, Zenon
  <2> QED
    BY <2>1, <2>2, <2>4, Zenon
<1>3. CASE c < 65536 /\ ~(d < 65536)
  BY <1>3 DEF UnitsOf
<1>4. CASE ~(c < 65536) /\ d < 65536
  BY <1>4 DEF UnitsOf
<1> QED
  BY <1>1, <1>2, <1>3, <1>4

\* Where u ends in the code units of a character, one that is in no pair ends it.
LEMMA LastUnits ==
    ASSUME NEW x \in Seq(Int), NEW y \in Seq(Int), NEW c \in ScalarValue, NEW d \in ScalarValue,
           x \o UnitsOf(c) = y \o UnitsOf(d)
    PROVE  x = y /\ c = d
<1> DEFINE u == UnitsOf(c)
           v == UnitsOf(d)
<1>1. u \in Seq(Int) /\ v \in Seq(Int)
  BY UnitsOfInts
<1>2. /\ Len(u) \in 1..2 /\ (u[Len(u)] \in Low <=> Len(u) = 2)
      /\ Len(v) \in 1..2 /\ (v[Len(v)] \in Low <=> Len(v) = 2)
  <2>1. ASSUME NEW e \in ScalarValue
        PROVE  Len(UnitsOf(e)) \in 1..2 /\ (UnitsOf(e)[Len(UnitsOf(e))] \in Low <=> Len(UnitsOf(e)) = 2)
    <3>1. CASE UnitsOf(e) = <<e>> /\ e \notin Low
      BY <3>1
    <3>2. ASSUME NEW h \in High, NEW l \in Low, UnitsOf(e) = <<h, l>>
          PROVE  Len(UnitsOf(e)) \in 1..2 /\ (UnitsOf(e)[Len(UnitsOf(e))] \in Low <=> Len(UnitsOf(e)) = 2)
      BY <3>2
    <3> QED
      BY <3>1, <3>2, UnitsOfIs
  <2> QED
    BY <2>1
<1> DEFINE w == x \o u
<1>3. w = y \o v
  OBVIOUS
<1> HIDE DEF u, v
<1>4. /\ Len(x) \in Nat /\ Len(y) \in Nat /\ Len(w) = Len(x) + Len(u) /\ Len(w) = Len(y) + Len(v)
      /\ w[Len(w)] = u[Len(u)] /\ w[Len(w)] = v[Len(v)]
  <2>1. ASSUME NEW a \in Seq(Int), NEW b \in Seq(Int), Len(b) \in 1..2
        PROVE  Len(a) \in Nat /\ Len(a \o b) = Len(a) + Len(b) /\ (a \o b)[Len(a \o b)] = b[Len(b)]
    <3>1. Len(a \o b) = Len(a) + Len(b) /\ Len(a) \in Nat
      OBVIOUS
    <3>3. Len(b) \in 1..Len(b) /\ Len(b) \in Nat
      <4> DEFINE n == Len(b)
      <4>1. n \in 1..2
        BY <2>1
      <4> HIDE DEF n
      <4>2. n \in 1..n /\ n \in Nat
        BY <4>1
      <4> QED
        BY <4>2 DEF n
    <3>2. \A i \in 1..Len(b) : (a \o b)[Len(a) + i] = b[i]
      OBVIOUS
    <3> QED
      BY <3>1, <3>2, <3>3
  <2> HIDE DEF w
  <2>2. w = x \o u
    BY DEF w
  <2> QED
    BY <1>1, <1>2, <1>3, <2>1, <2>2
<1>5. Len(u) = Len(v) /\ Len(x) = Len(y)
  BY <1>2, <1>4
<1>6. x = y
  <2>1. \A i \in 1..Len(x) : w[i] = x[i]
    BY <1>1
  <2>2. \A i \in 1..Len(y) : w[i] = y[i]
    BY <1>1, <1>3
  <2> HIDE DEF w
  <2> QED
    BY <1>5, <2>1, <2>2, SeqEqual
<1>7. u = v
  <2>1. \A i \in 1..Len(u) : w[Len(x) + i] = u[i]
    BY <1>1
  <2>2. \A i \in 1..Len(v) : w[Len(y) + i] = v[i]
    BY <1>1, <1>3
  <2> HIDE DEF w
  <2>3. \A i \in 1..Len(u) : u[i] = v[i]
    BY <1>5, <2>1, <2>2
  <2> QED
    BY <1>1, <1>5, <2>3, SeqEqual
<1> QED
  BY <1>6, <1>7, UnitsOfDiffer DEF u, v

\* A sequence that is not empty ends in its last element.
LEMMA LastOfSeq ==
    ASSUME NEW S, NEW s \in Seq(S), s # <<>>
    PROVE  /\ SubSeq(s, 1, Len(s) - 1) \in Seq(S) /\ s[Len(s)] \in S
           /\ s = Append(SubSeq(s, 1, Len(s) - 1), s[Len(s)])
           /\ Len(SubSeq(s, 1, Len(s) - 1)) = Len(s) - 1
<1> DEFINE n == Len(s)
           r == SubSeq(s, 1, n - 1)
<1>1. n \in Nat /\ n # 0 /\ n \in 1..Len(s)
  OBVIOUS
<1>2. s[n] \in S
  BY <1>1
<1>3. r \in Seq(S) /\ Len(r) = n - 1 /\ \A i \in 1..n-1 : r[i] = s[i]
  <2>1. ASSUME NEW m \in 0..Len(s)
        PROVE  SubSeq(s, 1, m) \in Seq(S) /\ Len(SubSeq(s, 1, m)) = m
               /\ \A i \in 1..m : SubSeq(s, 1, m)[i] = s[i]
    OBVIOUS
  <2>2. n - 1 \in 0..Len(s)
    BY <1>1
  <2> QED
    BY <2>1, <2>2
<1> HIDE DEF r
<1>4. Append(r, s[n]) \in Seq(S) /\ Len(Append(r, s[n])) = n
  BY <1>1, <1>2, <1>3
<1>5. \A i \in 1..n : Append(r, s[n])[i] = s[i]
  BY <1>1, <1>3
<1>6. s = Append(r, s[n])
  BY <1>4, <1>5, SeqEqual
<1> QED
  BY <1>2, <1>3, <1>6 DEF r

\* Strings that differ have code units that differ, by induction on their length.
LEMMA Utf16Differ ==
    ASSUME NEW s \in Seq(ScalarValue), NEW t \in Seq(ScalarValue), Utf16(s) = Utf16(t)
    PROVE  s = t
<1> DEFINE P(n) == \A a, b \in Seq(ScalarValue) :
                      Len(a) = n /\ Utf16(a) = Utf16(b) => a = b
           T == {n \in Nat : P(n)}
<1>0. ASSUME NEW a \in Seq(ScalarValue), a # <<>>
      PROVE  \E r \in Seq(ScalarValue), c \in ScalarValue :
                 /\ a = Append(r, c) /\ Len(r) = Len(a) - 1
                 /\ Utf16(r) \in Seq(Int) /\ Utf16(a) = Utf16(r) \o UnitsOf(c) /\ Utf16(a) # <<>>
  <2> DEFINE r == SubSeq(a, 1, Len(a) - 1)
             c == a[Len(a)]
  <2>1. r \in Seq(ScalarValue) /\ c \in ScalarValue /\ a = Append(r, c) /\ Len(r) = Len(a) - 1
    BY <1>0, LastOfSeq
  <2> HIDE DEF r, c
  <2>2. Utf16(r) \in Seq(Int) /\ Utf16(a) = Utf16(r) \o UnitsOf(c)
    BY <2>1, Utf16Append
  <2>3. UnitsOf(c) \in Seq(Int) /\ UnitsOf(c) # <<>>
    BY <2>1, UnitsOfInts DEF UnitsOf
  <2>4. Utf16(r) \o UnitsOf(c) # <<>>
    BY <2>2, <2>3
  <2> QED
    BY <2>1, <2>2, <2>4
<1>1. 0 \in T
  <2> SUFFICES ASSUME NEW a \in Seq(ScalarValue), NEW b \in Seq(ScalarValue),
                      Len(a) = 0, Utf16(a) = Utf16(b)
               PROVE  a = b
    OBVIOUS
  <2>1. a = <<>>
    OBVIOUS
  <2> QED
    BY <1>0, <2>1, Utf16Empty
<1>2. ASSUME NEW n \in Nat, n \in T PROVE n + 1 \in T
  <2> SUFFICES ASSUME NEW a \in Seq(ScalarValue), NEW b \in Seq(ScalarValue),
                      Len(a) = n + 1, Utf16(a) = Utf16(b)
               PROVE  a = b
    OBVIOUS
  <2>1. a # <<>>
    OBVIOUS
  <2>2. b # <<>>
    BY <1>0, <2>1, Utf16Empty
  <2>3. PICK r \in Seq(ScalarValue), c \in ScalarValue :
            /\ a = Append(r, c) /\ Len(r) = Len(a) - 1
            /\ Utf16(r) \in Seq(Int) /\ Utf16(a) = Utf16(r) \o UnitsOf(c)
    BY <1>0, <2>1
  <2>4. PICK q \in Seq(ScalarValue), d \in ScalarValue :
            b = Append(q, d) /\ Utf16(q) \in Seq(Int) /\ Utf16(b) = Utf16(q) \o UnitsOf(d)
    BY <1>0, <2>2
  <2>5. Utf16(r) = Utf16(q) /\ c = d
    <3>1. Utf16(r) \o UnitsOf(c) = Utf16(q) \o UnitsOf(d)
      BY <2>3, <2>4, Zenon
    <3>2. \A x, y \in Seq(Int) : x \o UnitsOf(c) = y \o UnitsOf(d) => x = y /\ c = d
      BY LastUnits, Zenon
    <3> QED
      BY <2>3, <2>4, <3>1, <3>2, Zenon
  <2>6. Len(r) = n
    BY <2>3
  <2> QED
    BY <1>2, <2>3, <2>4, <2>5, <2>6
<1> HIDE DEF T
<1>3. Nat \subseteq T
  BY <1>1, <1>2, NatInduct
<1>4. Len(s) \in T
  BY <1>3
<1> QED
  BY <1>4 DEF T

\* The code units of a string.
LEMMA Utf16Type ==
    ASSUME NEW s \in Seq(ScalarValue)
    PROVE  Utf16(s) \in Seq(Int)
<1>1. CASE s = <<>>
  <2>1. <<>> \in Seq(Int)
    OBVIOUS
  <2> QED
    BY <1>1, <2>1, Utf16Empty, Zenon
<1>2. CASE s # <<>>
  <2>1. /\ SubSeq(s, 1, Len(s) - 1) \in Seq(ScalarValue) /\ s[Len(s)] \in ScalarValue
        /\ s = Append(SubSeq(s, 1, Len(s) - 1), s[Len(s)])
    BY <1>2, LastOfSeq
  <2>2. /\ Utf16(SubSeq(s, 1, Len(s) - 1)) \in Seq(Int)
        /\ Utf16(s) = Utf16(SubSeq(s, 1, Len(s) - 1)) \o UnitsOf(s[Len(s)])
    BY <2>1, Utf16Append
  <2> QED
    BY <2>1, <2>2, UnitsOfInts
<1> QED
  BY <1>1, <1>2
=============================================================================

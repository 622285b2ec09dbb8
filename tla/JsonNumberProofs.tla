-------------------------- MODULE JsonNumberProofs --------------------------
(***************************************************************************)
(* Proofs about JsonNumber, for texts of any length: parse_number accepts what  *)
(* is a number that a double keeps, and nothing else; and what write_number     *)
(* makes of it has ECMAScript's form and is parsed to the same double.          *)
(***************************************************************************)
EXTENDS JsonNumber, TLAPS, SequenceTheorems, NaturalsInduction, WellFoundedInduction

-----------------------------------------------------------------------------
(* Sets of natural numbers. *)

\* A set of natural numbers with an element has a least one.
LEMMA LeastExists ==
    ASSUME NEW I \in SUBSET Nat, I # {}
    PROVE  \E m \in I : \A i \in I : m <= i
<1> DEFINE R == OpToRel(<, Nat)
<1>1. IsWellFoundedOn(R, Nat)
  BY NatLessThanWellFounded
<1>2. \A x, y \in Nat : x < y => <<x, y>> \in R
  BY DEF OpToRel
<1> HIDE DEF R
<1>3. PICK m \in I : \A i \in I : ~(<<i, m>> \in R)
  BY <1>1, WFMin
<1>4. \A i \in I : ~(i < m)
  BY <1>2, <1>3
<1> QED
  BY <1>4

\* Induction over the natural numbers, for a set.
LEMMA NatInduct ==
    ASSUME NEW S, 0 \in S, \A n \in Nat : n \in S => n + 1 \in S
    PROVE  Nat \subseteq S
<1> DEFINE U == Nat \ S
<1> SUFFICES ASSUME U # {} PROVE FALSE
  OBVIOUS
<1>1. PICK m \in U : \A i \in U : m <= i
  BY LeastExists
<1>2. m # 0 /\ m - 1 \in Nat /\ ~(m <= m - 1) /\ (m - 1) + 1 = m
  OBVIOUS
<1> QED
  BY <1>1, <1>2

\* Min, which is chosen, is the least element.
LEMMA MinIs ==
    ASSUME NEW I \in SUBSET Nat, I # {}
    PROVE  Min(I) \in I /\ \A i \in I : Min(I) <= i
BY LeastExists DEF Min

\* And Max the greatest, below a bound.
LEMMA MaxIs ==
    ASSUME NEW n \in Nat, NEW I \in SUBSET (1..n), I # {}
    PROVE  Max(I) \in I /\ \A i \in I : Max(I) >= i
<1> DEFINE J == {n - i : i \in I}
<1>1. J \in SUBSET Nat /\ J # {}
  <2>1. ASSUME NEW i \in I PROVE n - i \in Nat
    <3>1. i \in 1..n
      OBVIOUS
    <3> QED
      BY <3>1
  <2> QED
    BY <2>1
<1>2. PICK m \in J : \A i \in J : m <= i
  BY <1>1, LeastExists
<1>3. PICK j \in I : m = n - j
  BY <1>2
<1>4. \A i \in I : n - i \in J
  OBVIOUS
<1> HIDE DEF J
<1>5. ASSUME NEW i \in I PROVE j >= i
  <2>1. n - j <= n - i
    BY <1>2, <1>3, <1>4
  <2>2. i \in Int /\ j \in Int
    OBVIOUS
  <2> QED
    BY <2>1, <2>2
<1> QED
  BY <1>5 DEF Max

-----------------------------------------------------------------------------
(* Positions in sequences. *)

\* PositionOf gives the first element in S.
LEMMA PositionIs ==
    ASSUME NEW C, NEW s \in Seq(C), NEW S
    PROVE  /\ PositionOf(s, S) \in 1..Len(s) + 1
           /\ \A i \in 1..PositionOf(s, S) - 1 : s[i] \notin S
           /\ PositionOf(s, S) <= Len(s) => s[PositionOf(s, S)] \in S
<1> DEFINE I == {i \in 1..Len(s) : s[i] \in S}
<1>1. Len(s) \in Nat /\ DOMAIN s = 1..Len(s)
  OBVIOUS
<1>2. ToSet(s) \cap S = {} <=> I = {}
  BY <1>1 DEF ToSet
<1>3. CASE I = {}
  <2>1. PositionOf(s, S) = Len(s) + 1
    BY <1>2, <1>3 DEF PositionOf
  <2>2. \A i \in 1..(Len(s) + 1) - 1 : i \in 1..Len(s) /\ s[i] \notin S
    BY <1>1, <1>3
  <2> QED
    BY <1>1, <2>1, <2>2
<1>4. CASE I # {}
  <2>1. PositionOf(s, S) = Min(I)
    BY <1>2, <1>4 DEF PositionOf, SelectInSeq
  <2>2. I \in SUBSET Nat
    OBVIOUS
  <2> DEFINE m == Min(I)
  <2>3. m \in I /\ \A i \in I : m <= i
    BY <1>4, <2>2, MinIs
  <2>4. m \in 1..Len(s) /\ s[m] \in S
    BY <2>3
  <2>5. \A i \in 1..m - 1 : i \in 1..Len(s) /\ ~(m <= i)
    BY <1>1, <2>4
  <2>6. \A i \in 1..m - 1 : s[i] \notin S
    BY <2>3, <2>5
  <2> QED
    BY <1>1, <2>1, <2>4, <2>6
<1> QED
  BY <1>3, <1>4

\* And whatever is the first is what PositionOf gives.
LEMMA PositionUnique ==
    ASSUME NEW C, NEW s \in Seq(C), NEW S, NEW q \in 1..Len(s) + 1,
           \A i \in 1..q - 1 : s[i] \notin S, q <= Len(s) => s[q] \in S
    PROVE  PositionOf(s, S) = q
<1> DEFINE p == PositionOf(s, S)
<1>1. /\ p \in 1..Len(s) + 1
      /\ \A i \in 1..p - 1 : s[i] \notin S
      /\ p <= Len(s) => s[p] \in S
  BY PositionIs
<1>2. Len(s) \in Nat
  OBVIOUS
<1> HIDE DEF p
<1>3. ~(p < q)
  <2> SUFFICES ASSUME p < q PROVE FALSE
    OBVIOUS
  <2>1. p \in 1..q - 1 /\ p <= Len(s)
    BY <1>1, <1>2
  <2> QED
    BY <1>1, <2>1
<1>4. ~(q < p)
  <2> SUFFICES ASSUME q < p PROVE FALSE
    OBVIOUS
  <2>1. q \in 1..p - 1 /\ q <= Len(s)
    BY <1>1, <1>2
  <2> QED
    BY <1>1, <2>1
<1>5. p = q
  BY <1>1, <1>2, <1>3, <1>4
<1> QED
  BY <1>5 DEF p

\* A sequence whose elements are in D.
LEMMA ElementsIn ==
    ASSUME NEW C, NEW t \in Seq(C), NEW D, \A i \in 1..Len(t) : t[i] \in D
    PROVE  t \in Seq(D)
<1>1. Len(t) \in Nat /\ t = [i \in 1..Len(t) |-> t[i]]
  OBVIOUS
<1>2. [i \in 1..Len(t) |-> t[i]] \in [1..Len(t) -> D]
  OBVIOUS
<1> QED
  BY <1>1, <1>2

\* All of s from i up to j are digits.
DigitsAt(s, i, j) == \A l \in i..j : s[l] \in Digit

\* A part of a sequence, and when it is one digit or more.
LEMMA PartIs ==
    ASSUME NEW C, NEW s \in Seq(C), NEW i \in Nat, NEW j \in Nat, i > 0, j <= Len(s)
    PROVE  /\ SubSeq(s, i, j) \in Seq(C)
           /\ Len(SubSeq(s, i, j)) = IF i <= j THEN j - i + 1 ELSE 0
           /\ \A l \in 1..Len(SubSeq(s, i, j)) : SubSeq(s, i, j)[l] = s[i + l - 1]
           /\ AreDigits(SubSeq(s, i, j)) <=> i <= j /\ DigitsAt(s, i, j)
<1> DEFINE t == SubSeq(s, i, j)
<1>1. t \in Seq(C) /\ Len(t) = IF i <= j THEN j - i + 1 ELSE 0
  OBVIOUS
<1>2. \A l \in 1..Len(t) : t[l] = s[i + l - 1]
  OBVIOUS
<1> HIDE DEF t
<1>3. t = <<>> <=> ~(i <= j)
  BY <1>1
<1>4. ASSUME i <= j PROVE ToSet(t) \subseteq Digit <=> DigitsAt(s, i, j)
  <2>1. Len(t) = j - i + 1 /\ DOMAIN t = 1..Len(t)
    BY <1>1, <1>4
  <2>2. ASSUME ToSet(t) \subseteq Digit, NEW l \in i..j PROVE s[l] \in Digit
    <3>1. l - i + 1 \in 1..Len(t) /\ i + (l - i + 1) - 1 = l
      BY <2>1
    <3>2. t[l - i + 1] = s[l]
      BY <1>2, <3>1
    <3> QED
      BY <2>1, <2>2, <3>1, <3>2 DEF ToSet
  <2>3. ASSUME DigitsAt(s, i, j), NEW l \in 1..Len(t) PROVE t[l] \in Digit
    <3>1. i + l - 1 \in i..j
      BY <2>1
    <3> QED
      BY <1>2, <2>3, <3>1 DEF DigitsAt
  <2> QED
    BY <2>1, <2>2, <2>3 DEF ToSet, DigitsAt
<1>5. AreDigits(t) <=> i <= j /\ DigitsAt(s, i, j)
  BY <1>3, <1>4 DEF AreDigits
<1> QED
  BY <1>1, <1>2, <1>5 DEF t

-----------------------------------------------------------------------------
(* The shape of a number. *)

\* The digits by name.
LEMMA DigitIs == Digit = {"0", "1", "2", "3", "4", "5", "6", "7", "8", "9"}
<1>1. Digit = {Numerals[i] : i \in 1..10}
  BY DEF Digit, ToSet, Numerals
<1>2. 1..10 = {1, 2, 3, 4, 5, 6, 7, 8, 9, 10}
  OBVIOUS
<1> QED
  BY <1>1, <1>2 DEF Numerals

\* What is no digit.
LEMMA NoDigit ==
    /\ "-" \notin Digit /\ "+" \notin Digit /\ "." \notin Digit
    /\ "e" \notin Digit /\ "E" \notin Digit /\ "end" \notin Digit
    /\ "," \notin Digit /\ "]" \notin Digit /\ "}" \notin Digit /\ " " \notin Digit
    /\ "0" \in Digit
BY DigitIs

\* What JsonNumberAssumption says of the characters, and what it says of the limits.
LEMMA CharactersAre ==
    /\ Digit \cup {"-", "+", ".", "e"} \subseteq Characters /\ "end" \notin Characters
    /\ Texts \subseteq Seq(Characters)
BY JsonNumberAssumption

LEMMA LimitsAre == MaxPoint \in Nat /\ LowPoint \in Nat /\ MaxPoint < 1000 /\ LowPoint < 999
BY JsonNumberAssumption

\* The point of a zero, and of every double.
LEMMA PointIs == 0 \in Point /\ Point \subseteq Int
BY LimitsAre DEF Point

\* The first n elements of s are a number: its integer part begins at a and ends
\* before f, its fraction ends before e, and the digits of its exponent begin at x.
Shape(s, n, a, f, e, x) ==
    /\ a < f /\ f <= e /\ e <= n + 1
    /\ a = IF s[1] = "-" THEN 2 ELSE 1
    /\ DigitsAt(s, a, f - 1)
    /\ s[a] = "0" => f = a + 1
    /\ f < e => s[f] = "." /\ f + 1 < e /\ DigitsAt(s, f + 1, e - 1)
    /\ x = IF e < n /\ s[e + 1] \in {"+", "-"} THEN e + 2 ELSE e + 1
    /\ e <= n => s[e] \in {"e", "E"} /\ x <= n /\ DigitsAt(s, x, n)

\* Parts takes a number apart by its shape.
LEMMA ShapeParts ==
    ASSUME NEW C, NEW s \in Seq(C), NEW a \in Nat, NEW f \in Nat, NEW e \in Nat,
           NEW x \in Nat, Shape(s, Len(s), a, f, e, x)
    PROVE  Parts(s) = [negative |-> a = 2,
                       int |-> SubSeq(s, a, f - 1),
                       pointed |-> f < e, fraction |-> SubSeq(s, f + 1, e - 1),
                       scaled |-> e <= Len(s), down |-> x = e + 2 /\ s[e + 1] = "-",
                       exponent |-> SubSeq(s, x, Len(s))]
<1> DEFINE n == Len(s)
<1>1. n \in Nat /\ a \in {1, 2} /\ a < f /\ f <= e /\ e <= n + 1 /\ s # <<>>
  BY DEF Shape
<1>2. ASSUME NEW i \in 1..e - 1, i # f \/ f = e
      PROVE  s[i] \in Digit \cup {"-"}
  <2>1. CASE i < a
    <3>1. i = 1 /\ a = 2
      BY <1>1, <2>1
    <3> QED
      BY <3>1 DEF Shape
  <2>2. CASE i \in a..f - 1
    BY <2>2 DEF Shape, DigitsAt
  <2>3. CASE i \in f + 1..e - 1
    <3>1. f < e
      BY <1>1, <2>3
    <3> QED
      BY <2>3, <3>1 DEF Shape, DigitsAt
  <2> QED
    BY <1>1, <1>2, <2>1, <2>2, <2>3
<1>3. f < e => s[f] = "."
  BY DEF Shape
<1>4. PositionOf(s, {"e", "E"}) = e
  <2>1. e \in 1..n + 1
    BY <1>1
  <2>2. ASSUME NEW i \in 1..e - 1 PROVE s[i] \notin {"e", "E"}
    <3>1. CASE i # f \/ f = e
      <4>1. s[i] \in Digit \cup {"-"}
        BY <1>2, <3>1
      <4> QED
        BY <4>1, NoDigit
    <3>2. CASE i = f /\ f # e
      BY <1>1, <1>3, <3>2
    <3> QED
      BY <3>1, <3>2
  <2>3. e <= n => s[e] \in {"e", "E"}
    BY DEF Shape
  <2> QED
    BY <2>1, <2>2, <2>3, PositionUnique
<1> DEFINE t == SubSeq(s, 1, e - 1)
<1>5. PositionOf(t, {"."}) = f
  <2>1. t \in Seq(C) /\ Len(t) = e - 1 /\ \A i \in 1..e - 1 : t[i] = s[i]
    BY <1>1
  <2> HIDE DEF t
  <2>2. f \in 1..Len(t) + 1
    BY <1>1, <2>1
  <2>3. \A i \in 1..f - 1 : t[i] \notin {"."}
    <3>1. \A i \in 1..f - 1 : i \in 1..e - 1 /\ i # f
      BY <1>1
    <3> QED
      BY <1>2, <2>1, <3>1, NoDigit
  <2>4. f <= Len(t) => t[f] \in {"."}
    <3>1. f <= Len(t) => f \in 1..e - 1 /\ f < e
      BY <1>1, <2>1
    <3> QED
      BY <1>3, <2>1, <3>1
  <2> QED
    BY <2>1, <2>2, <2>3, <2>4, PositionUnique
<1> DEFINE a1 == IF s # <<>> /\ s[1] = "-" THEN 2 ELSE 1
           x1 == IF e < Len(s) /\ s[e + 1] \in {"+", "-"} THEN e + 2 ELSE e + 1
<1>6. a1 = a /\ x1 = x
  BY <1>1 DEF Shape
<1> HIDE DEF a1, x1, t
<1>7. Parts(s) = [negative |-> a1 = 2,
                  int |-> SubSeq(s, a1, f - 1),
                  pointed |-> f < e, fraction |-> SubSeq(s, f + 1, e - 1),
                  scaled |-> e <= Len(s), down |-> x1 = e + 2 /\ s[e + 1] = "-",
                  exponent |-> SubSeq(s, x1, Len(s))]
  BY <1>4, <1>5, Zenon DEF Parts, a1, x1, t
<1> QED
  BY <1>6, <1>7

\* What has the shape of a number is one.
LEMMA ShapeNumber ==
    ASSUME NEW C, NEW s \in Seq(C), NEW a \in Nat, NEW f \in Nat, NEW e \in Nat,
           NEW x \in Nat, Shape(s, Len(s), a, f, e, x)
    PROVE  IsNumber(s)
<1> DEFINE p == Parts(s)
           n == Len(s)
<1>1. /\ p.int = SubSeq(s, a, f - 1) /\ p.fraction = SubSeq(s, f + 1, e - 1)
      /\ p.exponent = SubSeq(s, x, n) /\ p.pointed = (f < e) /\ p.scaled = (e <= n)
  BY ShapeParts
<1>2. n \in Nat /\ a \in {1, 2} /\ a < f /\ f <= e /\ e <= n + 1 /\ x \in {e + 1, e + 2}
  BY DEF Shape
<1> HIDE DEF p, n
<1>3. AreDigits(p.int) /\ (p.int[1] = "0" => Len(p.int) = 1)
  <2>1. /\ a \in Nat /\ a > 0 /\ f - 1 \in Nat /\ f - 1 <= n /\ a <= f - 1
        /\ DigitsAt(s, a, f - 1)
    BY <1>2 DEF Shape
  <2>2. AreDigits(p.int) /\ Len(p.int) = (f - 1) - a + 1
    BY <1>1, <2>1, PartIs DEF n
  <2>3. 1 \in 1..Len(p.int) /\ a + 1 - 1 = a
    BY <2>1, <2>2
  <2>4. p.int[1] = s[a]
    BY <1>1, <2>1, <2>3, PartIs DEF n
  <2>5. s[a] = "0" => f = a + 1
    BY DEF Shape
  <2> QED
    BY <2>1, <2>2, <2>4, <2>5
<1>4. p.pointed => AreDigits(p.fraction)
  <2> SUFFICES ASSUME f < e PROVE AreDigits(p.fraction)
    BY <1>1
  <2>1. /\ f + 1 \in Nat /\ f + 1 > 0 /\ e - 1 \in Nat /\ e - 1 <= n /\ f + 1 <= e - 1
        /\ DigitsAt(s, f + 1, e - 1)
    BY <1>2 DEF Shape
  <2> QED
    BY <1>1, <2>1, PartIs DEF n
<1>5. p.scaled => AreDigits(p.exponent)
  <2> SUFFICES ASSUME e <= n PROVE AreDigits(p.exponent)
    BY <1>1
  <2>1. x \in Nat /\ x > 0 /\ x <= n /\ DigitsAt(s, x, n)
    BY <1>2 DEF Shape, n
  <2> QED
    BY <1>1, <1>2, <2>1, PartIs DEF n
<1> QED
  BY <1>3, <1>4, <1>5 DEF IsNumber, p

\* And every number has such a shape.
LEMMA NumberShape ==
    ASSUME NEW C, NEW s \in Seq(C), IsNumber(s)
    PROVE  \E a, f, e, x \in Nat : Shape(s, Len(s), a, f, e, x)
<1> DEFINE n == Len(s)
           e == PositionOf(s, {"e", "E"})
           t == SubSeq(s, 1, e - 1)
           f == PositionOf(t, {"."})
           a == IF s # <<>> /\ s[1] = "-" THEN 2 ELSE 1
           x == IF e < n /\ s[e + 1] \in {"+", "-"} THEN e + 2 ELSE e + 1
           p == Parts(s)
<1>1. /\ p.int = SubSeq(s, a, f - 1) /\ p.fraction = SubSeq(s, f + 1, e - 1)
      /\ p.exponent = SubSeq(s, x, n) /\ p.pointed = (f < e) /\ p.scaled = (e <= n)
  BY DEF Parts
<1>2. n \in Nat /\ e \in 1..n + 1 /\ (e <= n => s[e] \in {"e", "E"})
  BY PositionIs
<1>3. t \in Seq(C) /\ Len(t) = e - 1 /\ \A i \in 1..e - 1 : t[i] = s[i]
  BY <1>2
<1>4. f \in 1..Len(t) + 1 /\ (f <= Len(t) => t[f] \in {"."})
  BY <1>3, PositionIs
<1>5. a \in {1, 2} /\ x \in {e + 1, e + 2}
  OBVIOUS
<1>6. /\ AreDigits(p.int) /\ (p.int[1] = "0" => Len(p.int) = 1)
      /\ p.pointed => AreDigits(p.fraction)
      /\ p.scaled => AreDigits(p.exponent)
  BY DEF IsNumber
<1>7. a = IF s # <<>> /\ s[1] = "-" THEN 2 ELSE 1
  OBVIOUS
<1>8. x = IF e < n /\ s[e + 1] \in {"+", "-"} THEN e + 2 ELSE e + 1
  OBVIOUS
<1> HIDE DEF t, f, e, a, x, p
<1>9. a \in Nat /\ f \in Nat /\ e \in Nat /\ x \in Nat
  BY <1>2, <1>3, <1>4, <1>5
<1>10. a < f /\ DigitsAt(s, a, f - 1) /\ (s[a] = "0" => f = a + 1)
  <2>1. a \in Nat /\ a > 0 /\ f - 1 \in Nat /\ f - 1 <= n
    BY <1>2, <1>3, <1>4, <1>5
  <2>2. a <= f - 1 /\ DigitsAt(s, a, f - 1) /\ Len(p.int) = (f - 1) - a + 1
    BY <1>1, <1>6, <2>1, PartIs
  <2>3. 1 \in 1..Len(p.int) /\ a + 1 - 1 = a
    BY <2>1, <2>2
  <2>4. p.int[1] = s[a]
    BY <1>1, <2>1, <2>3, PartIs
  <2> QED
    BY <1>6, <1>9, <2>1, <2>2, <2>4
<1>11. f < e => s[f] = "." /\ f + 1 < e /\ DigitsAt(s, f + 1, e - 1)
  <2> SUFFICES ASSUME f < e PROVE s[f] = "." /\ f + 1 < e /\ DigitsAt(s, f + 1, e - 1)
    OBVIOUS
  <2>1. f + 1 \in Nat /\ f + 1 > 0 /\ e - 1 \in Nat /\ e - 1 <= n
    BY <1>2, <1>4
  <2>2. AreDigits(SubSeq(s, f + 1, e - 1))
    BY <1>1, <1>6
  <2>3. f + 1 <= e - 1 /\ DigitsAt(s, f + 1, e - 1)
    BY <2>1, <2>2, PartIs
  <2>4. f \in 1..e - 1 /\ f <= Len(t)
    BY <1>2, <1>3, <1>4
  <2> QED
    BY <1>3, <1>4, <1>9, <2>1, <2>3, <2>4
<1>12. e <= n => s[e] \in {"e", "E"} /\ x <= n /\ DigitsAt(s, x, n)
  <2> SUFFICES ASSUME e <= n PROVE x <= n /\ DigitsAt(s, x, n)
    BY <1>2
  <2>1. x \in Nat /\ x > 0
    BY <1>2, <1>5
  <2>2. AreDigits(SubSeq(s, x, n))
    BY <1>1, <1>6
  <2> QED
    BY <1>2, <2>1, <2>2, PartIs
<1>13. s # <<>> /\ f <= e /\ e <= n + 1
  BY <1>2, <1>3, <1>4, <1>5, <1>10
<1>14. a = IF s[1] = "-" THEN 2 ELSE 1
  BY <1>7, <1>13
<1>15. Shape(s, n, a, f, e, x)
  BY <1>8, <1>10, <1>11, <1>12, <1>13, <1>14 DEF Shape
<1> QED
  BY <1>9, <1>15

\* The shape of the first n elements is that of the sequence they are.
LEMMA ShapeOfPart ==
    ASSUME NEW C, NEW s \in Seq(C), NEW n \in 0..Len(s),
           NEW a \in Nat, NEW f \in Nat, NEW e \in Nat, NEW x \in Nat
    PROVE  Shape(SubSeq(s, 1, n), Len(SubSeq(s, 1, n)), a, f, e, x) <=> Shape(s, n, a, f, e, x)
<1> DEFINE t == SubSeq(s, 1, n)
<1>1. n \in Nat /\ Len(t) = n /\ \A i \in 1..n : t[i] = s[i]
  OBVIOUS
<1> HIDE DEF t
<1>2. \A i, j \in Nat : i > 0 /\ j <= n => (DigitsAt(t, i, j) <=> DigitsAt(s, i, j))
  <2> SUFFICES ASSUME NEW i \in Nat, NEW j \in Nat, i > 0, j <= n
               PROVE  DigitsAt(t, i, j) <=> DigitsAt(s, i, j)
    OBVIOUS
  <2>1. \A l \in i..j : t[l] = s[l]
    BY <1>1
  <2> QED
    BY <2>1 DEF DigitsAt
<1>3. ASSUME a < f, f <= e, e <= n + 1, a \in {1, 2}
      PROVE  Shape(t, n, a, f, e, x) <=> Shape(s, n, a, f, e, x)
  <2>1. t[1] = s[1] /\ t[a] = s[a]
    BY <1>1, <1>3
  <2>2. DigitsAt(t, a, f - 1) <=> DigitsAt(s, a, f - 1)
    <3>1. a > 0 /\ f - 1 \in Nat /\ f - 1 <= n
      BY <1>1, <1>3
    <3> QED
      BY <1>2, <3>1
  <2>3. f < e => t[f] = s[f] /\ (DigitsAt(t, f + 1, e - 1) <=> DigitsAt(s, f + 1, e - 1))
    <3> SUFFICES ASSUME f < e
                 PROVE  t[f] = s[f] /\ (DigitsAt(t, f + 1, e - 1) <=> DigitsAt(s, f + 1, e - 1))
      OBVIOUS
    <3>1. f \in 1..n /\ f + 1 \in Nat /\ f + 1 > 0 /\ e - 1 \in Nat /\ e - 1 <= n
      BY <1>1, <1>3
    <3> QED
      BY <1>1, <1>2, <3>1
  <2>4. e < n => t[e + 1] = s[e + 1]
    BY <1>1, <1>3
  <2>5. e <= n => t[e] = s[e]
    BY <1>1, <1>3
  <2>6. ASSUME x > 0 PROVE DigitsAt(t, x, n) <=> DigitsAt(s, x, n)
    <3>1. n <= n
      BY <1>1
    <3> QED
      BY <1>1, <1>2, <2>6, <3>1
  <2>7. ASSUME x = IF e < n /\ s[e + 1] \in {"+", "-"} THEN e + 2 ELSE e + 1 PROVE x > 0
    BY <2>7
  <2> QED
    BY <2>1, <2>2, <2>3, <2>4, <2>5, <2>6, <2>7 DEF Shape
<1>4. ASSUME NEW u, Shape(u, n, a, f, e, x)
      PROVE  a < f /\ f <= e /\ e <= n + 1 /\ a \in {1, 2}
  BY <1>4 DEF Shape
<1>5. Shape(t, n, a, f, e, x) <=> Shape(s, n, a, f, e, x)
  BY <1>3, <1>4
<1> QED
  BY <1>1, <1>5 DEF t

-----------------------------------------------------------------------------
(* The double of a number. *)

\* Doubles, in their shortest digits.
Double == {x \in [negative : BOOLEAN, digits : Seq(Digit), point : Point] :
              /\ x.digits = <<>> => x.point = 0
              /\ x.digits # <<>> => /\ x.digits[1] \in NonzeroDigit
                                   /\ x.digits[Len(x.digits)] \in NonzeroDigit}

\* They are finite.
LEMMA DoubleIsFinite == \A x \in Double : IsFinite(x)
<1> SUFFICES ASSUME NEW x \in Double, x \in NonFinite PROVE FALSE
  BY DEF IsFinite
<1>1. x.digits = <<"inf">> \/ x.digits = <<"nan">>
  BY DEF NonFinite, Infinity, NotANumber
<1>2. x.digits \in Seq(Digit)
  BY DEF Double
<1>3. "inf" \notin Digit /\ "nan" \notin Digit
  BY DigitIs
<1>4. x.digits[1] \in Digit /\ x.digits[1] \in {"inf", "nan"}
  BY <1>1, <1>2
<1> QED
  BY <1>3, <1>4

\* A digit has a value, as Numerals lists it.
LEMMA ValueType ==
    ASSUME NEW d \in Digit
    PROVE  /\ ValueOf(d) \in 0..9
           /\ Numerals[ValueOf(d) + 1] = d
<1> DEFINE I == {i \in 1..Len(Numerals) : Numerals[i] = d}
<1>1. Len(Numerals) = 10 /\ DOMAIN Numerals = 1..10
  BY DEF Numerals
<1>2. I \in SUBSET Nat /\ I # {}
  BY <1>1 DEF Digit, ToSet
<1>3. Min(I) \in I
  BY <1>2, MinIs
<1>4. ValueOf(d) = Min(I) - 1
  BY <1>2 DEF ValueOf, SelectInSeq
<1> DEFINE m == Min(I)
<1>5. m \in 1..10 /\ Numerals[m] = d
  BY <1>1, <1>3
<1> HIDE DEF m
<1>6. m - 1 \in 0..9 /\ (m - 1) + 1 = m
  BY <1>5
<1> QED
  BY <1>4, <1>5, <1>6 DEF m

\* f holds the numbers that the first digits of s make, up to n of them.
Counts(s, n, f) ==
    \A i \in 0..n : f[i] = IF i = 0 THEN 0 ELSE 10 * f[i - 1] + ValueOf(s[i])

\* There are such numbers, by induction on the digits.
LEMMA CountsExist ==
    ASSUME NEW s \in Seq(Digit), NEW m \in 0..Len(s)
    PROVE  \E f \in [0..m -> Nat] : Counts(s, m, f)
<1> DEFINE P(n) == \E f \in [0..n -> Nat] : Counts(s, n, f)
           T == {n \in Nat : n <= Len(s) => P(n)}
<1>1. P(0)
  <2> DEFINE f == [i \in 0..0 |-> 0]
  <2>1. f \in [0..0 -> Nat] /\ Counts(s, 0, f)
    BY DEF Counts
  <2> QED
    BY <2>1
<1>2. ASSUME NEW n \in Nat, n + 1 <= Len(s), P(n) PROVE P(n + 1)
  <2>1. PICK f \in [0..n -> Nat] : Counts(s, n, f)
    BY <1>2
  <2>2. s[n + 1] \in Digit
    BY <1>2
  <2> DEFINE last == 10 * f[n] + ValueOf(s[n + 1])
             g == [i \in 0..n + 1 |-> IF i = n + 1 THEN last ELSE f[i]]
  <2>3. last \in Nat
    <3>1. f[n] \in Nat
      BY <2>1
    <3>2. ValueOf(s[n + 1]) \in Nat
      <4>1. ValueOf(s[n + 1]) \in 0..9
        BY <2>2, ValueType, Zenon
      <4> QED
        BY <4>1
    <3> QED
      BY <3>1, <3>2
  <2>4. g \in [0..n + 1 -> Nat]
    <3> HIDE DEF last
    <3> QED
      BY <2>3
  <2>5. ASSUME NEW i \in 0..n + 1
        PROVE  g[i] = IF i = 0 THEN 0 ELSE 10 * g[i - 1] + ValueOf(s[i])
    <3>1. CASE i = n + 1
      <4>1. n \in 0..n + 1 /\ n # n + 1 /\ i - 1 = n /\ i # 0
        BY <3>1
      <4>2. g[i - 1] = f[n] /\ g[i] = last
        BY <3>1, <4>1
      <4> QED
        BY <3>1, <4>1, <4>2
    <3>2. CASE i # n + 1
      <4>1. i \in 0..n /\ (i # 0 => i - 1 \in 0..n /\ i - 1 \in 0..n + 1 /\ i - 1 # n + 1)
        BY <3>2
      <4>2. f[i] = IF i = 0 THEN 0 ELSE 10 * f[i - 1] + ValueOf(s[i])
        BY <2>1, <4>1 DEF Counts
      <4>3. g[i] = f[i] /\ (i # 0 => g[i - 1] = f[i - 1])
        BY <3>2, <4>1
      <4> QED
        BY <4>2, <4>3
    <3> QED
      BY <3>1, <3>2
  <2> HIDE DEF g
  <2>6. Counts(s, n + 1, g)
    BY <2>5 DEF Counts
  <2> QED
    BY <2>4, <2>6
<1> HIDE DEF P
<1>3. Nat \subseteq T
  <2>1. 0 \in T
    BY <1>1
  <2>2. ASSUME NEW n \in Nat, n \in T PROVE n + 1 \in T
    BY <1>2, <2>2
  <2> HIDE DEF T
  <2> QED
    BY <2>1, <2>2, NatInduct
<1> QED
  BY <1>3 DEF P

\* NatOf, which is defined by recursion, gives the last of them.
LEMMA NatOfIs ==
    ASSUME NEW s \in Seq(Digit)
    PROVE  \E g : Counts(s, Len(s), g) /\ NatOf(s) = g[Len(s)]
<1> DEFINE Unfolds(f) ==
               f = [i \in 0..Len(s) |-> IF i = 0 THEN 0 ELSE 10 * f[i - 1] + ValueOf(s[i])]
           g == CHOOSE f : Unfolds(f)
<1>1. NatOf(s) = g[Len(s)]
  BY DEF NatOf
<1>2. PICK f \in [0..Len(s) -> Nat] : Counts(s, Len(s), f)
  <2>1. Len(s) \in 0..Len(s)
    OBVIOUS
  <2> QED
    BY <2>1, CountsExist
<1>3. Unfolds(f)
  BY <1>2 DEF Counts
<1> HIDE DEF Unfolds
<1>4. Unfolds(g)
  BY <1>3
<1> HIDE DEF g
<1>5. Counts(s, Len(s), g)
  <2> DEFINE v(i) == IF i = 0 THEN 0 ELSE 10 * g[i - 1] + ValueOf(s[i])
  <2>1. g = [i \in 0..Len(s) |-> v(i)]
    BY <1>4 DEF Unfolds
  <2> HIDE DEF v
  <2>2. \A i \in 0..Len(s) : g[i] = v(i)
    BY <2>1
  <2> QED
    BY <2>2 DEF v, Counts
<1> QED
  BY <1>1, <1>5

\* So it is a natural number.
LEMMA NatOfType ==
    ASSUME NEW s \in Seq(Digit)
    PROVE  NatOf(s) \in Nat
<1>1. PICK g : Counts(s, Len(s), g) /\ NatOf(s) = g[Len(s)]
  BY NatOfIs
<1> DEFINE T == {n \in Nat : n <= Len(s) => g[n] \in Nat}
<1>2. 0 \in T
  <2>1. 0 \in 0..Len(s)
    OBVIOUS
  <2>2. g[0] = 0
    BY <1>1, <2>1 DEF Counts
  <2> QED
    BY <2>2
<1>3. ASSUME NEW n \in Nat, n \in T PROVE n + 1 \in T
  <2> SUFFICES ASSUME n + 1 <= Len(s) PROVE g[n + 1] \in Nat
    OBVIOUS
  <2> DEFINE m == n + 1
  <2>1. m \in 0..Len(s) /\ m # 0 /\ m - 1 = n /\ s[m] \in Digit /\ g[n] \in Nat
    BY <1>3
  <2> HIDE DEF m
  <2>2. g[m] = 10 * g[m - 1] + ValueOf(s[m])
    BY <1>1, <2>1 DEF Counts
  <2>3. ValueOf(s[m]) \in Nat
    BY <2>1, ValueType
  <2>4. g[m] \in Nat
    BY <2>1, <2>2, <2>3
  <2> QED
    BY <2>4 DEF m
<1> HIDE DEF T
<1>4. Nat \subseteq T
  BY <1>2, <1>3, NatInduct
<1>5. Len(s) \in Nat /\ Len(s) <= Len(s)
  OBVIOUS
<1> QED
  BY <1>1, <1>4, <1>5 DEF T

\* The parts of a number are digits.
LEMMA PartsType ==
    ASSUME NEW C, NEW s \in Seq(C), NEW a \in Nat, NEW f \in Nat, NEW e \in Nat,
           NEW x \in Nat, Shape(s, Len(s), a, f, e, x)
    PROVE  /\ Parts(s).int \in Seq(Digit) /\ Parts(s).fraction \in Seq(Digit)
           /\ Parts(s).exponent \in Seq(Digit)
<1> DEFINE n == Len(s)
<1>1. /\ Parts(s).int = SubSeq(s, a, f - 1) /\ Parts(s).fraction = SubSeq(s, f + 1, e - 1)
      /\ Parts(s).exponent = SubSeq(s, x, n)
  BY ShapeParts
<1>2. n \in Nat /\ a \in {1, 2} /\ a < f /\ f <= e /\ e <= n + 1 /\ x \in {e + 1, e + 2}
  BY DEF Shape
<1>3. ASSUME NEW i \in Nat, NEW j \in Nat, i > 0, j <= n, DigitsAt(s, i, j)
      PROVE  SubSeq(s, i, j) \in Seq(Digit)
  <2> DEFINE t == SubSeq(s, i, j)
  <2>1. t \in Seq(C) /\ Len(t) = (IF i <= j THEN j - i + 1 ELSE 0)
        /\ \A l \in 1..Len(t) : t[l] = s[i + l - 1]
    BY <1>3, PartIs
  <2> HIDE DEF t
  <2>2. ASSUME NEW l \in 1..Len(t) PROVE t[l] \in Digit
    <3>1. i + l - 1 \in i..j
      BY <1>2, <1>3, <2>1
    <3> QED
      BY <1>3, <2>1, <3>1 DEF DigitsAt
  <2>3. t \in Seq(Digit)
    BY <2>1, <2>2, ElementsIn
  <2> QED
    BY <2>3 DEF t
<1> HIDE DEF n
<1>4. SubSeq(s, a, f - 1) \in Seq(Digit)
  <2>1. a > 0 /\ f - 1 \in Nat /\ f - 1 <= n /\ DigitsAt(s, a, f - 1)
    BY <1>2 DEF Shape
  <2> QED
    BY <1>3, <2>1
<1>5. SubSeq(s, f + 1, e - 1) \in Seq(Digit)
  <2>1. f + 1 \in Nat /\ f + 1 > 0 /\ e - 1 \in Nat /\ e - 1 <= n
    BY <1>2
  <2>2. DigitsAt(s, f + 1, e - 1)
    <3>1. CASE f < e
      BY <3>1 DEF Shape
    <3>2. CASE ~(f < e)
      <4>1. f + 1..e - 1 = {}
        BY <1>2, <3>2
      <4> QED
        BY <4>1 DEF DigitsAt
    <3> QED
      BY <3>1, <3>2
  <2> QED
    BY <1>3, <2>1, <2>2
<1>6. SubSeq(s, x, n) \in Seq(Digit)
  <2>1. x > 0 /\ n <= n
    BY <1>2
  <2>2. DigitsAt(s, x, n)
    <3>1. CASE e <= n
      BY <3>1 DEF Shape, n
    <3>2. CASE ~(e <= n)
      <4>1. x..n = {}
        BY <1>2, <3>2
      <4> QED
        BY <4>1 DEF DigitsAt
    <3> QED
      BY <3>1, <3>2
  <2> QED
    BY <1>2, <1>3, <2>1, <2>2
<1> QED
  BY <1>1, <1>4, <1>5, <1>6

\* The last position of a digit that is not zero, or 0.
LastNonzero(s) == SelectLastInSeq(s, LAMBDA c : c \in NonzeroDigit)

\* It is the position of that digit, 0 if there is none.
LEMMA LastIs ==
    ASSUME NEW s \in Seq(Digit)
    PROVE  /\ LastNonzero(s) \in 0..Len(s)
           /\ \A i \in LastNonzero(s) + 1..Len(s) : s[i] \notin NonzeroDigit
           /\ LastNonzero(s) # 0 => s[LastNonzero(s)] \in NonzeroDigit
<1> DEFINE I == {i \in 1..Len(s) : s[i] \in NonzeroDigit}
           q == LastNonzero(s)
<1>1. Len(s) \in Nat /\ I \in SUBSET (1..Len(s))
  OBVIOUS
<1>2. CASE I = {}
  <2>1. q = 0
    BY <1>2 DEF SelectLastInSeq, LastNonzero
  <2>2. \A i \in 1..Len(s) : s[i] \notin NonzeroDigit
    BY <1>2
  <2> HIDE DEF q
  <2>3. q + 1 = 1 /\ q \in 0..Len(s)
    BY <1>1, <2>1
  <2>4. \A i \in q + 1..Len(s) : s[i] \notin NonzeroDigit
    BY <2>2, <2>3
  <2> QED
    BY <2>1, <2>3, <2>4 DEF q
<1>3. CASE I # {}
  <2>1. q = Max(I)
    BY <1>3 DEF SelectLastInSeq, LastNonzero
  <2>2. Max(I) \in I /\ \A i \in I : Max(I) >= i
    BY <1>1, <1>3, MaxIs
  <2> DEFINE m == Max(I)
  <2>3. m \in 1..Len(s) /\ s[m] \in NonzeroDigit
    BY <2>2
  <2>4. \A i \in m + 1..Len(s) : i \in 1..Len(s) /\ ~(m >= i)
    BY <1>1, <2>3
  <2>5. \A i \in m + 1..Len(s) : s[i] \notin NonzeroDigit
    BY <2>2, <2>4
  <2> HIDE DEF I, m
  <2>6. Max(I) \in 0..Len(s)
    BY <1>1, <2>3 DEF m
  <2> QED
    BY <2>1, <2>3, <2>5, <2>6 DEF m
<1> QED
  BY <1>2, <1>3

\* The double of a number is one, or it is infinite.
LEMMA F64Type ==
    ASSUME NEW C, NEW s \in Seq(C), IsNumber(s)
    PROVE  F64(s) \in Double \cup {Infinity}
<1> DEFINE p == Parts(s)
           all == p.int \o p.fraction
           lead == PositionOf(all, NonzeroDigit) - 1
           last == LastNonzero(all)
           exponent == IF p.down THEN -NatOf(p.exponent) ELSE NatOf(p.exponent)
           point == Len(p.int) - lead + exponent
<1>1. PICK a, f, e, x \in Nat : Shape(s, Len(s), a, f, e, x)
  BY NumberShape
<1>2. p.int \in Seq(Digit) /\ p.fraction \in Seq(Digit) /\ p.exponent \in Seq(Digit)
  BY <1>1, PartsType
<1>3. p.negative \in BOOLEAN
  <2>1. p.negative = (a = 2)
    BY <1>1, ShapeParts
  <2> HIDE DEF p
  <2> QED
    BY <2>1, Zenon
<1>4. F64(s) = IF last = 0 \/ point < -LowPoint THEN Zero(p.negative)
               ELSE IF point > MaxPoint THEN Infinity
               ELSE [negative |-> p.negative, digits |-> SubSeq(all, lead + 1, last), point |-> point]
  BY DEF F64, LastNonzero
<1> HIDE DEF p
<1>5. all \in Seq(Digit) /\ Len(p.int) \in Nat
  BY <1>2
<1>6. exponent \in Int
  <2>1. NatOf(p.exponent) \in Nat
    BY <1>2, NatOfType
  <2> QED
    BY <2>1
<1>7. /\ last \in 0..Len(all) /\ (last # 0 => all[last] \in NonzeroDigit)
  BY <1>5, LastIs
<1>8. /\ lead \in 0..Len(all)
      /\ \A i \in 1..lead : all[i] \notin NonzeroDigit
      /\ lead + 1 <= Len(all) => all[lead + 1] \in NonzeroDigit
  <2> DEFINE q == PositionOf(all, NonzeroDigit)
  <2> HIDE DEF all
  <2>1. /\ q \in 1..Len(all) + 1
        /\ \A i \in 1..q - 1 : all[i] \notin NonzeroDigit
        /\ q <= Len(all) => all[q] \in NonzeroDigit
    BY <1>5, PositionIs
  <2> HIDE DEF q
  <2>2. (q - 1) + 1 = q /\ q - 1 \in 0..Len(all)
    BY <2>1
  <2>3. lead = q - 1
    BY DEF q
  <2> QED
    BY <2>1, <2>2, <2>3
<1> HIDE DEF all, lead, last, exponent
<1>9. lead \in 0..Len(all) /\ last \in 0..Len(all) /\ Len(all) \in Nat
  BY <1>5, <1>7, <1>8
<1>10. point \in Int
  BY <1>5, <1>6, <1>9
<1> HIDE DEF point
<1>11. Zero(p.negative) \in Double
  BY <1>3, PointIs DEF Zero, Double
<1>12. ASSUME last # 0, point \in Point
       PROVE  [negative |-> p.negative, digits |-> SubSeq(all, lead + 1, last), point |-> point]
                  \in Double
  <2> DEFINE ds == SubSeq(all, lead + 1, last)
  <2>1. lead + 1 <= last
    <3> SUFFICES ASSUME ~(lead + 1 <= last) PROVE FALSE
      OBVIOUS
    <3>1. last \in 1..lead
      BY <1>9, <1>12
    <3> QED
      BY <1>7, <1>8, <1>12, <3>1
  <2>2. lead + 1 \in 1..Len(all) /\ last \in 1..Len(all)
    BY <1>9, <1>12, <2>1
  <2>3. /\ ds \in Seq(Digit) /\ Len(ds) = last - lead
        /\ ds[1] = all[lead + 1] /\ ds[last - lead] = all[last]
    <3>1. /\ lead + 1 \in Nat /\ last \in Nat /\ lead + 1 > 0 /\ last <= Len(all)
          /\ last - (lead + 1) + 1 = last - lead
      BY <1>9, <2>2
    <3>2. /\ ds \in Seq(Digit) /\ Len(ds) = last - lead
          /\ \A l \in 1..Len(ds) : ds[l] = all[(lead + 1) + l - 1]
      BY <1>5, <2>1, <3>1, PartIs
    <3> HIDE DEF ds
    <3>3. /\ 1 \in 1..Len(ds) /\ last - lead \in 1..Len(ds)
          /\ (lead + 1) + 1 - 1 = lead + 1 /\ (lead + 1) + (last - lead) - 1 = last
      BY <1>9, <2>1, <3>2
    <3> QED
      BY <3>2, <3>3
  <2>4. ds # <<>> /\ ds[1] \in NonzeroDigit /\ ds[Len(ds)] \in NonzeroDigit
    BY <1>7, <1>8, <1>9, <1>12, <2>1, <2>2, <2>3
  <2> HIDE DEF ds
  <2>5. [negative |-> p.negative, digits |-> ds, point |-> point] \in Double
    BY <1>3, <1>12, <2>3, <2>4 DEF Double
  <2> QED
    BY <2>5 DEF ds
<1>13. ~(point < -LowPoint) /\ ~(point > MaxPoint) => point \in Point
  BY <1>10, LimitsAre DEF Point
<1> QED
  BY <1>4, <1>11, <1>12, <1>13

-----------------------------------------------------------------------------
(* The types of the state. *)

\* Numerals lists digits.
LEMMA NumeralsType == \A k \in 0..9 : Numerals[k + 1] \in Digit
<1>1. Len(Numerals) = 10 /\ DOMAIN Numerals = 1..10
  BY DEF Numerals
<1>2. \A k \in 0..9 : k + 1 \in 1..10
  OBVIOUS
<1> QED
  BY <1>1, <1>2 DEF Digit, ToSet

\* A numeral is of digits.
LEMMA NumeralOfType ==
    ASSUME NEW n \in Nat, n < 1000
    PROVE  NumeralOf(n) \in Seq(Digit) /\ Len(NumeralOf(n)) \in 1..3
<1> DEFINE d(k) == Numerals[k + 1]
<1>1. \A k \in 0..9 : d(k) \in Digit
  BY NumeralsType
<1>2. NumeralOf(n) = IF n < 10 THEN <<d(n)>>
                     ELSE IF n < 100 THEN <<d(n \div 10), d(n % 10)>>
                     ELSE <<d(n \div 100), d((n \div 10) % 10), d(n % 10)>>
  BY DEF NumeralOf
<1> HIDE DEF d
<1>3. n % 10 \in 0..9 /\ (n \div 10) % 10 \in 0..9 /\ n \div 100 \in 0..9
  OBVIOUS
<1>4. CASE n < 10
  <2>1. d(n) \in Digit
    BY <1>1, <1>4
  <2> QED
    BY <1>2, <1>4, <2>1
<1>5. CASE ~(n < 10) /\ n < 100
  <2>1. n \div 10 \in 0..9
    BY <1>5
  <2>2. d(n \div 10) \in Digit /\ d(n % 10) \in Digit
    BY <1>1, <1>3, <2>1
  <2> QED
    BY <1>2, <1>5, <2>2
<1>6. CASE ~(n < 100)
  <2>1. d(n \div 100) \in Digit /\ d((n \div 10) % 10) \in Digit /\ d(n % 10) \in Digit
    BY <1>1, <1>3
  <2>2. NumeralOf(n) = <<d(n \div 100), d((n \div 10) % 10), d(n % 10)>>
    BY <1>2, <1>6
  <2> QED
    BY <2>1, <2>2
<1> QED
  BY <1>4, <1>5, <1>6

\* What is written of a double are characters.
LEMMA WriteType ==
    ASSUME NEW x \in Double
    PROVE  WriteNumber(x) \in Seq(Characters)
<1> DEFINE ds == x.digits
           n == x.point
           k == Len(ds)
<1>1. /\ Digit \subseteq Characters /\ "-" \in Characters /\ "+" \in Characters
      /\ "." \in Characters /\ "e" \in Characters /\ "0" \in Characters
  BY CharactersAre, NoDigit
<1>2. ds \in Seq(Characters) /\ k \in Nat /\ n \in Point /\ n \in Int
  <2>1. ds \in Seq(Digit) /\ n \in Point
    BY DEF Double
  <2> HIDE DEF ds, n
  <2>2. ds \in Seq(Characters)
    BY <1>1, <2>1
  <2>3. n \in Int
    BY <2>1, PointIs
  <2> QED
    BY <2>1, <2>2, <2>3
<1>3. ASSUME NEW m \in Nat PROVE Zeros(m) \in Seq(Characters)
  BY <1>1 DEF Zeros
<1>4. ASSUME NEW m \in Nat, m < 1000 PROVE NumeralOf(m) \in Seq(Characters)
  <2>1. NumeralOf(m) \in Seq(Digit)
    BY <1>4, NumeralOfType
  <2> QED
    BY <1>1, <2>1
<1>5. <<>> \in Seq(Characters) /\ <<"0">> \in Seq(Characters) /\ <<"-">> \in Seq(Characters)
      /\ <<"+">> \in Seq(Characters) /\ <<".">> \in Seq(Characters)
      /\ <<"e">> \in Seq(Characters) /\ <<"0", ".">> \in Seq(Characters)
  BY <1>1
<1>6. ASSUME NEW u \in Seq(Characters), NEW v \in Seq(Characters)
      PROVE  u \o v \in Seq(Characters)
  OBVIOUS
<1>7. ASSUME ds # <<>> PROVE Layout(ds, n) \in Seq(Characters)
  <2> HIDE DEF ds, n
  <2>1. k > 0
    BY <1>2, <1>7
  <2>2. CASE k <= n /\ n <= PositionalLimit
    <3>1. n - k \in Nat /\ ~(n < k) /\ ~(n <= 0)
      BY <1>2, <2>1, <2>2
    <3>2. Layout(ds, n) = ds \o Zeros(n - k)
      BY <2>2, <3>1 DEF Layout
    <3> QED
      BY <1>2, <1>3, <1>6, <3>1, <3>2
  <2>3. CASE 0 < n /\ n < k /\ n <= PositionalLimit
    <3>1. ~(k <= n) /\ ~(n <= 0)
      BY <1>2, <2>3
    <3>2. Layout(ds, n) = SubSeq(ds, 1, n) \o <<".">> \o SubSeq(ds, n + 1, k)
      BY <2>3, <3>1 DEF Layout
    <3>3. SubSeq(ds, 1, n) \in Seq(Characters) /\ SubSeq(ds, n + 1, k) \in Seq(Characters)
      BY <1>2, <2>3
    <3> QED
      BY <1>5, <1>6, <3>2, <3>3
  <2>4. CASE -6 < n /\ n <= 0
    <3>1. ~(k <= n) /\ ~(0 < n) /\ -n \in Nat
      BY <1>2, <2>1, <2>4
    <3>2. Layout(ds, n) = <<"0", ".">> \o Zeros(-n) \o ds
      BY <2>4, <3>1 DEF Layout
    <3> QED
      BY <1>2, <1>3, <1>5, <1>6, <3>1, <3>2
  <2>5. CASE ~(n <= PositionalLimit) \/ ~(-6 < n)
    <3> DEFINE h == SubSeq(ds, 1, 1)
               m == IF k = 1 THEN <<>> ELSE <<".">> \o Tail(ds)
               t == IF n >= 1 THEN <<"+">> \o NumeralOf(n - 1) ELSE <<"-">> \o NumeralOf(1 - n)
    <3>1. Layout(ds, n) = h \o m \o <<"e">> \o t
      <4>1. /\ ~(k <= n /\ n <= PositionalLimit) /\ ~(-6 < n /\ n <= 0)
            /\ ~(0 < n /\ n < k /\ n <= PositionalLimit)
        BY <1>2, <2>1, <2>5 DEF PositionalLimit
      <4> QED
        BY <4>1 DEF Layout
    <3>2. h \in Seq(Characters)
      BY <1>2, <2>1
    <3>3. m \in Seq(Characters)
      <4>1. Tail(ds) \in Seq(Characters)
        BY <1>2, <2>1
      <4> QED
        BY <1>5, <1>6, <4>1
    <3>4. t \in Seq(Characters)
      <4>1. n >= 1 => n - 1 \in Nat /\ n - 1 < 1000
        BY <1>2, JsonNumberAssumption DEF Point
      <4>2. ~(n >= 1) => 1 - n \in Nat /\ 1 - n < 1000
        BY <1>2, JsonNumberAssumption DEF Point
      <4> QED
        BY <1>4, <1>5, <1>6, <4>1, <4>2
    <3> HIDE DEF h, m, t
    <3>5. h \o m \in Seq(Characters)
      BY <1>6, <3>2, <3>3
    <3>6. (h \o m) \o <<"e">> \in Seq(Characters)
      BY <1>5, <1>6, <3>5
    <3> QED
      BY <1>6, <3>1, <3>4, <3>6
  <2> QED
    BY <1>2, <2>2, <2>3, <2>4, <2>5
<1>8. (IF x.negative THEN <<"-">> ELSE <<>>) \in Seq(Characters)
  BY <1>5
<1> QED
  BY <1>5, <1>6, <1>7, <1>8, DoubleIsFinite DEF WriteNumber

-----------------------------------------------------------------------------
(* parse_number, forward: what it went past is a number. *)

\* A character is one, and behind the last there is none.
LEMMA AtIs ==
    ASSUME chars \in Seq(Characters), NEW p \in Nat
    PROVE  /\ p \in 1..Len(chars) => At(p) = chars[p] /\ At(p) # "end"
           /\ At(p) # "end" => p \in 1..Len(chars)
BY JsonNumberAssumption DEF At

\* DigitsEnd, which is chosen, is where the digits end.
LEMMA DigitsEndIs ==
    ASSUME chars \in Seq(Characters), NEW p \in 1..Len(chars) + 1
    PROVE  /\ DigitsEnd(p) \in p..Len(chars) + 1 /\ At(DigitsEnd(p)) \notin Digit
           /\ DigitsAt(chars, p, DigitsEnd(p) - 1)
<1> DEFINE n == Len(chars)
           I == {q \in p..n + 1 : At(q) \notin Digit}
           Ends(q) == At(q) \notin Digit /\ \A i \in p..q - 1 : At(i) \in Digit
<1>1. n \in Nat /\ p \in Nat /\ p > 0
  OBVIOUS
<1>2. I \in SUBSET Nat /\ I # {}
  <2>1. n + 1 \in p..n + 1 /\ n + 1 \notin 1..n
    BY <1>1
  <2>2. At(n + 1) \notin Digit
    BY <2>1, NoDigit DEF At
  <2>3. I \in SUBSET Nat
    BY <1>1
  <2> QED
    BY <2>1, <2>2, <2>3
<1>3. PICK m \in I : \A i \in I : m <= i
  BY <1>2, LeastExists
<1>4. m \in p..n + 1 /\ Ends(m)
  <2>1. \A i \in p..m - 1 : i \in p..n + 1 /\ ~(m <= i)
    BY <1>1, <1>3
  <2> QED
    BY <1>3, <2>1
<1> DEFINE q == CHOOSE r \in p..n + 1 : Ends(r)
<1>5. q \in p..n + 1 /\ Ends(q)
  <2> HIDE DEF Ends
  <2> QED
    BY <1>4
<1>6. DigitsEnd(p) = q
  BY DEF DigitsEnd
<1> HIDE DEF q
<1>7. \A i \in p..q - 1 : i \in 1..n
  BY <1>1, <1>5
<1>8. DigitsAt(chars, p, q - 1)
  BY <1>5, <1>7 DEF DigitsAt, At
<1> QED
  BY <1>5, <1>6, <1>8

\* Whatever has digits before it and is none, is where they end.
LEMMA DigitsEndUnique ==
    ASSUME chars \in Seq(Characters), NEW p \in 1..Len(chars) + 1,
           NEW q \in p..Len(chars) + 1, At(q) \notin Digit, DigitsAt(chars, p, q - 1)
    PROVE  DigitsEnd(p) = q
<1> DEFINE m == DigitsEnd(p)
<1>1. m \in p..Len(chars) + 1 /\ At(m) \notin Digit /\ DigitsAt(chars, p, m - 1)
  BY DigitsEndIs
<1>2. Len(chars) \in Nat
  OBVIOUS
<1> HIDE DEF m
<1>3. ~(m < q)
  <2> SUFFICES ASSUME m < q PROVE FALSE
    OBVIOUS
  <2>1. m \in p..q - 1 /\ m \in 1..Len(chars)
    BY <1>1, <1>2
  <2> QED
    BY <1>1, <2>1 DEF DigitsAt, At
<1>4. ~(q < m)
  <2> SUFFICES ASSUME q < m PROVE FALSE
    OBVIOUS
  <2>1. q \in p..m - 1 /\ q \in 1..Len(chars)
    BY <1>1, <1>2
  <2> QED
    BY <1>1, <2>1 DEF DigitsAt, At
<1>5. m = q
  BY <1>1, <1>2, <1>3, <1>4
<1> QED
  BY <1>5 DEF m

\* What parse_number went past is a number, as far as it is, and at the end the
\* double of it, inside the domain.
ReadInv ==
    /\ chars \in Seq(Characters) /\ pos \in 1..Len(chars) + 1
    /\ pc \in {"int", "fraction", "exponent", "convert", "parsed", "failed", "built", "refused"}
    /\ number \in Double \cup {NoNumber} \/ (number \in NonFinite /\ pc \in {"built", "refused"})
    /\ first \in Double \cup {NoNumber}
    /\ pc = "built" => number # NoNumber /\ chars = <<>>
    /\ pc = "int" => pos = 1
    /\ pc = "fraction" => \E a \in Nat : Shape(chars, pos - 1, a, pos, pos, pos + 1)
    /\ pc = "exponent" => \E a, f \in Nat : Shape(chars, pos - 1, a, f, pos, pos + 1)
    /\ pc \in {"convert", "parsed"} =>
          \E a, f, e, x \in Nat : Shape(chars, pos - 1, a, f, e, x)
    /\ pc = "parsed" => number \in Double /\ number = F64(Token) /\ ~OutOfDomain(Token)

\* The branches of the first part.
LEMMA IntegerBranch ==
    ASSUME IntegerPart
    PROVE  LET p == IF At(pos) = "-" THEN pos + 1 ELSE pos
           IN  \/ At(p) = "0" /\ Goto(p + 1, "fraction")
               \/ At(p) \in NonzeroDigit /\ Goto(DigitsEnd(p), "fraction")
               \/ At(p) \notin Digit /\ Fail
<1> DEFINE p == IF At(pos) = "-" THEN pos + 1 ELSE pos
<1>1. (CASE At(p) = "0" -> Goto(p + 1, "fraction")
         [] At(p) \in NonzeroDigit -> Goto(DigitsEnd(p), "fraction")
         [] OTHER -> Fail)
  BY DEF IntegerPart
<1>2. At(p) \in Digit => At(p) = "0" \/ At(p) \in NonzeroDigit
  BY DEF NonzeroDigit
<1>3. "0" \notin NonzeroDigit
  BY DEF NonzeroDigit
<1> HIDE DEF p
<1>4. \/ At(p) = "0" /\ Goto(p + 1, "fraction")
      \/ At(p) \in NonzeroDigit /\ Goto(DigitsEnd(p), "fraction")
      \/ At(p) \notin Digit /\ Fail
  BY <1>1, <1>2, <1>3, Zenon
<1> QED
  BY <1>4 DEF p

\* A part that fails leaves nothing to show.
LEMMA FailReads ==
    ASSUME ReadInv, Fail, pc \notin {"built", "refused"}
    PROVE  ReadInv'
BY DEF ReadInv, Fail, Goto

\* Each step of the parser keeps ReadInv.
LEMMA IntegerReads ==
    ASSUME ReadInv, IntegerPart
    PROVE  ReadInv'
<1> DEFINE n == Len(chars)
           p == IF At(pos) = "-" THEN pos + 1 ELSE pos
<1>1. pc = "int" /\ pos = 1 /\ n \in Nat /\ chars \in Seq(Characters) /\ pos \in Nat
  BY DEF ReadInv, IntegerPart
<1>2. ASSUME At(p) \in Digit
      PROVE  p \in 1..n /\ chars[p] = At(p) /\ p = IF chars[1] = "-" THEN 2 ELSE 1
  <2>1. p \in Nat
    BY <1>1
  <2> DEFINE c == At(p)
  <2>2. c # "end"
    <3>1. c \in Digit
      BY <1>2
    <3> HIDE DEF c
    <3> QED
      BY <3>1, NoDigit
  <2>3. p \in 1..n /\ chars[p] = At(p)
    BY <1>1, <2>1, <2>2, AtIs
  <2>4. 1 \in 1..n
    BY <1>1, <2>3
  <2>5. At(1) = chars[1]
    BY <1>1, <2>4, AtIs
  <2> QED
    BY <1>1, <2>3, <2>5
<1>3. ASSUME At(p) \in Digit, NEW q \in p + 1..n + 1, DigitsAt(chars, p, q - 1),
             chars[p] = "0" => q = p + 1, Goto(q, "fraction")
      PROVE  ReadInv'
  <2> HIDE DEF p
  <2>1. p \in 1..n /\ p = IF chars[1] = "-" THEN 2 ELSE 1
    BY <1>2, <1>3
  <2>2. Shape(chars, q - 1, p, q, q, q + 1)
    BY <1>1, <1>3, <2>1 DEF Shape
  <2>3. p \in Nat /\ q \in 1..n + 1
    BY <1>1, <1>3, <2>1
  <2> QED
    BY <1>1, <1>3, <2>2, <2>3 DEF ReadInv, Goto
<1>4. CASE At(p) = "0" /\ Goto(p + 1, "fraction")
  <2>1. p \in 1..n /\ chars[p] = At(p) /\ At(p) \in Digit
    BY <1>2, <1>4, NoDigit
  <2> HIDE DEF p
  <2>2. p + 1 \in p + 1..n + 1 /\ DigitsAt(chars, p, (p + 1) - 1)
    BY <1>1, <2>1 DEF DigitsAt
  <2> QED
    BY <1>3, <1>4, <2>1, <2>2
<1>5. CASE At(p) \in NonzeroDigit /\ Goto(DigitsEnd(p), "fraction")
  <2> DEFINE q == DigitsEnd(p)
  <2>1. At(p) \in Digit /\ At(p) # "0"
    BY <1>5 DEF NonzeroDigit
  <2>2. p \in 1..n /\ chars[p] = At(p) /\ p \in 1..n + 1
    BY <1>2, <2>1
  <2> HIDE DEF p
  <2>3. q \in p..n + 1 /\ At(q) \notin Digit /\ DigitsAt(chars, p, q - 1)
    BY <1>1, <2>2, DigitsEndIs
  <2> HIDE DEF q
  <2>4. q # p
    BY <2>1, <2>3
  <2>5. q \in p + 1..n + 1
    BY <1>1, <2>2, <2>3, <2>4
  <2>6. Goto(q, "fraction")
    BY <1>5 DEF q
  <2> QED
    BY <1>3, <2>1, <2>2, <2>3, <2>5, <2>6
<1>6. CASE At(p) \notin Digit /\ Fail
  BY <1>1, <1>6, FailReads
<1> QED
  BY <1>4, <1>5, <1>6, IntegerBranch

LEMMA FractionReads ==
    ASSUME ReadInv, Fraction
    PROVE  ReadInv'
<1> DEFINE n == Len(chars)
<1>1. pc = "fraction" /\ pos \in 1..n + 1 /\ n \in Nat /\ chars \in Seq(Characters) /\ pos \in Nat
  BY DEF ReadInv, Fraction
<1>2. PICK a \in Nat : Shape(chars, pos - 1, a, pos, pos, pos + 1)
  BY <1>1 DEF ReadInv
<1>3. CASE At(pos) = "."
  <2> DEFINE q == DigitsEnd(pos + 1)
  <2>1. pos \in 1..n /\ chars[pos] = "."
    BY <1>1, <1>3, AtIs
  <2>2. pos + 1 \in 1..n + 1
    BY <1>1, <2>1
  <2>3. q \in pos + 1..n + 1 /\ DigitsAt(chars, pos + 1, q - 1)
    BY <1>1, <2>2, DigitsEndIs
  <2>4. IF q = pos + 1 THEN Fail ELSE Goto(q, "exponent")
    BY <1>3 DEF Fraction, Digits
  <2> HIDE DEF q
  <2>5. CASE q = pos + 1
    BY <1>1, <2>4, <2>5, FailReads
  <2>6. CASE q # pos + 1
    <3>1. Shape(chars, q - 1, a, pos, q, q + 1)
      BY <1>1, <1>2, <2>1, <2>3, <2>6 DEF Shape
    <3>2. q \in 1..n + 1 /\ Goto(q, "exponent")
      BY <1>1, <2>3, <2>4, <2>6
    <3> QED
      BY <1>1, <3>1, <3>2 DEF ReadInv, Goto
  <2> QED
    BY <2>5, <2>6
<1>4. CASE At(pos) # "."
  <2>1. Goto(pos, "exponent")
    BY <1>4 DEF Fraction
  <2> QED
    BY <1>1, <1>2, <2>1 DEF ReadInv, Goto
<1> QED
  BY <1>3, <1>4

LEMMA ExponentReads ==
    ASSUME ReadInv, Exponent
    PROVE  ReadInv'
<1> DEFINE n == Len(chars)
<1>1. pc = "exponent" /\ pos \in 1..n + 1 /\ n \in Nat /\ chars \in Seq(Characters) /\ pos \in Nat
  BY DEF ReadInv, Exponent
<1>2. PICK a, f \in Nat : Shape(chars, pos - 1, a, f, pos, pos + 1)
  BY <1>1 DEF ReadInv
<1>3. CASE At(pos) \in {"e", "E"}
  <2> DEFINE x == IF At(pos + 1) \in {"+", "-"} THEN pos + 2 ELSE pos + 1
             q == DigitsEnd(x)
  <2>1. pos \in 1..n /\ chars[pos] \in {"e", "E"}
    BY <1>1, <1>3, AtIs
  <2>2. pos + 1 \in Nat
    BY <1>1
  <2>3. At(pos + 1) \in {"+", "-"} => pos + 1 \in 1..n
    BY <1>1, <2>2, AtIs
  <2>4. x \in 1..n + 1 /\ x \in {pos + 1, pos + 2}
    BY <1>1, <2>1, <2>3
  <2>5. IF q = x THEN Fail ELSE Goto(q, "convert")
    BY <1>3 DEF Exponent, Digits
  <2>6. pos + 1 \in 1..n => At(pos + 1) = chars[pos + 1]
    BY <1>1, <2>2, AtIs
  <2>7. x = IF At(pos + 1) \in {"+", "-"} THEN pos + 2 ELSE pos + 1
    OBVIOUS
  <2> HIDE DEF x
  <2>8. q \in x..n + 1 /\ DigitsAt(chars, x, q - 1)
    BY <1>1, <2>4, DigitsEndIs
  <2> HIDE DEF q
  <2>9. CASE q = x
    BY <1>1, <2>5, <2>9, FailReads
  <2>10. CASE q # x
    <3>1. x <= q - 1 /\ q \in 1..n + 1 /\ Goto(q, "convert") /\ pos <= q - 1
      BY <1>1, <2>4, <2>5, <2>8, <2>10
    <3>2. x = IF pos < q - 1 /\ chars[pos + 1] \in {"+", "-"} THEN pos + 2 ELSE pos + 1
      <4>1. CASE At(pos + 1) \in {"+", "-"}
        <5>1. pos < q - 1
          BY <1>1, <2>7, <3>1, <4>1
        <5> QED
          BY <2>3, <2>6, <2>7, <4>1, <5>1
      <4>2. CASE At(pos + 1) \notin {"+", "-"}
        <5>1. pos < q - 1 => pos + 1 \in 1..n
          BY <1>1, <3>1
        <5> QED
          BY <2>6, <2>7, <4>2, <5>1
      <4> QED
        BY <4>1, <4>2
    <3>3. Shape(chars, q - 1, a, f, pos, x)
      BY <1>1, <1>2, <2>1, <2>8, <3>1, <3>2 DEF Shape
    <3>4. x \in Nat
      BY <2>4
    <3> QED
      BY <1>1, <3>1, <3>3, <3>4 DEF ReadInv, Goto
  <2> QED
    BY <2>9, <2>10
<1>4. CASE At(pos) \notin {"e", "E"}
  <2>1. Goto(pos, "convert") /\ pos + 1 \in Nat
    BY <1>1, <1>4 DEF Exponent
  <2> QED
    BY <1>1, <1>2, <2>1 DEF ReadInv, Goto
<1> QED
  BY <1>3, <1>4

\* The token of a number has its shape.
LEMMA TokenIs ==
    ASSUME ReadInv, pc \in {"convert", "parsed"}
    PROVE  /\ Token \in Seq(Characters) /\ IsNumber(Token) /\ Len(Token) = pos - 1
           /\ \E a, f, e, x \in Nat : Shape(Token, Len(Token), a, f, e, x)
<1>1. /\ chars \in Seq(Characters) /\ pos \in 1..Len(chars) + 1 /\ Len(chars) \in Nat
      /\ pos - 1 \in 0..Len(chars)
  BY DEF ReadInv
<1>2. PICK a, f, e, x \in Nat : Shape(chars, pos - 1, a, f, e, x)
  BY DEF ReadInv
<1>3. Shape(Token, Len(Token), a, f, e, x)
  BY <1>1, <1>2, ShapeOfPart DEF Token
<1>4. Token \in Seq(Characters) /\ Len(Token) = pos - 1
  BY <1>1 DEF Token
<1>5. IsNumber(Token)
  BY <1>3, <1>4, ShapeNumber
<1> QED
  BY <1>3, <1>4, <1>5

LEMMA ConvertReads ==
    ASSUME ReadInv, Convert
    PROVE  ReadInv'
<1>1. /\ pc = "convert" /\ UNCHANGED <<chars, pos, first>>
      /\ IF OutOfDomain(Token) THEN pc' = "failed" /\ UNCHANGED number
                              ELSE pc' = "parsed" /\ number' = F64(Token)
  BY DEF Convert
<1>2. Token' = Token
  BY <1>1 DEF Token
<1>3. CASE OutOfDomain(Token)
  BY <1>1, <1>3 DEF ReadInv
<1>4. CASE ~OutOfDomain(Token)
  <2>1. F64(Token) \in Double \cup {Infinity}
    BY <1>1, TokenIs, F64Type
  <2>2. F64(Token) # Infinity
    BY <1>4 DEF OutOfDomain
  <2>3. pc' = "parsed" /\ number' = F64(Token) /\ number' \in Double
    BY <1>1, <1>4, <2>1, <2>2
  <2>4. number' = F64(Token') /\ ~OutOfDomain(Token')
    BY <1>2, <1>4, <2>3
  <2> QED
    BY <1>1, <2>3, <2>4 DEF ReadInv
<1> QED
  BY <1>3, <1>4

LEMMA RewriteReads ==
    ASSUME ReadInv, Rewrite
    PROVE  ReadInv'
<1>1. /\ pc \in {"parsed", "built"} /\ chars' = WriteNumber(number) /\ pos' = 1 /\ pc' = "int"
      /\ first' = number /\ number' = NoNumber
  BY DEF Rewrite, Unwritten
<1>4. number \in Double
  <2>1. IsFinite(number)
    BY DEF Rewrite, WriteNumber
  <2> QED
    BY <1>1, <2>1 DEF ReadInv, IsFinite
<1>2. chars' \in Seq(Characters)
  BY <1>1, <1>4, WriteType
<1>3. pos' \in 1..Len(chars') + 1
  BY <1>1, <1>2
<1> QED
  BY <1>1, <1>2, <1>3, <1>4 DEF ReadInv

LEMMA RefuseReads ==
    ASSUME ReadInv, Refuse
    PROVE  ReadInv'
BY DEF ReadInv, Refuse, Unwritten

\* So it always holds.
LEMMA ReadHolds == Spec => []ReadInv
<1>1. Init => ReadInv
  <2>1. ASSUME ParseInit, pos = 1, first = NoNumber PROVE ReadInv
    BY <2>1, CharactersAre DEF ParseInit, ReadInv
  <2>2. ASSUME BuiltInit, pos = 1, first = NoNumber PROVE ReadInv
    <3>1. chars = <<>> /\ chars \in Seq(Characters) /\ pos \in 1..Len(chars) + 1 /\ pc = "built"
      BY <2>2 DEF BuiltInit
    <3>2. number \in Double \cup NonFinite
      <4>1. ASSUME NEW t \in Texts, IsNumber(t) PROVE F64(t) \in Double \cup NonFinite
        BY <4>1, CharactersAre, F64Type DEF NonFinite
      <4> QED
        BY <2>2, <4>1 DEF BuiltInit
    <3>3. NoNumber \notin Double \cup NonFinite
      <4>1. NoNumber.digits = <<"none">> /\ "none" \notin Digit
        BY DigitIs DEF NoNumber
      <4>2. NoNumber \notin Double
        <5>1. <<"none">> \notin Seq(Digit)
          BY <4>1
        <5> QED
          BY <4>1, <5>1 DEF Double
      <4>3. NoNumber \notin NonFinite
        BY <4>1 DEF NonFinite, Infinity, NotANumber
      <4> QED
        BY <4>2, <4>3
    <3> QED
      BY <2>2, <3>1, <3>2, <3>3 DEF ReadInv
  <2> QED
    BY <2>1, <2>2 DEF Init
<1>2. ReadInv /\ [Next]_vars => ReadInv'
  <2> SUFFICES ASSUME ReadInv, [Next]_vars PROVE ReadInv'
    OBVIOUS
  <2>1. CASE UNCHANGED vars
    BY <2>1 DEF vars, ReadInv, Token
  <2> QED
    BY <2>1, IntegerReads, FractionReads, ExponentReads, ConvertReads, RewriteReads, RefuseReads
       DEF Next
<1> QED
  BY <1>1, <1>2, PTL DEF Spec

\* TypeOK: every variable keeps its type, and the parser stays within its text
\* (canonical.rs:385-387, 597-689).
THEOREM NumberTypes == Spec => []TypeOK
<1>1. ReadInv => TypeOK
  <2> SUFFICES ASSUME ReadInv PROVE TypeOK
    OBVIOUS
  <2>1. NoNumber.negative \in BOOLEAN /\ NoNumber.point \in Point
    BY JsonNumberAssumption DEF NoNumber, Point
  <2>2. ASSUME NEW x \in NonFinite PROVE x.negative \in BOOLEAN /\ x.point \in Point
    <3>1. CASE x = Infinity
      BY <3>1, PointIs DEF Infinity
    <3>2. CASE x = NotANumber
      BY <3>2, PointIs DEF NotANumber
    <3>3. CASE x = [Infinity EXCEPT !.negative = TRUE]
      <4>1. x = [negative |-> TRUE, digits |-> <<"inf">>, point |-> 0]
        BY <3>3 DEF Infinity
      <4> QED
        BY <4>1, PointIs
    <3> QED
      BY <3>1, <3>2, <3>3 DEF NonFinite
  <2> QED
    BY <2>1, <2>2 DEF ReadInv, TypeOK, Double
<1> QED
  BY <1>1, ReadHolds, PTL

-----------------------------------------------------------------------------
(* And backward: where there is a number, parse_number goes past it. *)

\* What may follow a number, besides the end of the text.
Terminators == {",", "]", "}", " "}

\* How many characters there are up to a terminator.
Extent == PositionOf(chars, Terminators) - 1

\* Lexeme has that extent, and a terminator or nothing behind it.
LEMMA ExtentIs ==
    ASSUME chars \in Seq(Characters)
    PROVE  /\ Extent \in 0..Len(chars) /\ Lexeme = SubSeq(chars, 1, Extent)
           /\ Terminated(Extent + 1) /\ At(Extent + 1) \notin Digit
           /\ \A i \in 1..Extent : chars[i] \notin Terminators
           /\ Extent < Len(chars) => chars[Extent + 1] \in Terminators
<1> DEFINE q == PositionOf(chars, Terminators)
<1>1. /\ q \in 1..Len(chars) + 1
      /\ \A i \in 1..q - 1 : chars[i] \notin Terminators
      /\ q <= Len(chars) => chars[q] \in Terminators
  BY PositionIs
<1>2. Extent = q - 1 /\ Lexeme = SubSeq(chars, 1, q - 1) /\ Len(chars) \in Nat
  BY DEF Extent, Lexeme, Terminators
<1> HIDE DEF q
<1>3. (q - 1) + 1 = q /\ q - 1 \in 0..Len(chars) /\ q \in Nat
  BY <1>1, <1>2
<1>4. At(q) \in Terminators \cup {"end"}
  BY <1>1, <1>2 DEF At
<1>5. Terminated(q) /\ At(q) \notin Digit
  BY <1>4, NoDigit DEF Terminated, Terminators
<1>6. q - 1 < Len(chars) => q <= Len(chars)
  BY <1>1, <1>2
<1> QED
  BY <1>1, <1>2, <1>3, <1>5, <1>6

\* What stands where a part of a number ends.
LEMMA PartsEnd ==
    ASSUME chars \in Seq(Characters), NEW a \in Nat, NEW f \in Nat, NEW e \in Nat, NEW x \in Nat,
           Shape(chars, Extent, a, f, e, x)
    PROVE  /\ Extent \in 0..Len(chars) /\ a \in 1..Extent /\ f \in a + 1..Extent + 1
           /\ e \in f..Extent + 1 /\ x \in {e + 1, e + 2}
           /\ At(1) = "-" <=> a = 2
           /\ At(a) = chars[a] /\ At(a) \in Digit
           /\ At(f) \notin Digit /\ At(e) \notin Digit
           /\ At(f) = "." <=> f < e
           /\ At(e) \in {"e", "E"} <=> e <= Extent
<1> DEFINE n == Extent
<1>1. /\ n \in 0..Len(chars) /\ Terminated(n + 1) /\ At(n + 1) \notin Digit /\ Len(chars) \in Nat
  BY ExtentIs
<1> HIDE DEF n
<1>2. Shape(chars, n, a, f, e, x)
  BY DEF n
<1>3. a \in 1..n /\ f \in a + 1..n + 1 /\ e \in f..n + 1 /\ x \in {e + 1, e + 2} /\ a \in {1, 2}
  BY <1>1, <1>2 DEF Shape
<1>4. ASSUME NEW i \in 1..n PROVE At(i) = chars[i]
  BY <1>1 DEF At
<1>5. At(1) = "-" <=> a = 2
  <2>1. 1 \in 1..n
    BY <1>1, <1>3
  <2> QED
    BY <1>2, <1>4, <2>1 DEF Shape
<1>6. At(a) = chars[a] /\ At(a) \in Digit
  <2>1. a \in a..f - 1
    BY <1>1, <1>3
  <2> QED
    BY <1>2, <1>3, <1>4, <2>1 DEF Shape, DigitsAt
<1>7. At(n + 1) \notin {".", "e", "E"}
  BY <1>1 DEF Terminated
<1>8. At(e) \notin Digit /\ At(e) # "." /\ (At(e) \in {"e", "E"} <=> e <= n)
  <2>1. CASE e <= n
    <3>1. e \in 1..n /\ chars[e] \in {"e", "E"}
      BY <1>1, <1>2, <1>3, <2>1 DEF Shape
    <3> QED
      BY <1>4, <2>1, <3>1, NoDigit
  <2>2. CASE ~(e <= n)
    <3>1. e = n + 1
      BY <1>1, <1>3, <2>2
    <3> QED
      BY <1>1, <1>7, <2>2, <3>1
  <2> QED
    BY <2>1, <2>2
<1>9. At(f) \notin Digit /\ (At(f) = "." <=> f < e)
  <2>1. CASE f < e
    <3>1. f \in 1..n /\ chars[f] = "."
      BY <1>1, <1>2, <1>3, <2>1 DEF Shape
    <3> QED
      BY <1>4, <2>1, <3>1, NoDigit
  <2>2. CASE ~(f < e)
    <3>1. f = e
      BY <1>1, <1>3, <2>2
    <3> QED
      BY <1>8, <2>2, <3>1
  <2> QED
    BY <2>1, <2>2
<1> QED
  BY <1>1, <1>3, <1>5, <1>6, <1>8, <1>9 DEF n

\* When the text up to a terminator is a number, each part of parse_number ends where
\* that part of the number does, and nothing but its value makes it fail.
FollowInv ==
    \A a, f, e, x \in Nat : Shape(chars, Extent, a, f, e, x) =>
        /\ pc = "fraction" => pos = f
        /\ pc = "exponent" => pos = e
        /\ pc \in {"convert", "parsed"} => pos = Extent + 1
        /\ pc = "failed" => OutOfDomain(Lexeme)

\* Each part ends where that part of the number does.
LEMMA IntegerFollows ==
    ASSUME ReadInv, IntegerPart, NEW a \in Nat, NEW f \in Nat, NEW e \in Nat, NEW x \in Nat,
           Shape(chars, Extent, a, f, e, x)
    PROVE  pc' = "fraction" /\ pos' = f
<1>1. pos = 1 /\ chars \in Seq(Characters) /\ Len(chars) \in Nat
  BY DEF ReadInv, IntegerPart
<1>2. /\ Extent \in 0..Len(chars) /\ a \in 1..Extent /\ f \in a + 1..Extent + 1
      /\ At(1) = "-" <=> a = 2
      /\ At(a) = chars[a] /\ At(a) \in Digit /\ At(f) \notin Digit
  BY <1>1, PartsEnd
<1> DEFINE p == IF At(pos) = "-" THEN pos + 1 ELSE pos
<1>3. p = a
  <2>1. a \in {1, 2}
    BY DEF Shape
  <2> QED
    BY <1>1, <1>2, <2>1
<1>4. \/ At(p) = "0" /\ Goto(p + 1, "fraction")
      \/ At(p) \in NonzeroDigit /\ Goto(DigitsEnd(p), "fraction")
      \/ At(p) \notin Digit /\ Fail
  BY IntegerBranch
<1> HIDE DEF p
<1>5. \/ At(a) = "0" /\ Goto(a + 1, "fraction")
      \/ Goto(DigitsEnd(a), "fraction")
  BY <1>2, <1>3, <1>4
<1>6. At(a) = "0" => f = a + 1
  BY <1>2 DEF Shape
<1>7. DigitsEnd(a) = f
  <2>1. a \in 1..Len(chars) + 1 /\ f \in a..Len(chars) + 1
    BY <1>1, <1>2
  <2>2. DigitsAt(chars, a, f - 1)
    BY DEF Shape
  <2> QED
    BY <1>1, <1>2, <2>1, <2>2, DigitsEndUnique
<1> QED
  BY <1>5, <1>6, <1>7 DEF Goto

LEMMA FractionFollows ==
    ASSUME ReadInv, Fraction, NEW a \in Nat, NEW f \in Nat, NEW e \in Nat, NEW x \in Nat,
           Shape(chars, Extent, a, f, e, x), pos = f
    PROVE  pc' = "exponent" /\ pos' = e
<1>1. chars \in Seq(Characters) /\ Len(chars) \in Nat
  BY DEF ReadInv
<1>2. /\ Extent \in 0..Len(chars) /\ a \in 1..Extent /\ f \in a + 1..Extent + 1
      /\ e \in f..Extent + 1 /\ At(e) \notin Digit /\ (At(f) = "." <=> f < e)
  BY <1>1, PartsEnd
<1>3. CASE f < e
  <2>1. f + 1 < e /\ DigitsAt(chars, f + 1, e - 1)
    BY <1>3 DEF Shape
  <2>2. f + 1 \in 1..Len(chars) + 1 /\ e \in f + 1..Len(chars) + 1 /\ e # f + 1
    BY <1>1, <1>2, <2>1
  <2>3. DigitsEnd(f + 1) = e
    BY <1>1, <1>2, <2>1, <2>2, DigitsEndUnique
  <2> QED
    BY <1>2, <1>3, <2>2, <2>3 DEF Fraction, Digits, Goto
<1>4. CASE ~(f < e)
  <2>1. f = e
    BY <1>1, <1>2, <1>4
  <2> QED
    BY <1>2, <1>4, <2>1 DEF Fraction, Goto
<1> QED
  BY <1>3, <1>4

LEMMA ExponentFollows ==
    ASSUME ReadInv, Exponent, NEW a \in Nat, NEW f \in Nat, NEW e \in Nat, NEW x \in Nat,
           Shape(chars, Extent, a, f, e, x), pos = e
    PROVE  pc' = "convert" /\ pos' = Extent + 1
<1>1. chars \in Seq(Characters) /\ Len(chars) \in Nat
  BY DEF ReadInv
<1>2. /\ Extent \in 0..Len(chars) /\ a \in 1..Extent /\ f \in a + 1..Extent + 1
      /\ e \in f..Extent + 1 /\ x \in {e + 1, e + 2}
      /\ At(e) \in {"e", "E"} <=> e <= Extent
  BY <1>1, PartsEnd
<1>3. CASE e <= Extent
  <2>1. x <= Extent /\ DigitsAt(chars, x, Extent)
        /\ x = IF e < Extent /\ chars[e + 1] \in {"+", "-"} THEN e + 2 ELSE e + 1
    BY <1>3 DEF Shape
  <2>2. /\ x \in 1..Len(chars) + 1 /\ Extent + 1 \in x..Len(chars) + 1 /\ Extent + 1 # x
        /\ (Extent + 1) - 1 = Extent /\ e < Extent /\ e + 1 \in 1..Len(chars)
    BY <1>1, <1>2, <2>1
  <2>3. At(Extent + 1) \notin Digit
    BY <1>1, ExtentIs
  <2>4. DigitsEnd(x) = Extent + 1
    BY <1>1, <2>1, <2>2, <2>3, DigitsEndUnique
  <2>5. x = IF At(e + 1) \in {"+", "-"} THEN e + 2 ELSE e + 1
    BY <2>1, <2>2 DEF At
  <2>6. Digits(x, "convert")
    BY <1>2, <1>3, <2>5 DEF Exponent
  <2> QED
    BY <2>2, <2>4, <2>6 DEF Digits, Goto
<1>4. CASE ~(e <= Extent)
  <2>1. e = Extent + 1
    BY <1>1, <1>2, <1>4
  <2> QED
    BY <1>2, <1>4, <2>1 DEF Exponent, Goto
<1> QED
  BY <1>3, <1>4

\* So every step keeps FollowInv.
LEMMA FollowNext == ReadInv /\ FollowInv /\ [Next]_vars => FollowInv'
<1> SUFFICES ASSUME ReadInv, FollowInv, [Next]_vars PROVE FollowInv'
  OBVIOUS
<1>1. CASE Rewrite
  BY <1>1 DEF Rewrite, FollowInv
<1>3. CASE Refuse
  BY <1>3 DEF Refuse, FollowInv
<1>2. CASE ~Rewrite /\ ~Refuse
  <2>1. chars' = chars
    BY <1>2 DEF Next, vars, IntegerPart, Fraction, Exponent, Convert, Digits, Goto, Fail
  <2>2. Extent' = Extent /\ Lexeme' = Lexeme
    BY <2>1 DEF Extent, Lexeme
  <2> SUFFICES ASSUME NEW a \in Nat, NEW f \in Nat, NEW e \in Nat, NEW x \in Nat,
                      Shape(chars, Extent, a, f, e, x)
               PROVE  /\ pc' = "fraction" => pos' = f
                      /\ pc' = "exponent" => pos' = e
                      /\ pc' \in {"convert", "parsed"} => pos' = Extent + 1
                      /\ pc' = "failed" => OutOfDomain(Lexeme)
    BY <2>1, <2>2 DEF FollowInv
  <2>3. /\ pc = "fraction" => pos = f
        /\ pc = "exponent" => pos = e
        /\ pc \in {"convert", "parsed"} => pos = Extent + 1
        /\ pc = "failed" => OutOfDomain(Lexeme)
    BY DEF FollowInv
  <2>4. CASE IntegerPart
    BY <2>4, IntegerFollows
  <2>5. CASE Fraction
    <3>1. pos = f
      BY <2>3, <2>5 DEF Fraction
    <3> QED
      BY <2>5, <3>1, FractionFollows
  <2>6. CASE Exponent
    <3>1. pos = e
      BY <2>3, <2>6 DEF Exponent
    <3> QED
      BY <2>6, <3>1, ExponentFollows
  <2>7. CASE Convert
    <3>1. pos = Extent + 1 /\ pos' = pos
      BY <2>3, <2>7 DEF Convert
    <3>2. (Extent + 1) - 1 = Extent
      BY ExtentIs DEF ReadInv
    <3>3. Token = Lexeme
      BY <3>1, <3>2, ExtentIs DEF Token, ReadInv
    <3> QED
      BY <2>7, <3>1, <3>3 DEF Convert
  <2>8. CASE UNCHANGED vars
    BY <2>3, <2>8 DEF vars
  <2> QED
    BY <1>2, <2>4, <2>5, <2>6, <2>7, <2>8 DEF Next
<1> QED
  BY <1>1, <1>2, <1>3

LEMMA FollowHolds == Spec => []FollowInv
<1>1. Init => FollowInv
  BY DEF Init, ParseInit, BuiltInit, FollowInv
<1> QED
  BY <1>1, FollowNext, ReadHolds, PTL DEF Spec

-----------------------------------------------------------------------------
(* Numbers are exact. *)

\* A number has no other characters, and its digits are in its parts.
LEMMA ShapeElements ==
    ASSUME NEW s, NEW n \in Nat, NEW a \in Nat, NEW f \in Nat, NEW e \in Nat, NEW x \in Nat,
           Shape(s, n, a, f, e, x), NEW i \in 1..n
    PROVE  \/ s[i] \in {"-", "+", ".", "e", "E"}
           \/ i \in a..f - 1 /\ s[i] \in Digit
           \/ i \in f + 1..e - 1 /\ s[i] \in Digit
           \/ e <= n /\ s[i] \in Digit
<1>1. a \in {1, 2} /\ a < f /\ f <= e /\ e <= n + 1 /\ x \in {e + 1, e + 2}
  BY DEF Shape
<1>2. CASE i < a
  <2>1. i = 1 /\ a = 2
    BY <1>1, <1>2
  <2> QED
    BY <2>1 DEF Shape
<1>3. CASE i \in a..f - 1
  BY <1>3 DEF Shape, DigitsAt
<1>4. CASE i = f /\ f < e
  BY <1>4 DEF Shape
<1>5. CASE i \in f + 1..e - 1
  <2>1. f < e
    BY <1>1, <1>5
  <2> QED
    BY <1>5, <2>1 DEF Shape, DigitsAt
<1>6. CASE e <= i
  <2>1. e <= n
    BY <1>1, <1>6
  <2>2. CASE i = e
    BY <2>1, <2>2 DEF Shape
  <2>3. CASE i \in x..n
    BY <2>1, <2>3 DEF Shape, DigitsAt
  <2>4. CASE i # e /\ i \notin x..n
    <3>1. i = e + 1 /\ x = e + 2
      BY <1>1, <1>6, <2>4
    <3>2. s[e + 1] \in {"+", "-"}
      BY <3>1 DEF Shape
    <3> QED
      BY <3>1, <3>2
  <2> QED
    BY <2>2, <2>3, <2>4
<1> QED
  BY <1>1, <1>2, <1>3, <1>4, <1>5, <1>6

\* The significand has a digit, and all of them are in the token.
LEMMA SignificandIs ==
    ASSUME NEW C, NEW s \in Seq(C), NEW a \in Nat, NEW f \in Nat, NEW e \in Nat,
           NEW x \in Nat, Shape(s, Len(s), a, f, e, x)
    PROVE  LET S == ToSet(Parts(s).int \o Parts(s).fraction)
           IN  /\ S # {} /\ S \subseteq Digit /\ S \subseteq ToSet(s)
               /\ \A i \in (a..f - 1) \cup (f + 1..e - 1) : s[i] \in S
<1> DEFINE u == Parts(s).int
           v == Parts(s).fraction
           n == Len(s)
           S == ToSet(u \o v)
<1>1. u = SubSeq(s, a, f - 1) /\ v = SubSeq(s, f + 1, e - 1)
  BY ShapeParts
<1>2. u \in Seq(Digit) /\ v \in Seq(Digit)
  BY PartsType
<1>3. n \in Nat /\ a \in {1, 2} /\ a < f /\ f <= e /\ e <= n + 1
  BY DEF Shape
<1> HIDE DEF u, v
<1>4. Len(u) = f - a /\ \A l \in 1..Len(u) : u[l] = s[a + l - 1]
  <2>1. a > 0 /\ f - 1 \in Nat /\ f - 1 <= n /\ a <= f - 1 /\ (f - 1) - a + 1 = f - a
    BY <1>3
  <2> QED
    BY <1>1, <2>1, PartIs
<1>5. /\ Len(v) = IF f < e THEN e - 1 - f ELSE 0
      /\ \A l \in 1..Len(v) : v[l] = s[f + l]
  <2>1. /\ f + 1 \in Nat /\ f + 1 > 0 /\ e - 1 \in Nat /\ e - 1 <= n
        /\ (f + 1 <= e - 1 => (e - 1) - (f + 1) + 1 = e - 1 - f)
        /\ (~(f + 1 <= e - 1) /\ f < e => e - 1 - f = 0)
        /\ (f + 1 <= e - 1 => f < e)
    BY <1>3
  <2>2. Len(v) = (IF f + 1 <= e - 1 THEN (e - 1) - (f + 1) + 1 ELSE 0)
        /\ \A l \in 1..Len(v) : v[l] = s[(f + 1) + l - 1]
    BY <1>1, <2>1, PartIs
  <2>3. \A l \in 1..Len(v) : (f + 1) + l - 1 = f + l
    BY <1>2, <1>3
  <2> QED
    BY <2>1, <2>2, <2>3
<1>6. S = {u[l] : l \in 1..Len(u)} \cup {v[l] : l \in 1..Len(v)}
  <2> DEFINE w == u \o v
  <2>1. w \in Seq(Digit) /\ Len(w) = Len(u) + Len(v) /\ DOMAIN w = 1..Len(w)
    BY <1>2
  <2>2. \A l \in 1..Len(u) : l \in 1..Len(w) /\ w[l] = u[l]
    BY <1>2
  <2>3. \A l \in 1..Len(v) : Len(u) + l \in 1..Len(w) /\ w[Len(u) + l] = v[l]
    BY <1>2
  <2>4. \A l \in 1..Len(w) : l \in 1..Len(u) \/ (l - Len(u) \in 1..Len(v) /\ Len(u) + (l - Len(u)) = l)
    BY <1>2, <2>1
  <2> HIDE DEF w
  <2>5. \A l \in 1..Len(w) : w[l] \in {u[m] : m \in 1..Len(u)} \cup {v[m] : m \in 1..Len(v)}
    BY <2>2, <2>3, <2>4
  <2>6. ToSet(w) = {u[l] : l \in 1..Len(u)} \cup {v[l] : l \in 1..Len(v)}
    <3>1. ToSet(w) = {w[l] : l \in 1..Len(w)}
      BY <2>1, Zenon DEF ToSet
    <3>2. ToSet(w) \subseteq {u[l] : l \in 1..Len(u)} \cup {v[l] : l \in 1..Len(v)}
      BY <2>5, <3>1
    <3>3. \A l \in 1..Len(u) : u[l] \in ToSet(w)
      BY <2>2, <3>1
    <3>4. \A l \in 1..Len(v) : v[l] \in ToSet(w)
      BY <2>3, <3>1
    <3> QED
      BY <3>2, <3>3, <3>4
  <2> QED
    BY <2>6 DEF w
<1>7. S # {}
  <2>1. 1 \in 1..Len(u)
    BY <1>3, <1>4
  <2> QED
    BY <1>6, <2>1
<1>8. S \subseteq Digit
  BY <1>2, <1>6
<1> HIDE DEF S
<1>9. S \subseteq ToSet(s)
  <2>1. \A l \in 1..Len(u) : a + l - 1 \in 1..n
    BY <1>3, <1>4
  <2>2. \A l \in 1..Len(v) : f + l \in 1..n
    BY <1>3, <1>5
  <2>3. DOMAIN s = 1..n
    OBVIOUS
  <2>4. \A i \in 1..n : s[i] \in ToSet(s)
    BY <2>3, Zenon DEF ToSet
  <2>5. \A l \in 1..Len(u) : u[l] \in ToSet(s)
    BY <1>4, <2>1, <2>4
  <2>6. \A l \in 1..Len(v) : v[l] \in ToSet(s)
    BY <1>5, <2>2, <2>4
  <2> QED
    BY <1>6, <2>5, <2>6
<1>10. ASSUME NEW i \in a..f - 1 PROVE s[i] \in S
  <2>1. i - a + 1 \in 1..Len(u) /\ a + (i - a + 1) - 1 = i
    BY <1>3, <1>4
  <2> QED
    BY <1>4, <1>6, <2>1
<1>11. ASSUME NEW i \in f + 1..e - 1 PROVE s[i] \in S
  <2>1. i - f \in 1..Len(v) /\ f + (i - f) = i
    BY <1>3, <1>5
  <2> QED
    BY <1>5, <1>6, <2>1
<1> QED
  BY <1>7, <1>8, <1>9, <1>10, <1>11 DEF S, u, v

\* An accepted token is what a JSON reader sees.
LEMMA AcceptedLexeme ==
    ASSUME ReadInv, Accepted
    PROVE  Lexeme = Token
<1> DEFINE n == pos - 1
<1>1. /\ pc = "parsed" /\ chars \in Seq(Characters) /\ Len(chars) \in Nat
      /\ pos \in 1..Len(chars) + 1 /\ n \in Nat
  BY DEF ReadInv, Accepted
<1>2. PICK a, f, e, x \in Nat : Shape(chars, n, a, f, e, x)
  BY <1>1 DEF ReadInv
<1> HIDE DEF n
<1>3. ASSUME NEW i \in 1..n PROVE chars[i] \notin Terminators
  <2>1. chars[i] \in Digit \/ chars[i] \in {"-", "+", ".", "e", "E"}
    BY <1>1, <1>2, ShapeElements
  <2> DEFINE c == chars[i]
  <2>2. c \in Digit \/ c \in {"-", "+", ".", "e", "E"}
    BY <2>1
  <2> HIDE DEF c
  <2>3. c \notin Terminators
    BY <2>2, NoDigit DEF Terminators
  <2> QED
    BY <2>3 DEF c
<1>4. pos <= Len(chars) => chars[pos] \in Terminators
  <2> SUFFICES ASSUME pos <= Len(chars) PROVE chars[pos] \in Terminators
    OBVIOUS
  <2>1. pos \in 1..Len(chars) /\ pos \in Nat
    BY <1>1
  <2>2. At(pos) = chars[pos] /\ At(pos) # "end"
    BY <1>1, <2>1, AtIs
  <2> QED
    BY <2>2 DEF Accepted, Terminated, Terminators
<1>5. PositionOf(chars, Terminators) = pos
  BY <1>1, <1>3, <1>4, PositionUnique DEF n
<1> QED
  BY <1>5 DEF Lexeme, Terminators, Token

\* What is accepted is a number, and the double is its.
LEMMA AcceptedIsNumber ==
    ASSUME ReadInv, Accepted
    PROVE  /\ IsNumber(Lexeme) /\ number = F64(Lexeme)
           /\ number.digits = <<>> =>
                 ToSet(Parts(Lexeme).int \o Parts(Lexeme).fraction) = {"0"}
<1>1. pc = "parsed" /\ Lexeme = Token
  BY AcceptedLexeme DEF Accepted
<1>2. IsNumber(Lexeme) /\ Lexeme \in Seq(Characters)
  BY <1>1, TokenIs
<1>3. number = F64(Lexeme) /\ ~OutOfDomain(Lexeme)
  BY <1>1 DEF ReadInv
<1>4. PICK a, f, e, x \in Nat : Shape(Lexeme, Len(Lexeme), a, f, e, x)
  BY <1>1, TokenIs
<1> DEFINE S == ToSet(Parts(Lexeme).int \o Parts(Lexeme).fraction)
<1>5. S # {} /\ S \subseteq Digit /\ S \subseteq ToSet(Lexeme)
  BY <1>2, <1>4, SignificandIs
<1> HIDE DEF S
<1>6. ASSUME number.digits = <<>> PROVE S = {"0"}
  <2>1. ToSet(Lexeme) \cap NonzeroDigit = {}
    BY <1>3, <1>6 DEF OutOfDomain
  <2>2. \A c \in S : c = "0"
    BY <1>5, <2>1 DEF NonzeroDigit
  <2> QED
    BY <1>5, <2>2
<1> QED
  BY <1>2, <1>3, <1>6 DEF S

\* A number is accepted unless its value is out of the domain.
LEMMA NumberIsAccepted ==
    ASSUME ReadInv, FollowInv, pc \in {"parsed", "failed"}, IsNumber(Lexeme)
    PROVE  Accepted \/ OutOfDomain(Lexeme)
<1>1. chars \in Seq(Characters)
  BY DEF ReadInv
<1>2. /\ Extent \in 0..Len(chars) /\ Lexeme = SubSeq(chars, 1, Extent)
      /\ Terminated(Extent + 1)
  BY <1>1, ExtentIs
<1>3. Lexeme \in Seq(Characters)
  BY <1>1, <1>2
<1>4. PICK a, f, e, x \in Nat : Shape(Lexeme, Len(Lexeme), a, f, e, x)
  BY <1>3, NumberShape
<1>5. Shape(chars, Extent, a, f, e, x)
  BY <1>1, <1>2, <1>4, ShapeOfPart
<1> QED
  BY <1>2, <1>5 DEF FollowInv, Accepted

\* A number of zeros without an exponent is zero, and inside the domain.
LEMMA ZerosAreKept ==
    ASSUME NEW C, NEW s \in Seq(C), IsNumber(s), ~Parts(s).scaled,
           ToSet(Parts(s).int \o Parts(s).fraction) = {"0"}
    PROVE  F64(s) = Zero(Parts(s).negative) /\ ~OutOfDomain(s)
<1> DEFINE p == Parts(s)
           all == p.int \o p.fraction
           n == Len(s)
<1>1. PICK a, f, e, x \in Nat : Shape(s, n, a, f, e, x)
  BY NumberShape
<1>2. p.scaled = (e <= n) /\ n \in Nat
  BY <1>1, ShapeParts
<1>3. p.int \in Seq(Digit) /\ p.fraction \in Seq(Digit)
  BY <1>1, PartsType
<1>4. \A i \in (a..f - 1) \cup (f + 1..e - 1) : s[i] = "0"
  BY <1>1, SignificandIs
<1>5. ~(e <= n)
  BY <1>2
<1> HIDE DEF n
<1>6. ASSUME NEW i \in 1..n PROVE s[i] \notin NonzeroDigit
  <2>1. s[i] = "0" \/ s[i] \in {"-", "+", ".", "e", "E"}
    BY <1>1, <1>2, <1>4, <1>5, ShapeElements
  <2> QED
    BY <2>1, NoDigit DEF NonzeroDigit
<1>7. ToSet(s) \cap NonzeroDigit = {}
  BY <1>6 DEF ToSet, n
<1>8. F64(s) = Zero(p.negative)
  <2>1. ToSet(all) = {"0"} /\ all \in Seq(Digit)
    BY <1>3
  <2> HIDE DEF p
  <2>2. \A i \in 1..Len(all) : all[i] \in ToSet(all)
    <3> HIDE DEF all
    <3>1. DOMAIN all = 1..Len(all)
      BY <2>1
    <3> QED
      BY <3>1, Zenon DEF ToSet
  <2>3. LastNonzero(all) = 0
    <3> HIDE DEF all
    <3>1. LastNonzero(all) \in 0..Len(all)
          /\ (LastNonzero(all) # 0 => all[LastNonzero(all)] \in NonzeroDigit)
      BY <2>1, LastIs
    <3>2. LastNonzero(all) # 0 => LastNonzero(all) \in 1..Len(all)
      BY <2>1, <3>1
    <3> QED
      BY <2>1, <2>2, <3>1, <3>2 DEF NonzeroDigit
  <2> QED
    BY <2>3 DEF F64, LastNonzero, p
<1>9. F64(s).digits = <<>> /\ Infinity.digits # <<>>
  BY <1>8 DEF Zero, Infinity
<1> QED
  BY <1>7, <1>8, <1>9 DEF OutOfDomain, p

\* NumbersAreExact, for texts of any length and every range of the point: parse_number
\* accepts the numbers of the grammar that a double keeps, up to the terminator
\* a JSON reader sees, and nothing else (canonical.rs:18-23, 597-605).
THEOREM NumbersHold == Spec => []NumbersAreExact
<1>1. ReadInv /\ FollowInv => NumbersAreExact
  <2> SUFFICES ASSUME ReadInv, FollowInv, pc \in {"parsed", "failed"}
               PROVE  NumbersAreExact
    BY DEF NumbersAreExact
  <2> DEFINE s == Lexeme
             S == ToSet(Parts(s).int \o Parts(s).fraction)
  <2>1. Accepted => IsNumber(s) /\ number = F64(s) /\ IsFinite(number)
    BY AcceptedIsNumber, DoubleIsFinite DEF Accepted, ReadInv
  <2>2. Accepted /\ number.digits = <<>> => S = {"0"}
    BY AcceptedIsNumber
  <2>3. IsNumber(s) /\ S # {"0"} /\ F64(s) # Infinity /\ F64(s).digits # <<>> => Accepted
    BY NumberIsAccepted DEF OutOfDomain
  <2>4. IsNumber(s) /\ S = {"0"} /\ ~Parts(s).scaled => Accepted
    <3>1. s \in Seq(Characters)
      <4>1. chars \in Seq(Characters)
        BY DEF ReadInv
      <4>2. Extent \in 0..Len(chars) /\ s = SubSeq(chars, 1, Extent)
        BY <4>1, ExtentIs
      <4> QED
        BY <4>1, <4>2
    <3> QED
      BY <3>1, NumberIsAccepted, ZerosAreKept
  <2> QED
    BY <2>1, <2>2, <2>3, <2>4 DEF NumbersAreExact
<1> QED
  BY <1>1, ReadHolds, FollowHolds, PTL

-----------------------------------------------------------------------------
(* What is written: a sign, an integer part, a fraction and an exponent. *)

\* Sequences with the same elements.
LEMMA SameElements ==
    ASSUME NEW C, NEW s \in Seq(C), NEW t \in Seq(C), Len(s) = Len(t),
           \A i \in 1..Len(s) : s[i] = t[i]
    PROVE  s = t
<1>1. s = [i \in 1..Len(s) |-> s[i]] /\ t = [i \in 1..Len(t) |-> t[i]]
  OBVIOUS
<1> QED
  BY <1>1

\* Where the parts of a sequence are.
LEMMA TwoParts ==
    ASSUME NEW C, NEW u \in Seq(C), NEW v \in Seq(C)
    PROVE  /\ u \o v \in Seq(C) /\ Len(u) \in Nat /\ Len(v) \in Nat
           /\ Len(u \o v) = Len(u) + Len(v)
           /\ \A i \in 1..Len(u) : (u \o v)[i] = u[i]
           /\ \A i \in 1..Len(v) : (u \o v)[Len(u) + i] = v[i]
OBVIOUS

\* Where four parts of a sequence are.
Consists(w, C, s, t, u, v) ==
    /\ w \in Seq(C) /\ Len(w) = Len(s) + Len(t) + Len(u) + Len(v)
    /\ \A i \in 1..Len(s) : w[i] = s[i]
    /\ \A i \in 1..Len(t) : w[Len(s) + i] = t[i]
    /\ \A i \in 1..Len(u) : w[Len(s) + Len(t) + i] = u[i]
    /\ \A i \in 1..Len(v) : w[Len(s) + Len(t) + Len(u) + i] = v[i]

\* And a sequence put together from four has them.
LEMMA FourParts ==
    ASSUME NEW C, NEW s \in Seq(C), NEW t \in Seq(C), NEW u \in Seq(C), NEW v \in Seq(C)
    PROVE  Consists(s \o t \o u \o v, C, s, t, u, v)
<1> DEFINE x == s \o t
           y == x \o u
           w == y \o v
<1>1. /\ x \in Seq(C) /\ Len(x) = Len(s) + Len(t) /\ Len(s) \in Nat /\ Len(t) \in Nat
      /\ \A i \in 1..Len(s) : x[i] = s[i]
      /\ \A i \in 1..Len(t) : x[Len(s) + i] = t[i]
  BY TwoParts
<1> HIDE DEF x
<1>2. /\ y \in Seq(C) /\ Len(y) = Len(x) + Len(u) /\ Len(u) \in Nat
      /\ \A i \in 1..Len(x) : y[i] = x[i]
      /\ \A i \in 1..Len(u) : y[Len(x) + i] = u[i]
  <2>1. x \in Seq(C)
    BY <1>1
  <2> QED
    BY <2>1, TwoParts
<1> HIDE DEF y
<1>4. /\ w \in Seq(C) /\ Len(w) = Len(y) + Len(v) /\ Len(v) \in Nat
      /\ \A i \in 1..Len(y) : w[i] = y[i]
      /\ \A i \in 1..Len(v) : w[Len(y) + i] = v[i]
  <2>1. y \in Seq(C)
    BY <1>2
  <2> QED
    BY <2>1, TwoParts
<1> HIDE DEF w
<1>5. ASSUME NEW i \in 1..Len(x) PROVE w[i] = x[i]
  <2>1. i \in 1..Len(y)
    BY <1>1, <1>2
  <2> QED
    BY <1>2, <1>4, <2>1
<1>6. ASSUME NEW i \in 1..Len(s) PROVE w[i] = s[i]
  <2>1. i \in 1..Len(x)
    BY <1>1
  <2> QED
    BY <1>1, <1>5, <2>1
<1>7. ASSUME NEW i \in 1..Len(t) PROVE w[Len(s) + i] = t[i]
  <2>1. Len(s) + i \in 1..Len(x)
    BY <1>1
  <2> QED
    BY <1>1, <1>5, <2>1
<1>8. ASSUME NEW i \in 1..Len(u) PROVE w[Len(s) + Len(t) + i] = u[i]
  <2>1. Len(x) + i \in 1..Len(y)
    BY <1>1, <1>2
  <2>2. w[Len(x) + i] = u[i]
    BY <1>2, <1>4, <2>1
  <2> QED
    BY <1>1, <2>2
<1>9. Len(y) = Len(s) + Len(t) + Len(u)
  BY <1>1, <1>2
<1> QED
  <2>1. Consists(w, C, s, t, u, v)
    BY <1>4, <1>6, <1>7, <1>8, <1>9 DEF Consists
  <2> QED
    BY <2>1 DEF w, x, y

\* The fraction and the exponent as they are written, if there are any.
FractionOf(v) == IF v = <<>> THEN <<>> ELSE <<".">> \o v
ScaleOf(sign, m) == IF m = <<>> THEN <<>> ELSE <<"e", sign>> \o m

\* A fraction is a point and its digits.
LEMMA FractionIs ==
    ASSUME NEW v \in Seq(Digit)
    PROVE  /\ FractionOf(v) \in Seq(Characters)
           /\ Len(FractionOf(v)) = IF v = <<>> THEN 0 ELSE Len(v) + 1
           /\ v # <<>> => /\ FractionOf(v)[1] = "."
                         /\ \A l \in 1..Len(v) : FractionOf(v)[1 + l] = v[l]
<1>1. CASE v = <<>>
  BY <1>1 DEF FractionOf
<1>2. CASE v # <<>>
  <2> DEFINE d == <<".">>
             w == d \o v
  <2>1. d \in Seq(Characters) /\ Len(d) = 1 /\ d[1] = "." /\ v \in Seq(Characters)
    BY CharactersAre
  <2> HIDE DEF d
  <2>2. /\ w \in Seq(Characters) /\ Len(w) = Len(d) + Len(v) /\ Len(v) \in Nat
        /\ \A l \in 1..Len(d) : w[l] = d[l]
        /\ \A l \in 1..Len(v) : w[Len(d) + l] = v[l]
    <3>1. d \in Seq(Characters) /\ v \in Seq(Characters)
      BY <2>1
    <3> QED
      BY <3>1, TwoParts
  <2>3. FractionOf(v) = w
    BY <1>2 DEF FractionOf, d
  <2> HIDE DEF w
  <2> QED
    BY <1>2, <2>1, <2>2, <2>3
<1> QED
  BY <1>1, <1>2

\* An exponent is "e", its sign and its digits.
LEMMA ScaleIs ==
    ASSUME NEW m \in Seq(Digit), NEW sign \in {"+", "-"}
    PROVE  /\ ScaleOf(sign, m) \in Seq(Characters)
           /\ Len(ScaleOf(sign, m)) = IF m = <<>> THEN 0 ELSE Len(m) + 2
           /\ m # <<>> => /\ ScaleOf(sign, m)[1] = "e" /\ ScaleOf(sign, m)[2] = sign
                         /\ \A l \in 1..Len(m) : ScaleOf(sign, m)[2 + l] = m[l]
<1>1. CASE m = <<>>
  BY <1>1 DEF ScaleOf
<1>2. CASE m # <<>>
  <2> DEFINE d == <<"e", sign>>
             w == d \o m
  <2>1. /\ d \in Seq(Characters) /\ Len(d) = 2 /\ d[1] = "e" /\ d[2] = sign
        /\ m \in Seq(Characters)
    BY CharactersAre
  <2> HIDE DEF d
  <2>2. /\ w \in Seq(Characters) /\ Len(w) = Len(d) + Len(m) /\ Len(m) \in Nat
        /\ \A l \in 1..Len(d) : w[l] = d[l]
        /\ \A l \in 1..Len(m) : w[Len(d) + l] = m[l]
    <3>1. d \in Seq(Characters) /\ m \in Seq(Characters)
      BY <2>1
    <3> QED
      BY <3>1, TwoParts
  <2>3. ScaleOf(sign, m) = w
    BY <1>2 DEF ScaleOf, d
  <2>4. 1 \in 1..Len(d) /\ 2 \in 1..Len(d)
    BY <2>1
  <2> HIDE DEF w
  <2> QED
    BY <1>2, <2>1, <2>2, <2>3, <2>4
<1> QED
  BY <1>1, <1>2

\* A part is where its elements are.
LEMMA PartAt ==
    ASSUME NEW C, NEW w \in Seq(C), NEW s \in Seq(C), NEW k \in Nat,
           k + Len(s) <= Len(w), \A l \in 1..Len(s) : w[k + l] = s[l]
    PROVE  SubSeq(w, k + 1, k + Len(s)) = s
<1> DEFINE j == k + Len(s)
           t == SubSeq(w, k + 1, j)
<1>1. Len(s) \in Nat /\ j \in Nat /\ k + 1 \in Nat /\ k + 1 > 0 /\ j <= Len(w)
  OBVIOUS
<1>2. j - (k + 1) + 1 = Len(s) /\ (~(k + 1 <= j) => Len(s) = 0)
  BY <1>1
<1> HIDE DEF j
<1>3. /\ t \in Seq(C) /\ Len(t) = (IF k + 1 <= j THEN j - (k + 1) + 1 ELSE 0)
      /\ \A l \in 1..Len(t) : t[l] = w[(k + 1) + l - 1]
  BY <1>1, PartIs
<1> HIDE DEF t
<1>4. Len(t) = Len(s)
  BY <1>2, <1>3
<1>5. \A l \in 1..Len(t) : (k + 1) + l - 1 = k + l
  BY <1>1, <1>4
<1>6. \A l \in 1..Len(t) : t[l] = s[l]
  BY <1>3, <1>4, <1>5
<1>7. t = s
  BY <1>3, <1>4, <1>6, SameElements
<1> QED
  BY <1>7 DEF t, j

\* Where the parts of a text of n characters are that has a sign if b is 1, then p
\* digits, then a point and q digits if q is not 0, then "e", a sign and r digits
\* if r is not 0.
Counted(n, b, p, q, r, a, f, e, x) ==
    /\ b \in {0, 1} /\ p \in Nat /\ q \in Nat /\ r \in Nat
    /\ p > 0 /\ a = b + 1 /\ f = a + p
    /\ e = IF q = 0 THEN f ELSE f + q + 1
    /\ x = IF r = 0 THEN e + 1 ELSE e + 2
    /\ n = IF r = 0 THEN e - 1 ELSE e + r + 1

\* And that they are the digits i, v and m.
Placed(w, b, i, v, m, sign, f, e, x) ==
    /\ b = 1 => w[1] = "-"
    /\ \A l \in 1..Len(i) : w[b + l] = i[l]
    /\ v # <<>> => w[f] = "." /\ \A l \in 1..Len(v) : w[f + l] = v[l]
    /\ m # <<>> => w[e] = "e" /\ w[e + 1] = sign /\ \A l \in 1..Len(m) : w[x - 1 + l] = m[l]

\* In which order they are then.
Ordered(n, b, p, q, r, a, f, e, x) ==
    /\ a \in {1, 2} /\ (a = 2 <=> b = 1) /\ (b = 1 \/ b = 0) /\ a < f /\ f <= e
    /\ e <= n + 1 /\ (f < e <=> q # 0) /\ (e <= n <=> r # 0) /\ 1 \in 1..p /\ b + 1 = a
    /\ f - 1 = b + p /\ b + p <= n /\ (p = 1 => f = a + 1)
    /\ (q # 0 => f + 1 < e /\ e - 1 = f + q /\ f + q <= n)
    /\ (r # 0 => x <= n /\ e < n /\ x - 1 + 1 = x /\ n = x - 1 + r /\ x - 1 \in Nat)

\* The counts give that order.
LEMMA CountedIs ==
    ASSUME NEW b, NEW p, NEW q, NEW r, NEW n, NEW a, NEW f, NEW e, NEW x,
           Counted(n, b, p, q, r, a, f, e, x)
    PROVE  Ordered(n, b, p, q, r, a, f, e, x)
BY DEF Counted, Ordered

\* Such a text has the shape of a number with these parts.
HasParts(w, n, i, v, m, a, f, e, x) ==
    /\ Shape(w, n, a, f, e, x)
    /\ SubSeq(w, a, f - 1) = i /\ SubSeq(w, f + 1, e - 1) = v /\ SubSeq(w, x, n) = m

\* Parts in their places are those that the shape finds.
LEMMA PlacedShape ==
    ASSUME NEW w \in Seq(Characters), NEW sign \in {"+", "-"},
           NEW i \in Seq(Digit), NEW v \in Seq(Digit), NEW m \in Seq(Digit), NEW b \in Nat,
           NEW a \in Nat, NEW f \in Nat, NEW e \in Nat, NEW x \in Nat,
           NEW n \in Nat, NEW p \in Nat, NEW q \in Nat, NEW r \in Nat,
           n = Len(w), p = Len(i), q = Len(v), r = Len(m),
           i[1] = "0" => p = 1, Counted(n, b, p, q, r, a, f, e, x),
           Placed(w, b, i, v, m, sign, f, e, x)
    PROVE  HasParts(w, n, i, v, m, a, f, e, x)
<1>1. /\ (q = 0 <=> v = <<>>) /\ (r = 0 <=> m = <<>>)
      /\ \A l \in 1..p : i[l] \in Digit
      /\ \A l \in 1..q : v[l] \in Digit
      /\ \A l \in 1..r : m[l] \in Digit
  OBVIOUS
<1>3. /\ b = 1 => w[1] = "-"
      /\ \A l \in 1..p : w[b + l] = i[l]
      /\ q # 0 => w[f] = "." /\ \A l \in 1..q : w[f + l] = v[l]
      /\ r # 0 => w[e] = "e" /\ w[e + 1] = sign /\ \A l \in 1..r : w[x - 1 + l] = m[l]
  BY <1>1 DEF Placed
<1>5. /\ a \in {1, 2} /\ (a = 2 <=> b = 1) /\ (b = 1 \/ b = 0) /\ a < f /\ f <= e
      /\ e <= n + 1 /\ (f < e <=> q # 0) /\ (e <= n <=> r # 0) /\ 1 \in 1..p /\ b + 1 = a
      /\ f - 1 = b + p /\ b + p <= n /\ (p = 1 => f = a + 1)
      /\ (q # 0 => f + 1 < e /\ e - 1 = f + q /\ f + q <= n)
      /\ (r # 0 => x <= n /\ e < n /\ x - 1 + 1 = x /\ n = x - 1 + r /\ x - 1 \in Nat)
  <2>1. Ordered(n, b, p, q, r, a, f, e, x)
    BY CountedIs
  <2> QED
    BY <2>1 DEF Ordered
<1>6. /\ DigitsAt(w, a, f - 1) /\ (q # 0 => DigitsAt(w, f + 1, e - 1))
      /\ (r # 0 => DigitsAt(w, x, n))
  <2>2. ASSUME NEW l \in a..f - 1 PROVE w[l] \in Digit
    <3>1. l - b \in 1..p /\ b + (l - b) = l
      BY DEF Counted
    <3> QED
      BY <1>1, <1>3, <3>1
  <2>3. ASSUME q # 0, NEW l \in f + 1..e - 1 PROVE w[l] \in Digit
    <3>1. l - f \in 1..q /\ f + (l - f) = l
      BY <2>3 DEF Counted
    <3> QED
      BY <1>1, <1>3, <2>3, <3>1
  <2>4. ASSUME r # 0, NEW l \in x..n PROVE w[l] \in Digit
    <3>1. l - (x - 1) \in 1..r /\ x - 1 + (l - (x - 1)) = l
      BY <1>5, <2>4
    <3> QED
      BY <1>1, <1>3, <2>4, <3>1
  <2> QED
    BY <2>2, <2>3, <2>4 DEF DigitsAt
<1>7. w[a] = i[1] /\ i[1] \in Digit
  BY <1>1, <1>3, <1>5
<1>8. a = IF w[1] = "-" THEN 2 ELSE 1
  <2>1. CASE b = 1
    BY <1>3, <1>5, <2>1
  <2>2. CASE b # 1
    BY <1>5, <1>7, <2>2, NoDigit
  <2> QED
    BY <2>1, <2>2
<1>9. x = IF e < n /\ w[e + 1] \in {"+", "-"} THEN e + 2 ELSE e + 1
  <2>1. CASE r = 0
    BY <1>1, <1>5, <2>1 DEF Counted
  <2>2. CASE r # 0
    BY <1>3, <1>5, <2>2 DEF Counted
  <2> QED
    BY <2>1, <2>2
<1>10. Shape(w, n, a, f, e, x)
  <2>1. w[a] = "0" => f = a + 1
    BY <1>5, <1>7
  <2>2. f < e => w[f] = "." /\ f + 1 < e /\ DigitsAt(w, f + 1, e - 1)
    BY <1>3, <1>5, <1>6
  <2>3. e <= n => w[e] \in {"e", "E"} /\ x <= n /\ DigitsAt(w, x, n)
    BY <1>3, <1>5, <1>6
  <2> QED
    BY <1>5, <1>6, <1>8, <1>9, <2>1, <2>2, <2>3 DEF Shape
<1>11. i \in Seq(Characters) /\ v \in Seq(Characters) /\ m \in Seq(Characters)
  BY CharactersAre
<1>12. SubSeq(w, a, f - 1) = i
  <2>1. b + p <= Len(w) /\ \A l \in 1..Len(i) : w[b + l] = i[l]
    BY <1>3, <1>5
  <2>2. SubSeq(w, b + 1, b + p) = i
    BY <1>11, <2>1, PartAt
  <2> QED
    BY <1>5, <2>2
<1>13. SubSeq(w, f + 1, e - 1) = v
  <2>1. CASE q = 0
    <3>1. v = <<>> /\ e - 1 = f - 1 /\ ~(f + 1 <= f - 1)
      BY <1>1, <1>5, <2>1
    <3> QED
      BY <3>1
  <2>2. CASE q # 0
    <3>1. f + q <= Len(w) /\ \A l \in 1..Len(v) : w[f + l] = v[l]
      BY <1>3, <1>5, <2>2
    <3>2. SubSeq(w, f + 1, f + q) = v
      BY <1>11, <3>1, PartAt
    <3> QED
      BY <1>5, <2>2, <3>2
  <2> QED
    BY <2>1, <2>2
<1>14. SubSeq(w, x, n) = m
  <2>1. CASE r = 0
    <3>1. m = <<>> /\ ~(x <= n)
      BY <1>1, <2>1 DEF Counted
    <3> QED
      BY <1>1, <3>1
  <2>2. CASE r # 0
    <3> DEFINE k == x - 1
    <3>1. k + r <= Len(w) /\ (\A l \in 1..Len(m) : w[k + l] = m[l]) /\ k \in Nat
      BY <1>1, <1>3, <1>5, <2>2
    <3>2. k + 1 = x /\ k + r = n
      BY <1>5, <2>2
    <3> HIDE DEF k
    <3>3. SubSeq(w, k + 1, k + r) = m
      BY <1>11, <3>1, PartAt
    <3> QED
      BY <3>2, <3>3
  <2> QED
    BY <2>1, <2>2
<1> QED
  BY <1>10, <1>12, <1>13, <1>14 DEF HasParts

\* A text put together from a sign, an integer part, a fraction and an exponent.
Composed(minus, i, v, sign, m) == minus \o i \o FractionOf(v) \o ScaleOf(sign, m)

\* A text put together from parts has them in their places.
LEMMA ComposedPlaced ==
    ASSUME NEW minus \in {<<>>, <<"-">>}, NEW sign \in {"+", "-"}, NEW i \in Seq(Digit),
           NEW v \in Seq(Digit), NEW m \in Seq(Digit), i # <<>>
    PROVE  LET w == Composed(minus, i, v, sign, m)
               b == Len(minus)
           IN  /\ w \in Seq(Characters)
               /\ \E a, f, e, x \in Nat : /\ Counted(Len(w), b, Len(i), Len(v), Len(m), a, f, e, x)
                                          /\ Placed(w, b, i, v, m, sign, f, e, x)
<1> DEFINE fr == FractionOf(v)
           ex == ScaleOf(sign, m)
           w == minus \o i \o fr \o ex
           b == Len(minus)
           p == Len(i)
           q == Len(v)
           r == Len(m)
           a == b + 1
           f == a + p
           e == IF q = 0 THEN f ELSE f + q + 1
           x == IF r = 0 THEN e + 1 ELSE e + 2
           n == IF r = 0 THEN e - 1 ELSE e + r + 1
<1>1. minus \in Seq(Characters) /\ i \in Seq(Characters)
  <2>1. <<>> \in Seq(Characters) /\ <<"-">> \in Seq(Characters)
    BY CharactersAre
  <2>2. i \in Seq(Characters)
    BY CharactersAre
  <2> QED
    BY <2>1, <2>2
<1>2. /\ b \in {0, 1} /\ p \in Nat /\ p > 0 /\ q \in Nat /\ r \in Nat
      /\ (q = 0 <=> v = <<>>) /\ (r = 0 <=> m = <<>>)
      /\ (b = 1 => minus[1] = "-")
  OBVIOUS
<1>3. /\ fr \in Seq(Characters) /\ Len(fr) = (IF q = 0 THEN 0 ELSE q + 1)
      /\ v # <<>> => fr[1] = "." /\ \A l \in 1..Len(v) : fr[1 + l] = v[l]
  BY <1>2, FractionIs
<1>4. /\ ex \in Seq(Characters) /\ Len(ex) = (IF r = 0 THEN 0 ELSE r + 2)
      /\ m # <<>> => ex[1] = "e" /\ ex[2] = sign /\ \A l \in 1..Len(m) : ex[2 + l] = m[l]
  BY <1>2, ScaleIs
<1>5. w = Composed(minus, i, v, sign, m)
  BY DEF Composed
<1> HIDE DEF fr, ex
<1>6. /\ w \in Seq(Characters) /\ Len(w) = b + p + Len(fr) + Len(ex)
      /\ \A l \in 1..b : w[l] = minus[l]
      /\ \A l \in 1..Len(i) : w[b + l] = i[l]
      /\ \A l \in 1..Len(fr) : w[b + p + l] = fr[l]
      /\ \A l \in 1..Len(ex) : w[b + p + Len(fr) + l] = ex[l]
  <2>1. fr \in Seq(Characters) /\ ex \in Seq(Characters)
    BY <1>3, <1>4
  <2>2. Consists(w, Characters, minus, i, fr, ex)
    BY <1>1, <2>1, FourParts, Zenon
  <2> HIDE DEF w
  <2> QED
    BY <2>2 DEF Consists
<1> HIDE DEF w, b, p, q, r
<1> DEFINE g == Len(fr)
           h == Len(ex)
<1>7. /\ a \in Nat /\ f \in Nat /\ e \in Nat /\ x \in Nat /\ n \in Nat
      /\ f = b + p + 1 /\ e = b + p + Len(fr) + 1 /\ n = Len(w)
      /\ (q # 0 => Len(fr) = q + 1) /\ (r # 0 => Len(ex) = r + 2 /\ x - 1 = e + 1)
  <2>1. g = (IF q = 0 THEN 0 ELSE q + 1) /\ h = (IF r = 0 THEN 0 ELSE r + 2)
        /\ Len(w) = b + p + g + h
    BY <1>3, <1>4, <1>6
  <2> DEFINE k == Len(w)
  <2>2. k = b + p + g + h
    BY <2>1
  <2>3. b \in Nat /\ p \in Nat /\ q \in Nat /\ r \in Nat /\ p > 0
    BY <1>2
  <2> HIDE DEF g, h, k
  <2>4. f = b + p + 1 /\ e = b + p + g + 1 /\ a \in Nat /\ f \in Nat
    BY <2>1, <2>3
  <2>5. e \in Nat
    BY <2>3, <2>4
  <2>6. n = k /\ n \in Nat
    BY <2>1, <2>2, <2>3
  <2>7. x \in Nat /\ (r # 0 => x - 1 = e + 1)
    <3> HIDE DEF e
    <3> QED
      BY <2>5
  <2> QED
    BY <2>1, <2>4, <2>5, <2>6, <2>7 DEF g, h, k
<1>8. Counted(n, b, p, q, r, a, f, e, x)
  BY <1>2 DEF Counted
<1> HIDE DEF a, f, e, x, n
<1>9. b = 1 => w[1] = "-"
  BY <1>2, <1>6
<1>10. ASSUME v # <<>> PROVE w[f] = "." /\ \A l \in 1..Len(v) : w[f + l] = v[l]
  <2>1. Len(fr) = q + 1 /\ q \in Nat /\ b + p + 1 = f /\ b \in Nat /\ p \in Nat
    BY <1>2, <1>7, <1>10
  <2>2. w[f] = "."
    <3>1. 1 \in 1..Len(fr)
      BY <2>1
    <3> QED
      BY <1>3, <1>6, <1>10, <2>1, <3>1
  <2>3. ASSUME NEW l \in 1..q PROVE w[f + l] = v[l]
    <3>1. 1 + l \in 1..Len(fr) /\ b + p + (1 + l) = f + l
      BY <2>1
    <3> QED
      BY <1>3, <1>6, <1>10, <3>1 DEF q
  <2> QED
    BY <2>2, <2>3 DEF q
<1>11. ASSUME m # <<>>
       PROVE  w[e] = "e" /\ w[e + 1] = sign /\ \A l \in 1..Len(m) : w[x - 1 + l] = m[l]
  <2> DEFINE k == b + p + Len(fr)
  <2>1. Len(ex) = r + 2 /\ r \in Nat /\ e = k + 1 /\ k \in Nat /\ x - 1 = e + 1
    BY <1>2, <1>3, <1>7, <1>11
  <2>2. \A l \in 1..Len(ex) : w[k + l] = ex[l]
    BY <1>6
  <2> HIDE DEF k
  <2>3. w[e] = "e" /\ w[e + 1] = sign
    <3>1. 1 \in 1..Len(ex) /\ 2 \in 1..Len(ex) /\ e + 1 = k + 2
      BY <2>1
    <3> QED
      BY <1>4, <1>11, <2>1, <2>2, <3>1
  <2>4. ASSUME NEW l \in 1..r PROVE w[x - 1 + l] = m[l]
    <3>1. 2 + l \in 1..Len(ex) /\ k + (2 + l) = x - 1 + l
      BY <2>1
    <3> QED
      BY <1>4, <1>11, <2>2, <3>1 DEF r
  <2> QED
    BY <2>3, <2>4 DEF r
<1>12. Placed(w, b, i, v, m, sign, f, e, x)
  BY <1>6, <1>9, <1>10, <1>11 DEF Placed
<1>13. \E aa, ff, ee, xx \in Nat : /\ Counted(Len(w), b, p, q, r, aa, ff, ee, xx)
                                /\ Placed(w, b, i, v, m, sign, ff, ee, xx)
  BY <1>7, <1>8, <1>12
<1> QED
  BY <1>5, <1>6, <1>13 DEF b, p, q, r

\* There is one sign or none.
LEMMA SignIs ==
    ASSUME NEW minus \in {<<>>, <<"-">>}
    PROVE  Len(minus) \in {0, 1} /\ (Len(minus) = 1 <=> minus = <<"-">>)
OBVIOUS

\* What Parts makes of it.
PartsAre(w, n, i, v, m, a, f, e, x) ==
    Parts(w) = [negative |-> a = 2, int |-> i, pointed |-> f < e, fraction |-> v,
                scaled |-> e <= n, down |-> x = e + 2 /\ w[e + 1] = "-", exponent |-> m]

\* ShapeParts for a text, in one predicate.
LEMMA ShapePartsAre ==
    ASSUME NEW w \in Seq(Characters), NEW a \in Nat, NEW f \in Nat, NEW e \in Nat,
           NEW x \in Nat, Shape(w, Len(w), a, f, e, x)
    PROVE  PartsAre(w, Len(w), SubSeq(w, a, f - 1), SubSeq(w, f + 1, e - 1), SubSeq(w, x, Len(w)),
                    a, f, e, x)
BY ShapeParts DEF PartsAre

\* So that Parts gives back what the text was put together from.
LEMMA HasPartsAre ==
    ASSUME NEW w \in Seq(Characters), NEW i, NEW v, NEW m,
           NEW a \in Nat, NEW f \in Nat, NEW e \in Nat, NEW x \in Nat,
           HasParts(w, Len(w), i, v, m, a, f, e, x)
    PROVE  PartsAre(w, Len(w), i, v, m, a, f, e, x) /\ IsNumber(w)
<1>1. /\ Shape(w, Len(w), a, f, e, x)
      /\ SubSeq(w, a, f - 1) = i /\ SubSeq(w, f + 1, e - 1) = v /\ SubSeq(w, x, Len(w)) = m
  BY DEF HasParts
<1>2. IsNumber(w)
  BY <1>1, ShapeNumber
<1>3. PartsAre(w, Len(w), SubSeq(w, a, f - 1), SubSeq(w, f + 1, e - 1), SubSeq(w, x, Len(w)),
               a, f, e, x)
  BY <1>1, ShapePartsAre, Zenon
<1> QED
  BY <1>1, <1>2, <1>3, Zenon

\* w is a number of these parts.
NumberOf(w, minus, i, v, sign, m) ==
    /\ w \in Seq(Characters) /\ IsNumber(w)
    /\ Parts(w).int = i /\ Parts(w).fraction = v /\ Parts(w).exponent = m
    /\ Parts(w).negative = (minus = <<"-">>)
    /\ Parts(w).pointed = (v # <<>>) /\ Parts(w).scaled = (m # <<>>)
    /\ Parts(w).down = (m # <<>> /\ sign = "-")
    /\ \A l \in 1..Len(w) : w[l] \in Digit \cup {"-", "+", ".", "e", "E"}
    /\ m # <<>> => w[PositionOf(w, {"e"}) + 1] = sign

\* What is put together from parts is a number of them.
LEMMA ComposedIs ==
    ASSUME NEW minus \in {<<>>, <<"-">>}, NEW sign \in {"+", "-"}, NEW i \in Seq(Digit),
           NEW v \in Seq(Digit), NEW m \in Seq(Digit), i # <<>>, i[1] = "0" => Len(i) = 1,
           NEW w, w = Composed(minus, i, v, sign, m)
    PROVE  NumberOf(w, minus, i, v, sign, m)
<1> DEFINE b == Len(minus)
           n == Len(w)
           p == Len(i)
           q == Len(v)
           r == Len(m)
<1>1. PICK a, f, e, x \in Nat : /\ Counted(n, b, p, q, r, a, f, e, x)
                               /\ Placed(w, b, i, v, m, sign, f, e, x)
  BY ComposedPlaced
<1>2. w \in Seq(Characters)
  BY ComposedPlaced
<1>3. /\ n \in Nat /\ b \in {0, 1} /\ p \in Nat /\ q \in Nat /\ r \in Nat
      /\ (b = 1 <=> minus = <<"-">>) /\ (q = 0 <=> v = <<>>) /\ (r = 0 <=> m = <<>>)
  <2>1. n \in Nat /\ p \in Nat /\ q \in Nat /\ r \in Nat
    BY <1>2
  <2>2. (q = 0 <=> v = <<>>) /\ (r = 0 <=> m = <<>>)
    OBVIOUS
  <2>3. b \in {0, 1} /\ (b = 1 <=> minus = <<"-">>)
    BY SignIs, Zenon
  <2> QED
    BY <2>1, <2>2, <2>3
<1>4. HasParts(w, n, i, v, m, a, f, e, x)
  <2>1. b \in Nat /\ n \in Nat /\ p \in Nat /\ q \in Nat /\ r \in Nat
    BY <1>3
  <2>2. i[1] = "0" => p = 1
    OBVIOUS
  <2> QED
    BY <1>1, <1>2, <2>1, <2>2, PlacedShape, Zenon
<1>5. Ordered(n, b, p, q, r, a, f, e, x)
  BY <1>1, CountedIs
<1>6. PartsAre(w, n, i, v, m, a, f, e, x) /\ IsNumber(w)
  BY <1>2, <1>4, HasPartsAre, Zenon
<1> HIDE DEF b, n, p, q, r
<1>8. Parts(w).negative = (minus = <<"-">>)
  BY <1>3, <1>5, <1>6 DEF Ordered, PartsAre
<1>9. Parts(w).pointed = (v # <<>>)
  BY <1>3, <1>5, <1>6 DEF Ordered, PartsAre
<1>10. Parts(w).scaled = (m # <<>>)
  BY <1>3, <1>5, <1>6 DEF Ordered, PartsAre
<1>11. Parts(w).down = (m # <<>> /\ sign = "-")
  <2>1. m = <<>> => x # e + 2
    BY <1>1, <1>3 DEF Counted
  <2>2. m # <<>> => x = e + 2 /\ w[e + 1] = sign
    BY <1>1, <1>3 DEF Counted, Placed
  <2> QED
    BY <1>6, <2>1, <2>2 DEF PartsAre
<1>12. \A l \in 1..n : w[l] \in Digit \cup {"-", "+", ".", "e", "E"}
  <2> TAKE l \in 1..n
  <2>1. \/ w[l] \in {"-", "+", ".", "e", "E"} \/ w[l] \in Digit
    BY <1>3, <1>4, ShapeElements DEF HasParts
  <2> QED
    BY <2>1
<1>13. ASSUME m # <<>> PROVE w[PositionOf(w, {"e"}) + 1] = sign
  <2>1. w[e] = "e" /\ w[e + 1] = sign
    BY <1>1, <1>13 DEF Placed
  <2>2. e \in 1..Len(w) + 1
    BY <1>3, <1>5 DEF Ordered, n
  <2>3. ASSUME NEW l \in 1..e - 1 PROVE w[l] \notin {"e"}
    <3>1. (l \in a..f - 1) \/ (l = f /\ f < e) \/ (l \in f + 1..e - 1) \/ (l = 1 /\ a = 2)
      <4>1. a \in {1, 2} /\ a < f /\ f <= e /\ l \in Int /\ 1 <= l /\ l < e
        BY <1>5 DEF Ordered
      <4> QED
        BY <4>1
    <3>2. l \in a..f - 1 => w[l] \in Digit
      BY <1>4 DEF HasParts, Shape, DigitsAt
    <3>3. f < e => w[f] = "." /\ (l \in f + 1..e - 1 => w[l] \in Digit)
      BY <1>4 DEF HasParts, Shape, DigitsAt
    <3>4. a = 2 => w[1] = "-"
      BY <1>4 DEF HasParts, Shape
    <3>5. l \in f + 1..e - 1 => f < e
      BY <1>5 DEF Ordered
    <3>6. w[l] \in Digit \/ w[l] \in {".", "-"}
      BY <3>1, <3>2, <3>3, <3>4, <3>5
    <3> QED
      BY <3>6, NoDigit
  <2>4. PositionOf(w, {"e"}) = e
    BY <1>2, <2>1, <2>2, <2>3, PositionUnique
  <2> QED
    BY <2>1, <2>4
<1>14. Parts(w).int = i /\ Parts(w).fraction = v /\ Parts(w).exponent = m
  BY <1>6 DEF PartsAre
<1> QED
  BY <1>2, <1>6, <1>8, <1>9, <1>10, <1>11, <1>12, <1>13, <1>14 DEF n, NumberOf

-----------------------------------------------------------------------------
(* The double of what is written. *)

\* No numeral is listed twice, so each has the value of its place.
LEMMA ValueIs ==
    ASSUME NEW k \in 0..9
    PROVE  ValueOf(Numerals[k + 1]) = k
<1>1. \A i, j \in 1..10 : Numerals[i] = Numerals[j] => i = j
  BY DEF Numerals
<1>2. Numerals[k + 1] \in Digit
  BY NumeralsType
<1> DEFINE j == ValueOf(Numerals[k + 1])
<1>3. j \in 0..9 /\ Numerals[j + 1] = Numerals[k + 1]
  BY <1>2, ValueType
<1> HIDE DEF j
<1>4. j + 1 \in 1..10 /\ k + 1 \in 1..10
  BY <1>3
<1>5. j + 1 = k + 1
  BY <1>1, <1>3, <1>4
<1>6. j = k
  BY <1>3, <1>5
<1> QED
  BY <1>6 DEF j

\* NatOf of up to three digits.
LEMMA NatOfNone == NatOf(<<>>) = 0
<1>1. <<>> \in Seq(Digit) /\ Len(<<>>) = 0
  OBVIOUS
<1>2. PICK g : Counts(<<>>, 0, g) /\ NatOf(<<>>) = g[0]
  BY <1>1, NatOfIs
<1> QED
  BY <1>2 DEF Counts

\* A numeral is of its number, and begins with no zero.
LEMMA NumeralIs ==
    ASSUME NEW n \in Nat, n < 1000
    PROVE  NatOf(NumeralOf(n)) = n /\ (n # 0 => NumeralOf(n)[1] # "0")
<1> DEFINE s == NumeralOf(n)
           d(k) == Numerals[k + 1]
<1>1. s \in Seq(Digit) /\ Len(s) \in 1..3
  BY NumeralOfType
<1>2. s = IF n < 10 THEN <<d(n)>>
          ELSE IF n < 100 THEN <<d(n \div 10), d(n % 10)>>
          ELSE <<d(n \div 100), d((n \div 10) % 10), d(n % 10)>>
  BY DEF NumeralOf
<1>3. ASSUME NEW k \in 1..9 PROVE d(k) # "0"
  BY DEF Numerals
<1>4. PICK g : Counts(s, Len(s), g) /\ NatOf(s) = g[Len(s)]
  BY <1>1, NatOfIs
<1>5. g[0] = 0
  BY <1>1, <1>4 DEF Counts
<1> HIDE DEF s
<1>6. ASSUME NEW i \in 1..Len(s), NEW k \in 0..9, s[i] = d(k), NEW h \in Nat, g[i - 1] = h
      PROVE  g[i] = 10 * h + k
  <2>1. s[i] = Numerals[k + 1]
    BY <1>6
  <2>2. g[i] = 10 * g[i - 1] + ValueOf(s[i])
    <3>1. i \in 0..Len(s) /\ i # 0
      BY <1>1
    <3> QED
      BY <1>4, <3>1 DEF Counts
  <2>3. ValueOf(s[i]) = k
    BY <2>1, ValueIs
  <2> QED
    BY <1>6, <2>2, <2>3
<1> HIDE DEF d
<1>7. ASSUME n < 10 PROVE NatOf(s) = n /\ (n # 0 => s[1] # "0")
  <2>1. Len(s) = 1 /\ s[1] = d(n) /\ n \in 0..9 /\ 1 \in 1..Len(s) /\ g[1 - 1] = 0
    BY <1>2, <1>5, <1>7
  <2>2. g[1] = 10 * 0 + n
    BY <1>6, <2>1
  <2> QED
    BY <1>3, <1>4, <2>1, <2>2
<1>8. ASSUME ~(n < 10), n < 100 PROVE NatOf(s) = n /\ s[1] # "0"
  <2> DEFINE a == n \div 10
             b == n % 10
  <2>1. a \in 1..9 /\ b \in 0..9 /\ n = 10 * a + b
    BY <1>8
  <2>2. s = <<d(a), d(b)>>
    BY <1>2, <1>8
  <2> HIDE DEF a, b
  <2>3. Len(s) = 2 /\ s[1] = d(a) /\ s[2] = d(b) /\ 1 \in 1..Len(s) /\ 2 \in 1..Len(s)
    BY <2>2
  <2>4. g[1] = 10 * 0 + a
    BY <1>5, <1>6, <2>1, <2>3
  <2>5. g[2] = 10 * a + b
    BY <1>6, <2>1, <2>3, <2>4
  <2> QED
    BY <1>3, <1>4, <2>1, <2>3, <2>5
<1>9. ASSUME ~(n < 100) PROVE NatOf(s) = n /\ s[1] # "0"
  <2> DEFINE a == n \div 100
             b == (n \div 10) % 10
             c == n % 10
  <2>1. a \in 1..9 /\ b \in 0..9 /\ c \in 0..9 /\ n = 10 * (10 * a + b) + c
    BY <1>9
  <2>2. s = <<d(a), d(b), d(c)>>
    BY <1>2, <1>9
  <2> HIDE DEF a, b, c
  <2>3. /\ Len(s) = 3 /\ s[1] = d(a) /\ s[2] = d(b) /\ s[3] = d(c)
        /\ 1 \in 1..Len(s) /\ 2 \in 1..Len(s) /\ 3 \in 1..Len(s)
    BY <2>2
  <2>4. g[1] = 10 * 0 + a
    BY <1>5, <1>6, <2>1, <2>3
  <2>5. g[2] = 10 * a + b
    BY <1>6, <2>1, <2>3, <2>4
  <2>6. g[3] = 10 * (10 * a + b) + c
    BY <1>6, <2>1, <2>3, <2>5
  <2> QED
    BY <1>3, <1>4, <2>1, <2>3, <2>6
<1>10. NatOf(s) = n /\ (n # 0 => s[1] # "0")
  BY <1>7, <1>8, <1>9
<1> QED
  BY <1>10 DEF s

\* all is ds with z zeros before it, and any after it.
Spread(all, ds, z) ==
    /\ z + Len(ds) <= Len(all)
    /\ \A l \in 1..z : all[l] = "0"
    /\ \A l \in 1..Len(ds) : all[z + l] = ds[l]
    /\ \A l \in z + Len(ds) + 1..Len(all) : all[l] = "0"

\* The first and the last digit that is not zero are those of ds.
LEMMA SpreadIs ==
    ASSUME NEW all \in Seq(Digit), NEW ds \in Seq(Digit), NEW z \in Nat, Spread(all, ds, z),
           ds # <<>>, ds[1] \in NonzeroDigit, ds[Len(ds)] \in NonzeroDigit
    PROVE  /\ PositionOf(all, NonzeroDigit) = z + 1 /\ LastNonzero(all) = z + Len(ds)
           /\ SubSeq(all, z + 1, z + Len(ds)) = ds
<1> DEFINE k == Len(ds)
           n == Len(all)
           last == LastNonzero(all)
<1>1. k \in Nat /\ k > 0 /\ n \in Nat
  OBVIOUS
<1>2. /\ z + k <= n
      /\ \A l \in 1..z : all[l] = "0"
      /\ \A l \in 1..k : all[z + l] = ds[l]
      /\ \A l \in z + k + 1..n : all[l] = "0"
  BY DEF Spread
<1>3. "0" \notin NonzeroDigit
  BY DEF NonzeroDigit
<1>4. /\ last \in 0..n
      /\ \A l \in last + 1..n : all[l] \notin NonzeroDigit
      /\ last # 0 => all[last] \in NonzeroDigit
  BY LastIs
<1>5. ds[1] \in NonzeroDigit /\ ds[k] \in NonzeroDigit
  OBVIOUS
<1> HIDE DEF k, n, last
<1>6. PositionOf(all, NonzeroDigit) = z + 1
  <2>1. \A l \in 1..(z + 1) - 1 : all[l] \notin NonzeroDigit
    BY <1>2, <1>3
  <2>2. all[z + 1] \in NonzeroDigit
    BY <1>1, <1>2, <1>5
  <2>3. z + 1 \in 1..Len(all) + 1
    BY <1>1, <1>2 DEF n
  <2> QED
    BY <2>1, <2>2, <2>3, PositionUnique
<1>7. last = z + k
  <2>1. all[z + k] \in NonzeroDigit /\ z + k \in 1..n
    BY <1>1, <1>2, <1>5
  <2>2. ~(last < z + k)
    <3> SUFFICES ASSUME last < z + k PROVE FALSE
      OBVIOUS
    <3>1. z + k \in last + 1..n
      BY <1>1, <1>4, <2>1
    <3> QED
      BY <1>4, <2>1, <3>1
  <2>3. ~(last > z + k)
    <3> SUFFICES ASSUME last > z + k PROVE FALSE
      OBVIOUS
    <3>1. last \in z + k + 1..n /\ last # 0
      BY <1>1, <1>4
    <3> QED
      BY <1>2, <1>3, <1>4, <3>1
  <2> QED
    BY <1>1, <1>4, <2>2, <2>3
<1>8. SubSeq(all, z + 1, z + k) = ds
  <2>1. z + Len(ds) <= Len(all) /\ \A l \in 1..Len(ds) : all[z + l] = ds[l]
    BY <1>2 DEF k, n
  <2> QED
    BY <2>1, PartAt DEF k
<1> QED
  BY <1>6, <1>7, <1>8 DEF k, last

\* The double of a number, of whose digits x has those that are not zeros around them.
LEMMA F64Of ==
    ASSUME NEW s, NEW x \in Double, x.digits # <<>>, NEW z \in Nat,
           Parts(s).int \in Seq(Digit), Parts(s).fraction \in Seq(Digit),
           Parts(s).negative = x.negative, Spread(Parts(s).int \o Parts(s).fraction, x.digits, z),
           Len(Parts(s).int) - z
               + (IF Parts(s).down THEN -NatOf(Parts(s).exponent) ELSE NatOf(Parts(s).exponent))
               = x.point,
           NatOf(Parts(s).exponent) \in Nat
    PROVE  F64(s) = x
<1> DEFINE p == Parts(s)
           all == p.int \o p.fraction
           lead == PositionOf(all, NonzeroDigit) - 1
           last == LastNonzero(all)
           exponent == IF p.down THEN -NatOf(p.exponent) ELSE NatOf(p.exponent)
           point == Len(p.int) - lead + exponent
           k == Len(x.digits)
<1>1. /\ x.digits \in Seq(Digit) /\ x.point \in Point /\ x.negative \in BOOLEAN
      /\ x.digits[1] \in NonzeroDigit /\ x.digits[Len(x.digits)] \in NonzeroDigit
      /\ x = [negative |-> x.negative, digits |-> x.digits, point |-> x.point]
  BY DEF Double
<1>2. F64(s) = IF last = 0 \/ point < -LowPoint THEN Zero(p.negative)
               ELSE IF point > MaxPoint THEN Infinity
               ELSE [negative |-> p.negative, digits |-> SubSeq(all, lead + 1, last), point |-> point]
  BY DEF F64, LastNonzero
<1>3. all \in Seq(Digit) /\ Len(p.int) \in Nat /\ exponent \in Int /\ k \in Nat /\ k > 0
  BY <1>1
<1>4. /\ PositionOf(all, NonzeroDigit) = z + 1 /\ last = z + k
      /\ SubSeq(all, z + 1, z + k) = x.digits
  <2>1. all \in Seq(Digit) /\ Spread(all, x.digits, z)
    BY <1>3
  <2> HIDE DEF all
  <2> QED
    BY <1>1, <2>1, SpreadIs
<1>5. Len(p.int) - z + exponent = x.point /\ p.negative = x.negative
  OBVIOUS
<1> HIDE DEF all, exponent, k, last, p
<1>6. lead = z /\ last # 0
  BY <1>3, <1>4
<1>7. point = x.point
  BY <1>5, <1>6
<1> HIDE DEF lead, point
<1>8. ~(point < -LowPoint) /\ ~(point > MaxPoint)
  <2>1. x.point \in Point
    BY <1>1
  <2> QED
    BY <1>7, <2>1, LimitsAre DEF Point
<1>9. F64(s) = [negative |-> p.negative, digits |-> SubSeq(all, lead + 1, last), point |-> point]
  BY <1>2, <1>6, <1>8
<1>10. SubSeq(all, lead + 1, last) = x.digits
  BY <1>4, <1>6
<1> QED
  BY <1>1, <1>5, <1>7, <1>9, <1>10, Zenon

-----------------------------------------------------------------------------
(* The four layouts. *)

\* The digits of a double that is not zero.
Significant(ds) ==
    /\ ds \in Seq(Digit) /\ ds # <<>>
    /\ ds[1] \in NonzeroDigit /\ ds[Len(ds)] \in NonzeroDigit

\* w is written as Number::toString writes the digits ds with their point at n: the
\* parts i, v and m, of which i and v are z zeros, ds, and zeros again.
Laid(w, ds, n, i, v, sign, m, z) ==
    /\ w = i \o FractionOf(v) \o ScaleOf(sign, m)
    /\ i # <<>> /\ (i[1] = "0" => Len(i) = 1)
    /\ Spread(i \o v, ds, z)
    /\ Len(i) - z + (IF m # <<>> /\ sign = "-" THEN -NatOf(m) ELSE NatOf(m)) = n
    /\ v # <<>> => v[Len(v)] # "0"
    /\ m # <<>> <=> n \notin -5..21
    /\ m # <<>> => Len(i) = 1 /\ i # <<"0">> /\ m[1] # "0"

\* w is u and then v.
Joins(w, C, u, v) ==
    /\ w \in Seq(C) /\ Len(w) = Len(u) + Len(v)
    /\ \A i \in 1..Len(u) : w[i] = u[i]
    /\ \A i \in 1..Len(v) : w[Len(u) + i] = v[i]

\* A concatenation is.
LEMMA JoinIs ==
    ASSUME NEW C, NEW u \in Seq(C), NEW v \in Seq(C)
    PROVE  Joins(u \o v, C, u, v)
BY TwoParts DEF Joins

\* Bracketing does not matter.
Associate(s, t, u) == (s \o t) \o u = s \o (t \o u)

LEMMA AssociateAll ==
    ASSUME NEW C, NEW s \in Seq(C), NEW t \in Seq(C), NEW u \in Seq(C)
    PROVE  Associate(s, t, u)
BY ConcatAssociative DEF Associate

\* Zeros are digits, all of them "0".
LEMMA ZerosAre ==
    ASSUME NEW c \in Nat
    PROVE  Zeros(c) \in Seq(Digit) /\ Len(Zeros(c)) = c /\ \A l \in 1..c : Zeros(c)[l] = "0"
<1>1. "0" \in Digit
  BY NoDigit
<1>2. Zeros(c) \in [1..c -> Digit] /\ \A l \in 1..c : Zeros(c)[l] = "0"
  BY <1>1 DEF Zeros
<1> QED
  BY <1>2

\* Parts that are not there are not written.
LEMMA NoParts ==
    /\ FractionOf(<<>>) = <<>>
    /\ \A sign \in {"+", "-"} : ScaleOf(sign, <<>>) = <<>>
BY DEF FractionOf, ScaleOf

\* The digits of ds by themselves.
LEMMA SpreadItself ==
    ASSUME NEW ds \in Seq(Digit)
    PROVE  Spread(ds, ds, 0)
<1> DEFINE k == Len(ds)
<1>1. k \in Nat
  OBVIOUS
<1> HIDE DEF k
<1>2. /\ 0 + k <= k /\ 1..0 = {} /\ 0 + k + 1..k = {} /\ \A l \in 1..k : 0 + l = l
  BY <1>1
<1> QED
  BY <1>2 DEF Spread, k

\* Four cases: an integer,
LEMMA WholeLaid ==
    ASSUME NEW ds, Significant(ds), NEW n \in Int, Len(ds) <= n, n <= 21
    PROVE  /\ Laid(Layout(ds, n), ds, n, ds \o Zeros(n - Len(ds)), <<>>, "+", <<>>, 0)
           /\ ds \o Zeros(n - Len(ds)) \in Seq(Digit)
<1> DEFINE k == Len(ds)
           c == Zeros(n - k)
           i == ds \o c
<1>1. ds \in Seq(Digit) /\ ds # <<>> /\ ds[1] # "0"
  BY DEF Significant, NonzeroDigit
<1>2. k \in Nat /\ k > 0 /\ k <= n /\ n <= 21 /\ n - k \in Nat
  BY <1>1
<1>3. c \in Seq(Digit) /\ Len(c) = n - k /\ \A l \in 1..n - k : c[l] = "0"
  BY <1>2, ZerosAre
<1>4. Layout(ds, n) = i
  <2>1. k <= n /\ n <= PositionalLimit /\ ~(n < k) /\ ~(n <= 0)
    BY <1>2 DEF PositionalLimit
  <2> QED
    BY <2>1 DEF Layout
<1> HIDE DEF c
<1>5. /\ i \in Seq(Digit) /\ Len(i) = k + (n - k)
      /\ \A l \in 1..k : i[l] = ds[l]
      /\ \A l \in 1..Len(c) : i[k + l] = c[l]
  BY <1>1, <1>3, TwoParts
<1> HIDE DEF i, k
<1>6. Len(i) = n
  BY <1>2, <1>5
<1>7. i # <<>> /\ i[1] = ds[1]
  BY <1>2, <1>5
<1>8. Spread(i, ds, 0)
  <2>1. ASSUME NEW l \in k + 1..n PROVE i[l] = "0"
    <3>1. l - k \in 1..n - k /\ k + (l - k) = l
      BY <1>2
    <3> QED
      BY <1>3, <1>5, <3>1
  <2>2. 0 + k <= n /\ 1..0 = {} /\ 0 + k = k /\ \A l \in 1..k : 0 + l = l
    BY <1>2
  <2> QED
    BY <1>5, <1>6, <2>1, <2>2 DEF Spread, k
<1>9. i \o <<>> = i
  BY <1>5
<1>10. Len(i) - 0 + 0 = n /\ n \in -5..21
  BY <1>2, <1>6
<1>11. i = i \o FractionOf(<<>>) \o ScaleOf("+", <<>>)
  BY <1>9, NoParts
<1> QED
  BY <1>1, <1>4, <1>5, <1>7, <1>8, <1>9, <1>10, <1>11, NatOfNone DEF Laid, i, c, k

\* a point among the digits,
LEMMA PointLaid ==
    ASSUME NEW ds, Significant(ds), NEW n \in Int, 0 < n, n < Len(ds), n <= 21
    PROVE  /\ Laid(Layout(ds, n), ds, n, SubSeq(ds, 1, n), SubSeq(ds, n + 1, Len(ds)), "+", <<>>, 0)
           /\ SubSeq(ds, 1, n) \in Seq(Digit) /\ SubSeq(ds, n + 1, Len(ds)) \in Seq(Digit)
<1> DEFINE k == Len(ds)
           i == SubSeq(ds, 1, n)
           v == SubSeq(ds, n + 1, k)
<1>1. ds \in Seq(Digit) /\ ds[1] # "0" /\ ds[k] # "0" /\ k \in Nat
  BY DEF Significant, NonzeroDigit
<1>2. n \in Nat /\ 0 < n /\ n < k /\ n <= 21
  BY <1>1
<1>3. Layout(ds, n) = i \o <<".">> \o v
  <2>1. ~(k <= n) /\ ~(n <= 0) /\ n <= PositionalLimit
    BY <1>1, <1>2 DEF PositionalLimit
  <2> QED
    BY <1>2, <2>1 DEF Layout
<1> HIDE DEF k
<1>4. i \in Seq(Digit) /\ Len(i) = n /\ \A l \in 1..Len(i) : i[l] = ds[1 + l - 1]
  <2>1. 1 \in Nat /\ 1 > 0 /\ n \in Nat /\ n <= Len(ds) /\ 1 <= n /\ n - 1 + 1 = n
    BY <1>1, <1>2 DEF k
  <2> QED
    BY <1>1, <2>1, PartIs
<1>5. v \in Seq(Digit) /\ Len(v) = k - n /\ \A l \in 1..Len(v) : v[l] = ds[n + 1 + l - 1]
  <2>1. n + 1 \in Nat /\ n + 1 > 0 /\ k \in Nat /\ k <= Len(ds) /\ n + 1 <= k
        /\ k - (n + 1) + 1 = k - n
    BY <1>1, <1>2 DEF k
  <2>2. ds \in Seq(Digit)
    BY <1>1
  <2>3. Len(v) = IF n + 1 <= k THEN k - (n + 1) + 1 ELSE 0
    BY <2>1, <2>2, PartIs
  <2>4. v \in Seq(Digit) /\ \A l \in 1..Len(v) : v[l] = ds[n + 1 + l - 1]
    BY <2>1, <2>2, PartIs
  <2> QED
    BY <2>1, <2>3, <2>4
<1>6. i \o v = ds
  <2>1. /\ 1 \in 1..Len(ds) + 1 /\ n \in 1 - 1..Len(ds) /\ k \in n..Len(ds)
    BY <1>1, <1>2 DEF k
  <2>2. SubSeq(ds, 1, n) \o SubSeq(ds, n + 1, k) = SubSeq(ds, 1, k)
    BY <1>1, <2>1, ConcatAdjacentSubSeq
  <2>3. SubSeq(ds, 1, k) = ds
    BY <1>1 DEF k
  <2> QED
    BY <2>2, <2>3
<1> HIDE DEF i, v
<1>7. i # <<>> /\ i[1] = ds[1]
  <2>1. 1 \in 1..Len(i) /\ 1 + 1 - 1 = 1
    BY <1>2, <1>4
  <2> QED
    BY <1>4, <2>1
<1>8. v # <<>> /\ v[Len(v)] = ds[k]
  <2>1. Len(v) \in 1..Len(v) /\ n + 1 + Len(v) - 1 = k
    BY <1>1, <1>2, <1>5
  <2> QED
    BY <1>5, <2>1
<1>9. Spread(i \o v, ds, 0)
  BY <1>1, <1>6, SpreadItself
<1>10. i \o <<".">> \o v = i \o FractionOf(v) \o ScaleOf("+", <<>>)
  <2>1. FractionOf(v) = <<".">> \o v
    BY <1>8 DEF FractionOf
  <2> DEFINE d == <<".">>
  <2>2. d \in Seq(Characters) /\ i \in Seq(Characters) /\ v \in Seq(Characters)
    BY <1>4, <1>5, CharactersAre
  <2> HIDE DEF d
  <2>3. (i \o d) \o v = i \o (d \o v)
    BY <2>2, ConcatAssociative
  <2>4. i \o (d \o v) \in Seq(Characters)
    BY <2>2
  <2>5. i \o (d \o v) \o <<>> = i \o (d \o v)
    BY <2>4, ConcatEmptySeq
  <2> QED
    BY <2>1, <2>3, <2>5, NoParts DEF d
<1>11. Len(i) - 0 + 0 = n /\ n \in -5..21
  BY <1>2, <1>4
<1> QED
  BY <1>1, <1>3, <1>4, <1>5, <1>7, <1>8, <1>9, <1>10, <1>11, NatOfNone DEF Laid, i, v, k

\* a point before them,
LEMMA SmallLaid ==
    ASSUME NEW ds, Significant(ds), NEW n \in Int, -6 < n, n <= 0
    PROVE  /\ Laid(Layout(ds, n), ds, n, <<"0">>, Zeros(-n) \o ds, "+", <<>>, 1 - n)
           /\ Zeros(-n) \o ds \in Seq(Digit)
<1> DEFINE k == Len(ds)
           c == Zeros(-n)
           v == c \o ds
           o == <<"0">>
           d == <<".">>
<1>1. ds \in Seq(Digit) /\ ds[k] # "0" /\ k \in Nat /\ k > 0 /\ -n \in Nat
  BY DEF Significant, NonzeroDigit
<1>2. c \in Seq(Digit) /\ Len(c) = -n /\ \A l \in 1..-n : c[l] = "0"
  BY <1>1, ZerosAre
<1>3. Layout(ds, n) = <<"0", ".">> \o c \o ds
  <2>1. ~(k <= n) /\ ~(0 < n)
    BY <1>1
  <2> QED
    BY <2>1 DEF Layout
<1>4. /\ o \in Seq(Digit) /\ Len(o) = 1 /\ o[1] = "0" /\ o # <<>>
      /\ d \in Seq(Characters) /\ <<"0", ".">> = o \o d
  <2>1. o \in Seq(Digit) /\ Len(o) = 1 /\ o[1] = "0" /\ o # <<>>
    <3>1. "0" \in Digit
      BY NoDigit
    <3> QED
      BY <3>1
  <2>2. d \in Seq(Characters)
    BY CharactersAre
  <2>3. <<"0", ".">> = o \o d
    OBVIOUS
  <2> QED
    BY <2>1, <2>2, <2>3
<1> HIDE DEF c, k
<1>5. /\ v \in Seq(Digit) /\ Len(v) = Len(c) + Len(ds)
      /\ \A l \in 1..Len(c) : v[l] = c[l]
      /\ \A l \in 1..Len(ds) : v[Len(c) + l] = ds[l]
  <2>1. Joins(v, Digit, c, ds)
    BY <1>1, <1>2, JoinIs, Zenon
  <2> HIDE DEF v
  <2> QED
    BY <2>1 DEF Joins
<1>6. <<"0", ".">> \o c \o ds = o \o FractionOf(v) \o ScaleOf("+", <<>>)
  <2>1. FractionOf(v) = d \o (c \o ds)
    <3>1. v # <<>>
      BY <1>1, <1>2, <1>5 DEF k
    <3> QED
      BY <3>1 DEF FractionOf
  <2>2. o \in Seq(Characters) /\ c \in Seq(Characters) /\ ds \in Seq(Characters) /\ d \in Seq(Characters)
    BY <1>1, <1>2, <1>4, CharactersAre
  <2> HIDE DEF o, d, v
  <2>3. ((o \o d) \o c) \o ds = o \o (d \o (c \o ds))
    <3>1. o \o d \in Seq(Characters) /\ c \o ds \in Seq(Characters)
      BY <2>2
    <3>2. Associate(o \o d, c, ds)
      BY <2>2, <3>1, AssociateAll, Zenon
    <3>3. Associate(o, d, c \o ds)
      BY <2>2, <3>1, AssociateAll, Zenon
    <3> QED
      BY <3>2, <3>3, Zenon DEF Associate
  <2>5. o \o (d \o (c \o ds)) \o <<>> = o \o (d \o (c \o ds))
    <3>1. o \o (d \o (c \o ds)) \in Seq(Characters)
      BY <2>2
    <3> QED
      BY <3>1, ConcatEmptySeq
  <2> QED
    BY <1>4, <2>1, <2>3, <2>5, NoParts
<1> HIDE DEF o, d, v
<1>7. v # <<>> /\ v[Len(v)] = ds[k] /\ Len(v) = k - n
  <2>1. Len(v) = k - n
    BY <1>1, <1>2, <1>5 DEF k
  <2>2. k \in 1..Len(ds) /\ Len(c) + k = Len(v) /\ Len(v) > 0
    BY <1>1, <1>2, <2>1 DEF k
  <2> QED
    BY <1>5, <2>1, <2>2
<1>8. Spread(o \o v, ds, 1 - n)
  <2> DEFINE all == o \o v
             z == 1 - n
  <2>1. /\ Len(all) = 1 + (k - n) /\ all[1] = "0"
        /\ \A l \in 1..Len(v) : all[1 + l] = v[l]
    <3>1. /\ Len(all) = Len(o) + Len(v)
          /\ \A l \in 1..Len(o) : all[l] = o[l]
          /\ \A l \in 1..Len(v) : all[Len(o) + l] = v[l]
      BY <1>4, <1>5, TwoParts
    <3>2. 1 \in 1..Len(o)
      BY <1>4
    <3> QED
      BY <1>4, <1>7, <3>1, <3>2
  <2> HIDE DEF all
  <2>2. ASSUME NEW l \in 1..z PROVE all[l] = "0"
    <3>1. CASE l = 1
      BY <2>1, <3>1
    <3>2. CASE l # 1
      <4>1. l - 1 \in 1..-n /\ 1 + (l - 1) = l /\ l - 1 \in 1..Len(v) /\ l - 1 \in 1..Len(c)
        BY <1>1, <1>2, <1>7, <3>2
      <4>2. all[1 + (l - 1)] = v[l - 1]
        BY <2>1, <4>1
      <4>3. v[l - 1] = c[l - 1] /\ c[l - 1] = "0"
        BY <1>2, <1>5, <4>1
      <4> QED
        BY <4>1, <4>2, <4>3
    <3> QED
      BY <3>1, <3>2
  <2>3. ASSUME NEW l \in 1..k PROVE all[z + l] = ds[l]
    <3>1. -n + l \in 1..Len(v) /\ 1 + (-n + l) = z + l /\ Len(c) + l = -n + l /\ l \in 1..Len(ds)
      BY <1>1, <1>2, <1>7 DEF k
    <3> QED
      BY <1>5, <2>1, <3>1
  <2>4. z + k <= Len(all) /\ z + k + 1..Len(all) = {}
    BY <1>1, <2>1
  <2> QED
    BY <2>2, <2>3, <2>4 DEF Spread, all, k
<1>9. Len(o) - (1 - n) + 0 = n /\ n \in -5..21
  BY <1>1, <1>4
<1> QED
  BY <1>1, <1>3, <1>4, <1>5, <1>6, <1>7, <1>8, <1>9, NatOfNone DEF Laid, o, v, c, k

\* What follows the first digit.
LEMMA TailIs ==
    ASSUME NEW C, NEW s \in Seq(C), s # <<>>, Len(s) # 1
    PROVE  /\ Tail(s) \in Seq(C) /\ Tail(s) # <<>> /\ Tail(s)[Len(Tail(s))] = s[Len(s)]
           /\ SubSeq(s, 1, 1) \o Tail(s) = s
<1> DEFINE k == Len(s)
           t == Tail(s)
<1>1. k \in Nat /\ k > 1
  <2>1. k \in Nat
    OBVIOUS
  <2>2. k # 0
    OBVIOUS
  <2>3. k # 1
    OBVIOUS
  <2> HIDE DEF k
  <2> QED
    BY <2>1, <2>2, <2>3
<1>2. t \in Seq(C) /\ Len(t) = k - 1 /\ \A l \in 1..k - 1 : t[l] = s[l + 1]
  BY <1>1
<1>3. t = SubSeq(s, 1 + 1, k)
  BY TailIsSubSeq
<1>4. SubSeq(s, 1, 1) \o SubSeq(s, 1 + 1, k) = SubSeq(s, 1, k)
  <2>1. 1 \in 1..k + 1 /\ 1 \in 1 - 1..k /\ k \in 1..k
    BY <1>1
  <2> QED
    BY <2>1, ConcatAdjacentSubSeq
<1>5. SubSeq(s, 1, k) = s
  BY <1>1
<1> HIDE DEF t, k
<1>6. k - 1 \in 1..k - 1 /\ (k - 1) + 1 = k /\ k - 1 > 0
  BY <1>1
<1>7. t # <<>> /\ t[Len(t)] = s[k]
  BY <1>2, <1>6
<1> QED
  BY <1>2, <1>3, <1>4, <1>5, <1>7 DEF t, k

\* An exponent begins with two characters.
LEMMA ScaleBegins == \A sign \in {"+", "-"} : <<"e">> \o <<sign>> = <<"e", sign>>
<1>1. <<"e", "+">> = <<"e">> \o <<"+">>
  OBVIOUS
<1>2. <<"e", "-">> = <<"e">> \o <<"-">>
  OBVIOUS
<1> QED
  BY <1>1, <1>2, Zenon

\* and an exponent.
LEMMA ScaledLaid ==
    ASSUME NEW ds, Significant(ds), NEW n \in Int, n \in Point, n \notin -5..21
    PROVE  LET m == IF n >= 1 THEN NumeralOf(n - 1) ELSE NumeralOf(1 - n)
               sign == IF n >= 1 THEN "+" ELSE "-"
               v == IF Len(ds) = 1 THEN <<>> ELSE Tail(ds)
           IN  /\ Laid(Layout(ds, n), ds, n, SubSeq(ds, 1, 1), v, sign, m, 0)
               /\ SubSeq(ds, 1, 1) \in Seq(Digit) /\ v \in Seq(Digit) /\ m \in Seq(Digit)
<1> DEFINE k == Len(ds)
           i == SubSeq(ds, 1, 1)
           v == IF k = 1 THEN <<>> ELSE Tail(ds)
           c == IF n >= 1 THEN n - 1 ELSE 1 - n
           m == IF n >= 1 THEN NumeralOf(n - 1) ELSE NumeralOf(1 - n)
           sign == IF n >= 1 THEN "+" ELSE "-"
           fr == IF k = 1 THEN <<>> ELSE <<".">> \o Tail(ds)
           e == <<"e">>
           g == <<sign>>
<1>1. /\ ds \in Seq(Digit) /\ ds # <<>> /\ ds[1] # "0" /\ ds[k] # "0"
      /\ k \in Nat /\ k > 0
  BY DEF Significant, NonzeroDigit
<1>2. n \in Int /\ c \in Nat /\ c # 0 /\ m = NumeralOf(c)
  OBVIOUS
<1>3. m \in Seq(Digit) /\ m # <<>> /\ NatOf(m) = c /\ m[1] # "0"
  <2>1. c < 1000
    BY <1>2, LimitsAre DEF Point
  <2> HIDE DEF c
  <2>2. NumeralOf(c) \in Seq(Digit) /\ Len(NumeralOf(c)) \in 1..3
    BY <1>2, <2>1, NumeralOfType
  <2>3. NatOf(NumeralOf(c)) = c /\ NumeralOf(c)[1] # "0"
    BY <1>2, <2>1, NumeralIs
  <2> QED
    BY <1>2, <2>2, <2>3
<1>4. Layout(ds, n) = i \o fr \o <<"e">>
                       \o (IF n >= 1 THEN <<"+">> \o NumeralOf(n - 1) ELSE <<"-">> \o NumeralOf(1 - n))
  <2>1. /\ ~(k <= n /\ n <= PositionalLimit) /\ ~(-6 < n /\ n <= 0)
        /\ ~(0 < n /\ n < k /\ n <= PositionalLimit)
    BY <1>1, <1>2 DEF PositionalLimit
  <2> QED
    BY <2>1 DEF Layout
<1>5. (IF n >= 1 THEN <<"+">> \o NumeralOf(n - 1) ELSE <<"-">> \o NumeralOf(1 - n)) = g \o m
  <2> HIDE DEF c, i, v, fr, k
  <2>1. CASE n >= 1
    BY <2>1, Zenon
  <2>2. CASE ~(n >= 1)
    BY <2>2, Zenon
  <2> QED
    BY <2>1, <2>2
<1>6. /\ i \in Seq(Digit) /\ Len(i) = 1 /\ i[1] = ds[1]
  BY <1>1
<1>7. v \in Seq(Digit) /\ i \o v = ds /\ (v # <<>> => v[Len(v)] = ds[k])
  <2>1. CASE k = 1
    <3>1. v = <<>> /\ i = ds
      BY <1>1, <1>6, <2>1
    <3> QED
      BY <1>1, <3>1
  <2>2. CASE k # 1
    <3>1. v = Tail(ds)
      BY <2>2
    <3> QED
      BY <1>1, <2>2, <3>1, TailIs
  <2> QED
    BY <2>1, <2>2
<1>8. fr = FractionOf(v)
  <2>1. ASSUME k # 1 PROVE v # <<>>
    <3>1. v = Tail(ds)
      BY <2>1
    <3> QED
      BY <1>1, <2>1, <3>1, TailIs
  <2> QED
    BY <2>1 DEF FractionOf
<1>9. g \in Seq(Characters) /\ e \in Seq(Characters) /\ sign \in {"+", "-"} /\ e \o g = <<"e", sign>>
  <2>1. sign \in {"+", "-"} /\ sign \in Characters /\ "e" \in Characters
    BY CharactersAre
  <2> HIDE DEF sign
  <2>2. g \in Seq(Characters) /\ e \in Seq(Characters)
    BY <2>1
  <2>3. <<"e">> \o <<sign>> = <<"e", sign>>
    BY <2>1, ScaleBegins, Zenon
  <2> QED
    BY <2>1, <2>2, <2>3
<1>10. n \in Int /\ (sign = "-" <=> ~(n >= 1)) /\ (sign = "-" => 1 - 0 + -c = n)
       /\ (sign # "-" => 1 - 0 + c = n)
  BY <1>2
<1> HIDE DEF k, i, v, c, m, sign, fr
<1>11. Layout(ds, n) = i \o FractionOf(v) \o ScaleOf(sign, m)
  <2> DEFINE s == i \o fr
  <2>1. fr \in Seq(Characters) /\ i \in Seq(Characters) /\ m \in Seq(Characters)
    <3>1. FractionOf(v) \in Seq(Characters)
      BY <1>7, FractionIs
    <3>2. fr \in Seq(Characters)
      BY <1>8, <3>1
    <3>3. i \in Seq(Characters)
      BY <1>6, CharactersAre
    <3>4. m \in Seq(Characters)
      BY <1>3, CharactersAre
    <3> QED
      BY <3>2, <3>3, <3>4
  <2>2. s \in Seq(Characters)
    BY <2>1
  <2>3. ScaleOf(sign, m) = (e \o g) \o m
    BY <1>3, <1>9 DEF ScaleOf
  <2>4. Layout(ds, n) = (s \o e) \o (g \o m)
    BY <1>4, <1>5
  <2> HIDE DEF s, e, g
  <2>5. g \o m \in Seq(Characters)
    BY <1>9, <2>1
  <2>6. e \in Seq(Characters) /\ g \in Seq(Characters)
    BY <1>9
  <2>7. Associate(s, e, g \o m) /\ Associate(e, g, m)
    BY <2>1, <2>2, <2>5, <2>6, AssociateAll, Zenon
  <2> QED
    BY <1>8, <2>3, <2>4, <2>7, Zenon DEF Associate, s
<1>12. Spread(i \o v, ds, 0)
  BY <1>1, <1>7, SpreadItself
<1>13. i # <<>> /\ i[1] # "0" /\ i # <<"0">> /\ (v # <<>> => v[Len(v)] # "0")
  <2>1. <<"0">>[1] = "0" /\ Len(<<>>) = 0
    OBVIOUS
  <2>2. i[1] # "0" /\ Len(i) = 1
    BY <1>1, <1>6
  <2>3. i # <<>> /\ i # <<"0">>
    BY <2>1, <2>2
  <2> QED
    BY <1>1, <1>7, <2>2, <2>3
<1>14. Len(i) - 0 + (IF m # <<>> /\ sign = "-" THEN -NatOf(m) ELSE NatOf(m)) = n
  BY <1>3, <1>6, <1>10
<1>15. Laid(Layout(ds, n), ds, n, i, v, sign, m, 0)
  BY <1>3, <1>6, <1>11, <1>12, <1>13, <1>14 DEF Laid
<1> QED
  BY <1>3, <1>6, <1>7, <1>15 DEF i, v, m, sign, k

\* Whatever the point, the digits are written in one of these ways.
LEMMA LayoutIs ==
    ASSUME NEW ds, Significant(ds), NEW n \in Point
    PROVE  \E i, v, m \in Seq(Digit), sign \in {"+", "-"}, z \in Nat :
              Laid(Layout(ds, n), ds, n, i, v, sign, m, z)
<1>1. n \in Int /\ Len(ds) \in Nat
  BY PointIs DEF Significant
<1>2. <<>> \in Seq(Digit) /\ 0 \in Nat
  OBVIOUS
<1>3. CASE Len(ds) <= n /\ n <= 21
  BY <1>1, <1>2, <1>3, WholeLaid
<1>4. CASE 0 < n /\ n < Len(ds) /\ n <= 21
  BY <1>1, <1>2, <1>4, PointLaid
<1>5. CASE -6 < n /\ n <= 0
  <2>1. 1 - n \in Nat
    BY <1>1, <1>5
  <2>2. "0" \in Digit
    BY NoDigit
  <2>3. <<"0">> \in Seq(Digit)
    BY <2>2
  <2> QED
    BY <1>1, <1>2, <1>5, <2>1, <2>3, SmallLaid
<1>6. CASE n \notin -5..21
  <2> DEFINE m == IF n >= 1 THEN NumeralOf(n - 1) ELSE NumeralOf(1 - n)
             sign == IF n >= 1 THEN "+" ELSE "-"
             v == IF Len(ds) = 1 THEN <<>> ELSE Tail(ds)
             i == SubSeq(ds, 1, 1)
  <2>1. sign \in {"+", "-"}
    OBVIOUS
  <2>2. /\ Laid(Layout(ds, n), ds, n, i, v, sign, m, 0)
        /\ i \in Seq(Digit) /\ v \in Seq(Digit) /\ m \in Seq(Digit)
    BY <1>1, <1>6, ScaledLaid
  <2> HIDE DEF m, sign, v, i
  <2> QED
    BY <1>2, <2>1, <2>2
<1>7. \/ Len(ds) <= n /\ n <= 21
      \/ 0 < n /\ n < Len(ds) /\ n <= 21
      \/ -6 < n /\ n <= 0
      \/ n \notin -5..21
  BY <1>1
<1> QED
  BY <1>3, <1>4, <1>5, <1>6, <1>7

\* And behind the sign it is a number in parts.
LEMMA WriteIs ==
    ASSUME NEW x \in Double, x.digits # <<>>
    PROVE  \E minus \in {<<>>, <<"-">>}, i, v, m \in Seq(Digit), sign \in {"+", "-"}, z \in Nat :
              /\ (minus = <<"-">>) = x.negative
              /\ WriteNumber(x) = Composed(minus, i, v, sign, m)
              /\ Laid(Layout(x.digits, x.point), x.digits, x.point, i, v, sign, m, z)
<1> DEFINE minus == IF x.negative THEN <<"-">> ELSE <<>>
<1>1. x.negative \in BOOLEAN /\ x.point \in Point /\ Significant(x.digits)
  BY DEF Double, Significant
<1>2. PICK i, v, m \in Seq(Digit), sign \in {"+", "-"}, z \in Nat :
         Laid(Layout(x.digits, x.point), x.digits, x.point, i, v, sign, m, z)
  BY <1>1, LayoutIs
<1>3. minus \in {<<>>, <<"-">>} /\ (minus = <<"-">>) = x.negative
  <2>1. <<>> # <<"-">>
    OBVIOUS
  <2>2. CASE x.negative = TRUE
    BY <2>2, Zenon
  <2>3. CASE x.negative = FALSE
    BY <2>1, <2>3, Zenon
  <2> QED
    BY <1>1, <2>2, <2>3, Zenon
<1>4. WriteNumber(x) = minus \o Layout(x.digits, x.point)
  BY DoubleIsFinite DEF WriteNumber
<1> HIDE DEF minus
<1>5. minus \o Layout(x.digits, x.point) = Composed(minus, i, v, sign, m)
  <2> DEFINE fr == FractionOf(v)
             ex == ScaleOf(sign, m)
  <2>1. Layout(x.digits, x.point) = (i \o fr) \o ex
    BY <1>2 DEF Laid
  <2>2. fr \in Seq(Characters) /\ ex \in Seq(Characters)
    BY FractionIs, ScaleIs
  <2>3. minus \in Seq(Characters)
    <3>1. <<>> \in Seq(Characters) /\ <<"-">> \in Seq(Characters)
      BY CharactersAre
    <3> QED
      BY <1>3, <3>1, Zenon
  <2>4. i \in Seq(Characters)
    BY CharactersAre
  <2> HIDE DEF fr, ex
  <2>5. i \o fr \in Seq(Characters)
    BY <2>2, <2>4
  <2>6. Associate(minus, i, fr) /\ Associate(minus, i \o fr, ex)
    BY <2>2, <2>3, <2>4, <2>5, AssociateAll, Zenon
  <2>7. Composed(minus, i, v, sign, m) = ((minus \o i) \o fr) \o ex
    BY DEF Composed, fr, ex
  <2> QED
    BY <2>1, <2>6, <2>7, Zenon DEF Associate
<1> QED
  BY <1>2, <1>3, <1>4, <1>5

\* What is written is a number, and the double is its.
Rereads(w, x) ==
    /\ w \in Seq(Characters) /\ IsNumber(w)
    /\ \A l \in 1..Len(w) : w[l] \in Digit \cup {"-", "+", ".", "e", "E"}
    /\ F64(w) = x

\* It has the form that ECMAScript gives it.
HasForm(w, n) ==
    LET p == Parts(w) IN
    /\ p.scaled <=> n \notin -5..21
    /\ p.scaled => /\ Len(p.int) = 1 /\ p.int # <<"0">>
                   /\ w[PositionOf(w, {"e"}) + 1] \in {"+", "-"}
                   /\ p.exponent[1] # "0"
    /\ p.pointed => Last(p.fraction) # "0"

\* What is written of a double that is not zero is both.
LEMMA WriteRereads ==
    ASSUME NEW x \in Double, x.digits # <<>>
    PROVE  Rereads(WriteNumber(x), x) /\ HasForm(WriteNumber(x), x.point)
<1> DEFINE w == WriteNumber(x)
           p == Parts(w)
<1>1. PICK minus \in {<<>>, <<"-">>}, i, v, m \in Seq(Digit), sign \in {"+", "-"}, z \in Nat :
              /\ (minus = <<"-">>) = x.negative
              /\ w = Composed(minus, i, v, sign, m)
              /\ Laid(Layout(x.digits, x.point), x.digits, x.point, i, v, sign, m, z)
  BY WriteIs
<1> HIDE DEF w
<1>2. /\ i # <<>> /\ (i[1] = "0" => Len(i) = 1)
      /\ Spread(i \o v, x.digits, z)
      /\ Len(i) - z + (IF m # <<>> /\ sign = "-" THEN -NatOf(m) ELSE NatOf(m)) = x.point
      /\ v # <<>> => v[Len(v)] # "0"
      /\ m # <<>> <=> x.point \notin -5..21
      /\ m # <<>> => Len(i) = 1 /\ i # <<"0">> /\ m[1] # "0"
  BY <1>1 DEF Laid
<1>3. /\ w \in Seq(Characters) /\ IsNumber(w)
      /\ p.int = i /\ p.fraction = v /\ p.exponent = m
      /\ p.negative = (minus = <<"-">>)
      /\ p.pointed = (v # <<>>) /\ p.scaled = (m # <<>>)
      /\ p.down = (m # <<>> /\ sign = "-")
      /\ \A l \in 1..Len(w) : w[l] \in Digit \cup {"-", "+", ".", "e", "E"}
      /\ m # <<>> => w[PositionOf(w, {"e"}) + 1] = sign
  <2>1. i[1] = "0" => Len(i) = 1
    BY <1>2
  <2>2. i # <<>>
    BY <1>2
  <2>3. NumberOf(w, minus, i, v, sign, m)
    BY <1>1, <2>1, <2>2, ComposedIs, Zenon
  <2> QED
    BY <2>3, Zenon DEF NumberOf, p
<1> HIDE DEF p
<1>4. F64(w) = x
  <2>1. p.negative = x.negative
    BY <1>1, <1>3, Zenon
  <2>2. NatOf(p.exponent) \in Nat
    BY <1>3, NatOfType
  <2>3. p.int \in Seq(Digit) /\ p.fraction \in Seq(Digit) /\ Spread(p.int \o p.fraction, x.digits, z)
    BY <1>2, <1>3, Zenon
  <2>4. Len(p.int) - z + (IF p.down THEN -NatOf(p.exponent) ELSE NatOf(p.exponent)) = x.point
    BY <1>2, <1>3, Zenon
  <2> QED
    BY <2>1, <2>2, <2>3, <2>4, F64Of DEF p
<1>5. HasForm(w, x.point)
  <2>1. p.scaled <=> x.point \notin -5..21
    BY <1>2, <1>3, Zenon
  <2>2. p.scaled => /\ Len(p.int) = 1 /\ p.int # <<"0">> /\ p.exponent[1] # "0"
                    /\ w[PositionOf(w, {"e"}) + 1] \in {"+", "-"}
    BY <1>2, <1>3, Zenon
  <2>3. p.pointed => Last(p.fraction) # "0"
    <3>1. Last(v) = v[Len(v)]
      BY DEF Last
    <3> QED
      BY <1>2, <1>3, <3>1, Zenon
  <2> QED
    BY <2>1, <2>2, <2>3 DEF HasForm, p
<1> QED
  BY <1>3, <1>4, <1>5 DEF Rereads, w

-----------------------------------------------------------------------------
(* The canonical form is stable. *)

\* The double of what is written: a zero loses its sign.
Kept(x) == IF x.digits = <<>> THEN Zero(FALSE) ELSE x

\* "0" is read as a zero.
LEMMA ZeroRereads == Rereads(<<"0">>, Zero(FALSE)) /\ ~OutOfDomain(<<"0">>)
<1> DEFINE w == <<"0">>
           p == Parts(w)
           S == ToSet(p.int \o p.fraction)
<1>1. /\ <<>> \in {<<>>, <<"-">>} /\ "+" \in {"+", "-"} /\ <<>> \in Seq(Digit)
      /\ w \in Seq(Digit) /\ w # <<>> /\ (w[1] = "0" => Len(w) = 1)
  <2>1. "0" \in Digit
    BY NoDigit
  <2> QED
    BY <2>1
<1>2. w = Composed(<<>>, w, <<>>, "+", <<>>)
  BY DEF Composed, FractionOf, ScaleOf
<1>3. <<>> # <<"-">> /\ w \o <<>> = w
  OBVIOUS
<1>4. ToSet(w) = {"0"}
  BY DEF ToSet
<1> HIDE DEF w
<1>5. NumberOf(w, <<>>, w, <<>>, "+", <<>>)
  BY <1>1, <1>2, ComposedIs, Zenon
<1>6. /\ w \in Seq(Characters) /\ IsNumber(w)
      /\ p.int = w /\ p.fraction = <<>> /\ p.negative = FALSE /\ ~p.scaled
      /\ \A l \in 1..Len(w) : w[l] \in Digit \cup {"-", "+", ".", "e", "E"}
  BY <1>3, <1>5, Zenon DEF NumberOf
<1>7. S = {"0"}
  BY <1>3, <1>4, <1>6, Zenon
<1>8. F64(w) = Zero(p.negative) /\ ~OutOfDomain(w)
  BY <1>6, <1>7, ZerosAreKept, Zenon
<1> QED
  BY <1>6, <1>8, Zenon DEF Rereads, w

\* What is written of a double is read as that double, and the same is written of it.
LEMMA WrittenRereads ==
    ASSUME NEW x \in Double
    PROVE  /\ Rereads(WriteNumber(x), Kept(x)) /\ ~OutOfDomain(WriteNumber(x))
           /\ WriteNumber(Kept(x)) = WriteNumber(x)
<1>1. CASE x.digits = <<>>
  <2>1. Zero(FALSE).digits = <<>>
    BY DEF Zero
  <2>2. WriteNumber(x) = <<"0">> /\ WriteNumber(Kept(x)) = <<"0">> /\ Kept(x) = Zero(FALSE)
    <3>1. Zero(FALSE) \in Double
      BY PointIs DEF Double, Zero
    <3>2. IsFinite(x) /\ IsFinite(Zero(FALSE))
      BY <3>1, DoubleIsFinite
    <3> QED
      BY <1>1, <2>1, <3>2, Zenon DEF WriteNumber, Kept
  <2> QED
    BY <2>2, ZeroRereads
<1>2. CASE x.digits # <<>>
  <2>1. Rereads(WriteNumber(x), x) /\ Kept(x) = x
    BY <1>2, WriteRereads DEF Kept
  <2>2. x # Infinity
    <3>1. x.digits \in Seq(Digit) /\ x.digits[1] \in NonzeroDigit
      BY <1>2 DEF Double
    <3>2. "inf" \notin Digit
      BY DigitIs
    <3> QED
      BY <3>1, <3>2 DEF Infinity, NonzeroDigit
  <2>3. ~OutOfDomain(WriteNumber(x))
    BY <1>2, <2>1, <2>2 DEF OutOfDomain, Rereads
  <2> QED
    BY <2>1, <2>3
<1> QED
  BY <1>1, <1>2

\* So a double is written.
LEMMA DoubleIsWritten == \A x \in Double : WriteNumber(x) # Bad
<1> SUFFICES ASSUME NEW x \in Double PROVE WriteNumber(x) # Bad
  OBVIOUS
<1> DEFINE w == WriteNumber(x)
<1>1. w \in Seq(Characters) /\ IsNumber(w)
  BY WrittenRereads DEF Rereads
<1> HIDE DEF w
<1>2. \E a, f, e, x2 \in Nat : Shape(w, Len(w), a, f, e, x2)
  BY <1>1, NumberShape
<1>3. Len(w) # 0
  BY <1>1, <1>2 DEF Shape
<1> QED
  BY <1>3 DEF w, Bad

\* What the writer refuses was built by hand, and is not finite.
RefusedInv == pc = "refused" => chars = <<>> /\ ~IsFinite(number)

LEMMA RefusedHolds == Spec => []RefusedInv
<1>1. Init => RefusedInv
  BY DEF Init, ParseInit, BuiltInit, RefusedInv
<1>2. ReadInv /\ RefusedInv /\ [Next]_vars => RefusedInv'
  <2> SUFFICES ASSUME ReadInv, RefusedInv, [Next]_vars, pc' = "refused"
               PROVE  chars' = <<>> /\ ~IsFinite(number')
    BY DEF RefusedInv
  <2>1. CASE UNCHANGED vars
    BY <2>1 DEF vars, RefusedInv
  <2>2. CASE Refuse
    <3>1. /\ pc \in {"parsed", "built"} /\ WriteNumber(number) = Bad
          /\ chars' = chars /\ number' = number
      BY <2>2 DEF Refuse, Unwritten
    <3>2. number \notin Double
      BY <3>1, DoubleIsWritten
    <3> QED
      BY <3>1, <3>2 DEF ReadInv, IsFinite
  <2>3. IntegerPart => pc' # "refused"
    BY IntegerBranch DEF Goto, Fail
  <2>4. Fraction \/ Exponent \/ Convert \/ Rewrite => pc' # "refused"
    BY DEF Fraction, Exponent, Digits, Goto, Fail, Convert, Rewrite
  <2> QED
    BY <2>1, <2>2, <2>3, <2>4 DEF Next
<1> QED
  BY <1>1, <1>2, ReadHolds, PTL DEF Spec

\* Once a number was written, the text is what was written of it.
WrittenInv == first # NoNumber => first \in Double /\ chars = WriteNumber(first)

\* It is the invariant of the second parse.
LEMMA WrittenHolds == Spec => []WrittenInv
<1>1. Init => WrittenInv
  BY DEF Init, WrittenInv
<1>2. ReadInv /\ WrittenInv /\ [Next]_vars => WrittenInv'
  <2> SUFFICES ASSUME ReadInv, WrittenInv, [Next]_vars PROVE WrittenInv'
    OBVIOUS
  <2>1. CASE UNCHANGED <<chars, first>>
    BY <2>1 DEF WrittenInv
  <2>2. CASE Rewrite
    <3>1. first' = number /\ chars' = WriteNumber(number) /\ IsFinite(number)
          /\ pc \in {"parsed", "built"}
      BY <2>2 DEF Rewrite, Unwritten, WriteNumber
    <3>2. number \in Double
      BY <3>1 DEF ReadInv, IsFinite
    <3> QED
      BY <3>1, <3>2 DEF WrittenInv
  <2>7. Refuse => UNCHANGED <<chars, first>>
    BY DEF Refuse
  <2>3. IntegerPart => UNCHANGED <<chars, first>>
    BY IntegerBranch DEF Goto, Fail
  <2>4. Fraction => UNCHANGED <<chars, first>>
    BY DEF Fraction, Digits, Goto, Fail
  <2>5. Exponent => UNCHANGED <<chars, first>>
    BY DEF Exponent, Digits, Goto, Fail
  <2>6. Convert => UNCHANGED <<chars, first>>
    BY DEF Convert
  <2> QED
    BY <2>1, <2>2, <2>3, <2>4, <2>5, <2>6, <2>7 DEF Next, vars
<1> QED
  BY <1>1, <1>2, ReadHolds, PTL DEF Spec

\* The whole text is what a JSON reader sees.
LEMMA WrittenLexeme ==
    ASSUME ReadInv, WrittenInv, first # NoNumber
    PROVE  Lexeme = chars /\ Rereads(chars, Kept(first)) /\ ~OutOfDomain(chars)
<1>1. Rereads(chars, Kept(first)) /\ ~OutOfDomain(chars)
  BY WrittenRereads DEF WrittenInv
<1>2. /\ chars \in Seq(Characters) /\ Len(chars) \in Nat
      /\ \A l \in 1..Len(chars) : chars[l] \in Digit \cup {"-", "+", ".", "e", "E"}
  BY <1>1 DEF Rereads
<1>3. \A l \in 1..Len(chars) : chars[l] \notin Terminators
  BY <1>2, NoDigit DEF Terminators
<1>4. PositionOf(chars, Terminators) = Len(chars) + 1
  BY <1>2, <1>3, PositionUnique
<1>5. Lexeme = chars
  <2>1. (Len(chars) + 1) - 1 = Len(chars) /\ SubSeq(chars, 1, Len(chars)) = chars
    BY <1>2
  <2> QED
    BY <1>4, <2>1 DEF Lexeme, Terminators
<1> QED
  BY <1>1, <1>5

\* The second reading accepts all of it, with the same double.
LEMMA SecondReading ==
    ASSUME ReadInv, FollowInv, WrittenInv, first # NoNumber, pc \in {"parsed", "failed"}
    PROVE  pc = "parsed" /\ pos = Len(chars) + 1 /\ number = Kept(first)
<1>1. /\ Lexeme = chars /\ IsNumber(chars) /\ F64(chars) = Kept(first) /\ ~OutOfDomain(chars)
      /\ chars \in Seq(Characters)
  BY WrittenLexeme DEF Rereads
<1>2. Accepted
  BY <1>1, NumberIsAccepted
<1>3. pc = "parsed" /\ number = F64(chars)
  BY <1>1, <1>2, AcceptedIsNumber DEF Accepted
<1>4. pos = Len(chars) + 1
  <2>1. Token = chars /\ Len(Token) = pos - 1 /\ pos \in Int
    BY <1>1, <1>2, <1>3, AcceptedLexeme, TokenIs DEF ReadInv
  <2> QED
    BY <2>1
<1> QED
  BY <1>1, <1>3, <1>4

\* CanonicalIsStable, for texts of any length and every range of the point: whatever
\* number was accepted or built by hand, its canonical form is parsed to the same double,
\* up to the sign of a zero, and is its own canonical form; only NaN and the infinities
\* have none, and only a number built by hand is one (canonical.rs:38-39, 265-311, 597-689).
THEOREM CanonicalNumberIsStable == Spec => []CanonicalIsStable
<1>1. ReadInv /\ FollowInv /\ WrittenInv /\ RefusedInv => CanonicalIsStable
  <2> SUFFICES ASSUME ReadInv, FollowInv, WrittenInv, first # NoNumber
               PROVE  /\ pc # "failed"
                      /\ pc = "parsed" => /\ pos = Len(chars) + 1
                                          /\ number = Kept(first)
                                          /\ WriteNumber(number) = chars
    BY DEF CanonicalIsStable, Kept, RefusedInv
  <2>1. first \in Double /\ chars = WriteNumber(first)
    BY DEF WrittenInv
  <2>2. WriteNumber(Kept(first)) = chars
    BY <2>1, WrittenRereads
  <2> QED
    BY <2>2, SecondReading
<1> QED
  BY <1>1, ReadHolds, FollowHolds, WrittenHolds, RefusedHolds, PTL

\* EcmaScriptForm, for texts of any length and every range of the point: every
\* canonical number has an exponent exactly where ECMAScript gives it one, and no
\* digit that could be left out (canonical.rs:258-261, RFC 8785 section 3.2.2.3).
THEOREM EcmaScriptHolds == Spec => []EcmaScriptForm
<1>1. WrittenInv => EcmaScriptForm
  <2> SUFFICES ASSUME WrittenInv, first # NoNumber, first.digits # <<>> PROVE HasForm(chars, first.point)
    BY DEF EcmaScriptForm, HasForm
  <2> QED
    BY WriteRereads DEF WrittenInv
<1> QED
  BY <1>1, WrittenHolds, PTL
=============================================================================

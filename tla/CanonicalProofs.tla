-------------------------- MODULE CanonicalProofs --------------------------
(***************************************************************************)
(* Proofs about the canonicalizer, for every input, every limit of nesting *)
(* and whatever comes of a lexeme: what Parser keeps to (JsonParser), what *)
(* write_value makes of a value, that a canonical form is read back as it  *)
(* is written and that a text Parser accepts is the value it returns, laid *)
(* out (Canonical), and what is read off a result (ToolsList).  What the   *)
(* frames under way hold is of no bounded depth to begin with: a sequence  *)
(* is one over its own elements here.                                      *)
(***************************************************************************)
EXTENDS ToolsList, Utf16Proofs, FiniteSetTheorems, FunctionTheorems

Sequence(s) == s \in Seq({s[i] : i \in DOMAIN s})
Distinct(s) == \A i, j \in DOMAIN s : s[i] = s[j] => i = j

-----------------------------------------------------------------------------
(* Sequences over their own elements. *)

\* Any sequence is one.
LEMMA SeqIsSequence ==
    ASSUME NEW S, NEW s \in Seq(S)
    PROVE  Sequence(s) /\ Len(s) \in Nat /\ DOMAIN s = 1..Len(s)
<1>1. Len(s) \in Nat /\ s \in [1..Len(s) -> S] /\ DOMAIN s = 1..Len(s)
  BY LenProperties
<1>2. s \in [1..Len(s) -> {s[i] : i \in DOMAIN s}]
  <2>1. \A i \in 1..Len(s) : s[i] \in {s[j] : j \in DOMAIN s}
    BY <1>1
  <2>2. s = [i \in 1..Len(s) |-> s[i]]
    BY <1>1
  <2> QED
    BY <2>1, <2>2, Zenon
<1>3. ASSUME NEW T, s \in [1..Len(s) -> T]
      PROVE  s \in Seq(T)
  <2>1. Seq(T) = UNION {[1..n -> T] : n \in Nat}
    BY SeqDef
  <2> QED
    BY <1>1, <1>3, <2>1, Zenon
<1>4. s \in Seq({s[i] : i \in DOMAIN s})
  BY <1>2, <1>3, Zenon
<1> QED
  BY <1>1, <1>4 DEF Sequence

\* Its length and its positions.
LEMMA SequenceLen ==
    ASSUME NEW s, Sequence(s)
    PROVE  Len(s) \in Nat /\ DOMAIN s = 1..Len(s)
BY LenProperties DEF Sequence

\* One element more.
LEMMA Appended ==
    ASSUME NEW s, Sequence(s), NEW v
    PROVE  /\ Sequence(Append(s, v))
           /\ Len(Append(s, v)) = Len(s) + 1
           /\ \A i \in 1..Len(s) : Append(s, v)[i] = s[i]
           /\ Append(s, v)[Len(s) + 1] = v
<1> DEFINE R == {s[i] : i \in DOMAIN s}
           S == R \cup {v}
<1>1. s \in Seq(S)
  <2>1. s \in Seq(R) /\ R \subseteq S
    BY DEF Sequence
  <2> HIDE DEF R, S
  <2> QED
    BY <2>1, SeqMonotonic
<1>2. v \in S
  OBVIOUS
<1> HIDE DEF R, S
<1>3. Append(s, v) \in Seq(S)
  BY <1>1, <1>2
<1>4. /\ Len(Append(s, v)) = Len(s) + 1
      /\ \A i \in 1..Len(s) : Append(s, v)[i] = s[i]
      /\ Append(s, v)[Len(s) + 1] = v
  BY <1>1, <1>2
<1> QED
  BY <1>3, <1>4, SeqIsSequence

\* The first n elements.
LEMMA Prefix ==
    ASSUME NEW s, Sequence(s), NEW n \in 0..Len(s)
    PROVE  /\ Sequence(SubSeq(s, 1, n))
           /\ Len(SubSeq(s, 1, n)) = n
           /\ \A i \in 1..n : SubSeq(s, 1, n)[i] = s[i]
<1> DEFINE R == {s[i] : i \in DOMAIN s}
<1>1. s \in Seq(R) /\ Len(s) \in Nat /\ DOMAIN s = 1..Len(s)
  BY SequenceLen DEF Sequence
<1>2. n \in Nat /\ \A i \in 1..n : s[i] \in R
  BY <1>1
<1> HIDE DEF R
<1>3. /\ SubSeq(s, 1, n) \in Seq(R)
      /\ Len(SubSeq(s, 1, n)) = IF 1 <= n THEN n - 1 + 1 ELSE 0
      /\ \A i \in 1..(n - 1 + 1) : SubSeq(s, 1, n)[i] = s[1 + i - 1]
  BY <1>2, SubSeqProperties
<1>4. Sequence(SubSeq(s, 1, n))
  BY <1>3, SeqIsSequence
<1> QED
  BY <1>2, <1>3, <1>4

\* The last element in place of another.
LEMMA Replaced ==
    ASSUME NEW s, Sequence(s), Len(s) >= 1, NEW v
    PROVE  LET t == Append(SubSeq(s, 1, Len(s) - 1), v) IN
           /\ Sequence(t)
           /\ Len(t) = Len(s)
           /\ \A i \in 1..(Len(s) - 1) : t[i] = s[i]
           /\ t[Len(s)] = v
<1> DEFINE n == Len(s) - 1
           p == SubSeq(s, 1, n)
<1>1. Len(s) = n + 1 /\ n \in 0..Len(s)
  BY SequenceLen
<1> HIDE DEF n
<1>2. Sequence(p) /\ Len(p) = n /\ \A i \in 1..n : p[i] = s[i]
  BY <1>1, Prefix
<1> HIDE DEF p
<1>3. /\ Sequence(Append(p, v)) /\ Len(Append(p, v)) = n + 1
      /\ \A i \in 1..n : Append(p, v)[i] = p[i]
      /\ Append(p, v)[n + 1] = v
  BY <1>2, Appended
<1>4. n + 1 = Len(s) /\ n = Len(s) - 1
  BY <1>1, SequenceLen
<1> QED
  BY <1>2, <1>3, <1>4 DEF n, p

\* Other elements at the same positions.
LEMMA Overwritten ==
    ASSUME NEW s, Sequence(s), NEW t, t = [i \in DOMAIN s |-> t[i]]
    PROVE  Sequence(t) /\ Len(t) = Len(s)
<1> DEFINE S == {t[i] : i \in DOMAIN t}
<1>1. Len(s) \in Nat /\ DOMAIN s = 1..Len(s)
  BY SequenceLen
<1>2. t \in [1..Len(s) -> S]
  BY <1>1
<1>3. t \in Seq(S) /\ Len(t) = Len(s)
  BY <1>1, <1>2
<1> QED
  BY <1>3 DEF Sequence

\* The kinds of frame differ.
LEMMA TokenKinds == BeginObject # BeginArray /\ BeginObject # "text"
BY Zenon DEF BeginObject, BeginArray

-----------------------------------------------------------------------------
(* The calls under way, whatever the position and the input. *)

FrameOK(f) ==
    /\ f = [kind |-> f.kind, names |-> f.names, items |-> f.items]
    /\ Sequence(f.names) /\ Sequence(f.items)
    /\ f.kind # BeginObject => f.names = <<>>

\* One name more than values: of an object whose next value is due.
Ahead(f) == f.kind = BeginObject => Len(f.names) = Len(f.items) + 1
Even(f) == f.kind = BeginObject => Len(f.names) = Len(f.items)

\* The frames o when p is due next.
StackOK(o, p) ==
    /\ Sequence(o) /\ Len(o) >= 1
    /\ o[1].kind = "text"
    /\ \A k \in 1..Len(o) : FrameOK(o[k])
    /\ \A k \in 2..Len(o) : o[k].kind \in {BeginObject, BeginArray}
    /\ \A k \in 1..(Len(o) - 1) : p # "failed" => Ahead(o[k])
    /\ p \in {"colon", "value"} => Ahead(o[Len(o)])
    /\ p \notin {"colon", "value", "failed"} => Even(o[Len(o)])
    /\ p \in {"name", "colon"} => o[Len(o)].kind = BeginObject
    /\ p = "first" => o[Len(o)].kind \in {BeginObject, BeginArray}

Unique(o) == \A k \in 1..Len(o) : Distinct(o[k].names)

\* A value is delivered to the frame that waits for it.
LEMMA DeliveredOK ==
    ASSUME NEW f, FrameOK(f), Ahead(f), NEW v
    PROVE  LET g == Delivered(f, v) IN
           /\ FrameOK(g) /\ Even(g) /\ g.kind = f.kind
           /\ Distinct(f.names) => Distinct(g.names)
<1> DEFINE n == Len(f.names)
           E == {i \in 1..(n - 1) : f.names[i] = f.names[n]}
           g == Delivered(f, v)
<1>1. /\ Len(f.names) \in Nat /\ DOMAIN f.names = 1..Len(f.names)
      /\ Len(f.items) \in Nat /\ DOMAIN f.items = 1..Len(f.items)
  BY SequenceLen DEF FrameOK
<1>2. CASE f.kind = BeginObject /\ E # {}
  <2> DEFINE a == SubSeq(f.names, 1, n - 1)
             b == [i \in DOMAIN f.items |-> IF i \in E THEN v ELSE f.items[i]]
  <2>1. g = [kind |-> f.kind, names |-> a, items |-> b]
    BY <1>2 DEF Delivered, FrameOK
  <2>2. n = Len(f.items) + 1 /\ n - 1 \in 0..n
    BY <1>1, <1>2 DEF Ahead
  <2>3. Sequence(a) /\ Len(a) = n - 1 /\ \A i \in 1..(n - 1) : a[i] = f.names[i]
    BY <2>2, Prefix DEF FrameOK
  <2>4. Sequence(b) /\ Len(b) = Len(f.items)
    <3>1. Sequence(f.items) /\ b = [i \in DOMAIN f.items |-> b[i]]
      BY DEF FrameOK
    <3> HIDE DEF b
    <3> QED
      BY <3>1, Overwritten
  <2> HIDE DEF a, b, g, E
  <2>5. FrameOK(g) /\ Even(g) /\ g.kind = f.kind
    BY <1>2, <2>1, <2>2, <2>3, <2>4, <1>1 DEF FrameOK, Even
  <2>6. DOMAIN a = 1..(n - 1)
    BY <2>3, SequenceLen
  <2>7. Distinct(f.names) => Distinct(a)
    BY <2>3, <2>6, <2>2, <1>1 DEF Distinct
  <2> QED
    BY <2>1, <2>5, <2>7 DEF g
<1>3. CASE ~(f.kind = BeginObject /\ E # {})
  <2>1. g = [kind |-> f.kind, names |-> f.names, items |-> Append(f.items, v)]
    BY <1>3 DEF Delivered, FrameOK
  <2>2. Sequence(Append(f.items, v)) /\ Len(Append(f.items, v)) = Len(f.items) + 1
    BY Appended DEF FrameOK
  <2> HIDE DEF g
  <2> QED
    BY <2>1, <2>2, <1>1 DEF FrameOK, Even, Ahead, g
<1> QED
  BY <1>2, <1>3

\* Another frame on top.
LEMMA TopOK ==
    ASSUME NEW o, NEW p, StackOK(o, p), p # "failed",
           NEW f, FrameOK(f), f.kind = o[Len(o)].kind, NEW q,
           q \in {"colon", "value"} => Ahead(f),
           q \notin {"colon", "value", "failed"} => Even(f),
           q \in {"name", "colon"} => f.kind = BeginObject,
           q = "first" => f.kind \in {BeginObject, BeginArray}
    PROVE  LET t == Append(SubSeq(o, 1, Len(o) - 1), f) IN
           /\ StackOK(t, q) /\ Len(t) = Len(o)
           /\ Unique(o) /\ Distinct(f.names) => Unique(t)
<1> DEFINE t == Append(SubSeq(o, 1, Len(o) - 1), f)
<1>1. Len(o) \in Nat \ {0} /\ Sequence(o)
  BY SequenceLen DEF StackOK
<1>2. /\ Sequence(t) /\ Len(t) = Len(o)
      /\ \A i \in 1..(Len(o) - 1) : t[i] = o[i]
      /\ t[Len(o)] = f
  BY <1>1, Replaced
<1> HIDE DEF t
<1>3. \A k \in 1..Len(t) : FrameOK(t[k]) /\ t[k].kind = o[k].kind
  BY <1>1, <1>2 DEF StackOK
<1>4. StackOK(t, q)
  BY <1>1, <1>2, <1>3 DEF StackOK
<1>5. ASSUME Unique(o), Distinct(f.names) PROVE Unique(t)
  BY <1>1, <1>2, <1>5 DEF Unique
<1> QED
  BY <1>2, <1>4, <1>5 DEF t

\* Whether a value is due: after a colon or a comma, or first in an array.
Due(o, p) == p = "value" \/ (p = "first" /\ o[Len(o)].kind = BeginArray)

\* The frame on top waits for the value that is due.
LEMMA DueIsAhead ==
    ASSUME NEW o, NEW p, StackOK(o, p), Due(o, p)
    PROVE  FrameOK(o[Len(o)]) /\ Ahead(o[Len(o)])
<1>1. Len(o) \in Nat /\ Len(o) >= 1
  BY SequenceLen DEF StackOK
<1>2. FrameOK(o[Len(o)])
  BY <1>1 DEF StackOK
<1>3. Ahead(o[Len(o)])
  BY TokenKinds DEF StackOK, Due, Ahead, Even
<1> QED
  BY <1>2, <1>3

\* A value is delivered.
LEMMA ScalarOK ==
    ASSUME NEW o, NEW p, StackOK(o, p), Due(o, p), NEW v
    PROVE  LET t == Append(SubSeq(o, 1, Len(o) - 1), Delivered(o[Len(o)], v)) IN
           /\ StackOK(t, "after") /\ Len(t) = Len(o)
           /\ Unique(o) => Unique(t)
<1> DEFINE g == Delivered(o[Len(o)], v)
<1>1. /\ FrameOK(g) /\ Even(g) /\ g.kind = o[Len(o)].kind
      /\ Distinct(o[Len(o)].names) => Distinct(g.names)
  BY DueIsAhead, DeliveredOK
<1>2. Unique(o) => Distinct(o[Len(o)].names)
  <2>1. Len(o) \in Nat /\ Len(o) >= 1
    BY SequenceLen DEF StackOK
  <2> QED
    BY <2>1 DEF Unique
<1>3. p # "failed"
  BY DEF Due
<1> HIDE DEF g
<1>4. LET t == Append(SubSeq(o, 1, Len(o) - 1), g) IN
      /\ StackOK(t, "after") /\ Len(t) = Len(o)
      /\ Unique(o) /\ Distinct(g.names) => Unique(t)
  <2> DEFINE q == "after"
  <2>1. /\ q \in {"colon", "value"} => Ahead(g)
        /\ q \notin {"colon", "value", "failed"} => Even(g)
        /\ q \in {"name", "colon"} => g.kind = BeginObject
        /\ q = "first" => g.kind \in {BeginObject, BeginArray}
    BY <1>1
  <2> HIDE DEF q
  <2>2. LET t == Append(SubSeq(o, 1, Len(o) - 1), g) IN
        /\ StackOK(t, q) /\ Len(t) = Len(o)
        /\ Unique(o) /\ Distinct(g.names) => Unique(t)
    BY <1>1, <1>3, <2>1, TopOK
  <2> QED
    BY <2>2 DEF q
<1> QED
  BY <1>1, <1>2, <1>4 DEF g

\* Something else is due on the same frames.
LEMMA SameOK ==
    ASSUME NEW o, NEW p, StackOK(o, p), p # "failed", NEW q,
           q \in {"colon", "value"} => Ahead(o[Len(o)]),
           q \notin {"colon", "value", "failed"} => Even(o[Len(o)]),
           q \in {"name", "colon"} => o[Len(o)].kind = BeginObject,
           q = "first" => o[Len(o)].kind \in {BeginObject, BeginArray}
    PROVE  StackOK(o, q)
BY DEF StackOK

\* The name of a member.
LEMMA NameOK ==
    ASSUME NEW o, NEW p, StackOK(o, p), p \in {"first", "name"}, o[Len(o)].kind = BeginObject,
           NEW name
    PROVE  LET f == [o[Len(o)] EXCEPT !.names = Append(@, name)]
               t == Append(SubSeq(o, 1, Len(o) - 1), f)
           IN  /\ StackOK(t, "colon") /\ Len(t) = Len(o)
               /\ Unique(o) /\ (\A i \in DOMAIN o[Len(o)].names : o[Len(o)].names[i] # name)
                     => Unique(t)
<1> DEFINE top == o[Len(o)]
           f == [top EXCEPT !.names = Append(@, name)]
           q == "colon"
<1>1. Len(o) \in Nat /\ Len(o) >= 1
  BY SequenceLen DEF StackOK
<1>2. FrameOK(top) /\ Even(top) /\ top.kind = BeginObject
  BY <1>1 DEF StackOK
<1> HIDE DEF top
<1>3. f = [kind |-> top.kind, names |-> Append(top.names, name), items |-> top.items]
  BY <1>2 DEF FrameOK
<1>4. /\ Sequence(Append(top.names, name))
      /\ Len(Append(top.names, name)) = Len(top.names) + 1
      /\ \A i \in 1..Len(top.names) : Append(top.names, name)[i] = top.names[i]
      /\ Append(top.names, name)[Len(top.names) + 1] = name
  BY <1>2, Appended DEF FrameOK
<1> HIDE DEF f
<1>5. FrameOK(f) /\ Ahead(f) /\ f.kind = BeginObject
  BY <1>2, <1>3, <1>4 DEF FrameOK, Ahead, Even
<1>6. ASSUME Distinct(top.names), \A i \in DOMAIN top.names : top.names[i] # name
      PROVE  Distinct(f.names)
  <2>1. Len(top.names) \in Nat /\ DOMAIN top.names = 1..Len(top.names)
    BY <1>2, SequenceLen DEF FrameOK
  <2>2. DOMAIN f.names = 1..(Len(top.names) + 1)
    BY <1>3, <1>4, SequenceLen
  <2> QED
    BY <1>3, <1>4, <1>6, <2>1, <2>2 DEF Distinct
<1>7. /\ f.kind = o[Len(o)].kind
      /\ q \in {"colon", "value"} => Ahead(f)
      /\ q \notin {"colon", "value", "failed"} => Even(f)
      /\ q \in {"name", "colon"} => f.kind = BeginObject
      /\ q = "first" => f.kind \in {BeginObject, BeginArray}
  BY <1>2, <1>5 DEF top
<1>8. p # "failed"
  OBVIOUS
<1> HIDE DEF q
<1>9. LET t == Append(SubSeq(o, 1, Len(o) - 1), f) IN
      /\ StackOK(t, q) /\ Len(t) = Len(o)
      /\ Unique(o) /\ Distinct(f.names) => Unique(t)
  BY <1>5, <1>7, <1>8, TopOK
<1>10. Unique(o) => Distinct(top.names)
  BY <1>1 DEF Unique, top
<1> QED
  BY <1>6, <1>9, <1>10 DEF f, top, q

\* A container opens where a value is due.
LEMMA PushOK ==
    ASSUME NEW o, NEW p, StackOK(o, p), Due(o, p), NEW kind \in {BeginObject, BeginArray}
    PROVE  LET t == Append(o, Frame(kind)) IN
           /\ StackOK(t, "first") /\ Len(t) = Len(o) + 1
           /\ Unique(o) => Unique(t)
<1> DEFINE f == Frame(kind)
           t == Append(o, f)
<1>1. Len(o) \in Nat /\ Len(o) >= 1 /\ Sequence(o)
  BY SequenceLen DEF StackOK
<1>2. FrameOK(o[Len(o)]) /\ Ahead(o[Len(o)])
  BY DueIsAhead
<1>3. Sequence(<<>>) /\ Len(<<>>) = 0 /\ Distinct(<<>>)
  BY DEF Sequence, Distinct
<1>4. FrameOK(f) /\ Even(f) /\ f.kind = kind /\ f.names = <<>>
  BY <1>3 DEF Frame, FrameOK, Even
<1> HIDE DEF f
<1>5. /\ Sequence(t) /\ Len(t) = Len(o) + 1
      /\ \A i \in 1..Len(o) : t[i] = o[i]
      /\ t[Len(o) + 1] = f
  BY <1>1, Appended
<1> HIDE DEF t
<1>6. p # "failed"
  BY DEF Due
<1>7. StackOK(t, "first")
  <2>1. Len(t) >= 1 /\ t[1].kind = "text"
    BY <1>1, <1>5 DEF StackOK
  <2>2. \A k \in 1..Len(t) : FrameOK(t[k])
    BY <1>1, <1>4, <1>5 DEF StackOK
  <2>3. \A k \in 2..Len(t) : t[k].kind \in {BeginObject, BeginArray}
    BY <1>1, <1>4, <1>5 DEF StackOK
  <2>4. \A k \in 1..(Len(t) - 1) : Ahead(t[k])
    BY <1>1, <1>2, <1>5, <1>6 DEF StackOK
  <2>5. Even(t[Len(t)]) /\ t[Len(t)].kind \in {BeginObject, BeginArray}
    BY <1>4, <1>5
  <2> QED
    BY <1>5, <2>1, <2>2, <2>3, <2>4, <2>5 DEF StackOK
<1>8. Unique(o) => Unique(t)
  BY <1>1, <1>3, <1>4, <1>5 DEF Unique
<1> QED
  BY <1>5, <1>7, <1>8 DEF t, f

\* A prefix of a prefix.
LEMMA PrefixOfPrefix ==
    ASSUME NEW s, Sequence(s), Len(s) >= 2
    PROVE  SubSeq(SubSeq(s, 1, Len(s) - 1), 1, Len(s) - 2) = SubSeq(s, 1, Len(s) - 2)
<1> DEFINE R == {s[i] : i \in DOMAIN s}
           n == Len(s)
<1>1. s \in Seq(R) /\ n \in Nat /\ n >= 2
  BY SequenceLen DEF Sequence
<1> HIDE DEF R, n
<1>2. SubSeq(SubSeq(s, 1, n - 1), 1, n - 2) = SubSeq(s, 1, n - 2)
  BY <1>1, SMTT(30)
<1> QED
  BY <1>2 DEF n

\* A container closes: it is delivered to the call that made it.
LEMMA CloseOK ==
    ASSUME NEW o, NEW p, StackOK(o, p), p # "failed", Len(o) >= 2, NEW v
    PROVE  LET t == Append(SubSeq(o, 1, Len(o) - 2), Delivered(o[Len(o) - 1], v)) IN
           /\ StackOK(t, "after") /\ Len(t) = Len(o) - 1
           /\ Unique(o) => Unique(t)
<1> DEFINE n == Len(o) - 1
           b == SubSeq(o, 1, n)
           q == "value"
<1>1. Len(o) \in Nat /\ Sequence(o)
  BY SequenceLen DEF StackOK
<1>2. n \in 0..Len(o) /\ n >= 1
  BY <1>1
<1>3. /\ Sequence(b) /\ Len(b) = n
      /\ \A i \in 1..n : b[i] = o[i]
  BY <1>1, <1>2, Prefix
<1>4. SubSeq(b, 1, n - 1) = SubSeq(o, 1, Len(o) - 2)
  BY <1>1, PrefixOfPrefix
<1>5. n = Len(o) - 1
  OBVIOUS
<1> HIDE DEF b, n
<1>6. StackOK(b, q) /\ Due(b, q)
  BY <1>1, <1>2, <1>3, <1>5 DEF StackOK, Due
<1>7. Unique(o) => Unique(b)
  BY <1>1, <1>2, <1>3, <1>5 DEF Unique
<1> HIDE DEF q
<1>8. LET t == Append(SubSeq(b, 1, Len(b) - 1), Delivered(b[Len(b)], v)) IN
      /\ StackOK(t, "after") /\ Len(t) = Len(b)
      /\ Unique(b) => Unique(t)
  BY <1>6, ScalarOK
<1>9. Len(b) = n /\ b[Len(b)] = o[Len(o) - 1]
  BY <1>2, <1>3, <1>5
<1> QED
  BY <1>4, <1>5, <1>7, <1>8, <1>9

-----------------------------------------------------------------------------
(* What each action does, without the lexemes it looks at. *)

\* A lexeme has been read, and due comes next.
Moves(due) ==
    /\ pos \in 1..Len(text)
    /\ pos' = pos + 1 /\ pc' = due /\ path' = path /\ text' = text

\* Where a lexeme other than the end is, the input goes on.
LEMMA InText ==
    ASSUME Len(text) \in Nat, pos \in 1..(Len(text) + 1), Lexeme # "end", NEW due, Bump(due)
    PROVE  Moves(due)
<1>1. pos <= Len(text)
  BY Zenon DEF Lexeme
<1> QED
  BY <1>1 DEF Moves, Bump

\* The end of the input is punctuation, and no value or name.
LEMMA EndIsNoKind == Lexeme = "end" => Kind \notin Kinds
<1>1. Lexeme = "end" => Kind = "end"
  BY Zenon DEF Kind, Punctuation
<1>2. "end" \notin Kinds
  BY DEF Kinds
<1> QED
  BY <1>1, <1>2

\* White space moves the position and nothing else.
LEMMA SkipWsMoves == SkipWs => ~Ended /\ Lexeme # "end" /\ Bump(pc) /\ open' = open
BY Zenon DEF SkipWs

\* A scalar is delivered to the container around it.
LEMMA ScalarMoves ==
    Scalar => /\ Due(open, pc) /\ Lexeme # "end" /\ Bump("after")
              /\ \E v : open' = Append(SubSeq(open, 1, Len(open) - 1), Delivered(open[Len(open)], v))
BY EndIsNoKind, Zenon DEF Scalar, ValueDue, Due, Top, WithTop, Below

\* An opening lexeme adds a frame, within the limit.
LEMMA OpenMoves ==
    OpenContainer => /\ Due(open, pc) /\ Lexeme # "end" /\ Bump("first")
                     /\ Lexeme \in {BeginObject, BeginArray}
                     /\ open' = Append(open, Frame(Lexeme))
                     /\ ~TooDeep
<1>1. BeginObject # "end" /\ BeginArray # "end"
  BY Zenon DEF BeginObject, BeginArray
<1> QED
  BY <1>1, Zenon DEF OpenContainer, ValueDue, Due, Top

\* A name is added to its object, if the object has no other of that name.
LEMMA NameMoves ==
    Name => /\ NameDue /\ Lexeme # "end" /\ Bump("colon")
            /\ \E name : /\ open' = WithTop([Top EXCEPT !.names = Append(@, name)])
                         /\ ~Repeated(name)
<1>1. "string" \in Kinds
  BY DEF Kinds
<1> QED
  BY <1>1, EndIsNoKind, Zenon DEF Name

\* A comma moves on.
LEMMA CommaMoves ==
    Comma => /\ pc = "after" /\ Lexeme # "end" /\ open' = open
             /\ Bump(IF Top.kind = BeginObject THEN "name" ELSE "value")
BY Zenon DEF Comma

\* A colon moves on, anything else fails.
LEMMA ColonMoves ==
    Colon => /\ pc = "colon"
             /\ \/ Lexeme # "end" /\ Bump("value") /\ open' = open
                \/ Fail
BY Zenon DEF Colon

\* A closing lexeme delivers the top frame to the one below.
LEMMA CloseMoves ==
    CloseContainer => /\ pc \in {"first", "after"} /\ Depth > 0 /\ Bump("after")
                      /\ Lexeme = Ending(Top.kind)
                      /\ open' = Append(SubSeq(open, 1, Len(open) - 2),
                                        Delivered(open[Len(open) - 1], Top))
BY DEF CloseContainer

\* A container is not ended by the end of the input.
LEMMA EndingIsNoEnd ==
    ASSUME NEW kind \in {BeginObject, BeginArray} PROVE Ending(kind) # "end"
<1>1. CASE kind = BeginObject
  BY <1>1, Zenon DEF Ending
<1>2. CASE kind = BeginArray
  BY <1>2, TokenKinds, Zenon DEF Ending
<1> QED
  BY <1>1, <1>2

\* The actions that stop.
LEMMA Stops ==
    /\ NoValue => Fail /\ ~Ended
    /\ NoName => Fail /\ ~Ended
    /\ NoComma => Fail /\ ~Ended
    /\ EndOfText => /\ pc = "after"
                    /\ Fail \/ (pc' = "parsed" /\ UNCHANGED <<path, text, pos, open>>)
<1>1. NoValue => Fail /\ ~Ended
  BY Zenon DEF NoValue, ValueDue, Ended
<1>2. NoName => Fail /\ ~Ended
  BY Zenon DEF NoName, NameDue, Ended
<1>3. NoComma => Fail /\ ~Ended
  BY Zenon DEF NoComma, Ended
<1>4. EndOfText => /\ pc = "after"
                   /\ Fail \/ (pc' = "parsed" /\ UNCHANGED <<path, text, pos, open>>)
  BY Zenon DEF EndOfText
<1> QED
  BY <1>1, <1>2, <1>3, <1>4

-----------------------------------------------------------------------------
(* The inductive invariant. *)

Dues == {"value", "first", "name", "colon", "after", "parsed", "failed"}

IInv ==
    /\ path \in Paths
    /\ Len(text) \in Nat
    /\ pos \in 1..(Len(text) + 1)
    /\ pc \in Dues
    /\ StackOK(open, pc)
    /\ DepthIsBounded
    /\ path # "serde" => Unique(open)

\* The parser starts with the frame of the text.
LEMMA FreshOK ==
    LET o == <<Frame("text")>> IN
    StackOK(o, "value") /\ Unique(o) /\ Len(o) = 1 /\ o[1] = Frame("text")
<1> DEFINE f == Frame("text")
           o == <<f>>
<1>1. Sequence(<<>>) /\ Len(<<>>) = 0 /\ Distinct(<<>>)
  BY DEF Sequence, Distinct
<1>2. FrameOK(f) /\ Ahead(f) /\ f.kind = "text" /\ f.names = <<>>
  <2>1. "text" # BeginObject
    BY TokenKinds
  <2> QED
    BY <1>1, <2>1 DEF FrameOK, Frame, Ahead
<1> HIDE DEF f
<1>3. Sequence(o) /\ Len(o) = 1 /\ o[1] = f
  BY DEF Sequence
<1> HIDE DEF o
<1>4. StackOK(o, "value")
  BY <1>2, <1>3 DEF StackOK
<1>5. Unique(o)
  BY <1>1, <1>2, <1>3 DEF Unique
<1> QED
  BY <1>3, <1>4, <1>5 DEF f, o

LEMMA InvInit == Init => IInv
<1> SUFFICES ASSUME Init PROVE IInv
  OBVIOUS
<1>1. path \in Paths /\ Len(text) \in Nat /\ pos = 1 /\ pc = "value" /\ open = <<Frame("text")>>
  BY PathsAssumption, TextsAssumption DEF Init
<1>2. StackOK(open, pc) /\ Unique(open) /\ Len(open) = 1
  BY <1>1, FreshOK
<1>3. Depth = 0 /\ Limit[path] \in Nat
  BY <1>1, <1>2, LimitAssumption DEF Depth
<1> QED
  BY <1>1, <1>2, <1>3 DEF IInv, Dues, DepthIsBounded

\* A step that moves on and keeps the number of calls, or makes it less.
LEMMA MovesOK ==
    ASSUME IInv, NEW due \in Dues, Moves(due), StackOK(open', due), Len(open') <= Len(open),
           path # "serde" => Unique(open')
    PROVE  IInv'
<1>1. Len(open) \in Nat /\ Len(open') \in Nat
  BY SequenceLen DEF IInv, StackOK
<1>2. Limit[path] \in Nat
  BY LimitAssumption DEF IInv
<1>3. DepthIsBounded'
  BY <1>1, <1>2 DEF IInv, DepthIsBounded, Depth, Moves
<1> QED
  BY <1>3 DEF IInv, Moves

\* A step that stops.
LEMMA FailOK ==
    ASSUME IInv, ~Ended, Fail
    PROVE  IInv'
<1>1. StackOK(open, "failed")
  BY SameOK DEF IInv, Ended
<1> QED
  BY <1>1 DEF IInv, Fail, DepthIsBounded, Depth, Dues

\* Each action keeps the invariant.
LEMMA InvNext == IInv /\ [Next]_vars => IInv'
<1> SUFFICES ASSUME IInv, [Next]_vars PROVE IInv'
  OBVIOUS
<1>1. /\ Len(text) \in Nat /\ pos \in 1..(Len(text) + 1)
      /\ pc \in Dues /\ StackOK(open, pc)
      /\ Len(open) \in Nat /\ Len(open) >= 1
  BY SequenceLen DEF IInv, StackOK
<1>2. path # "serde" => Unique(open)
  BY DEF IInv
<1>3. CASE SkipWs
  <2>1. Moves(pc) /\ open' = open
    BY <1>1, <1>3, SkipWsMoves, InText
  <2> QED
    BY <1>1, <1>2, <2>1, MovesOK
<1>4. CASE Scalar
  <2>1. PICK v : open' = Append(SubSeq(open, 1, Len(open) - 1), Delivered(open[Len(open)], v))
    BY <1>4, ScalarMoves
  <2>2. Moves("after") /\ Due(open, pc)
    BY <1>1, <1>4, ScalarMoves, InText
  <2>3. StackOK(open', "after") /\ Len(open') = Len(open) /\ (Unique(open) => Unique(open'))
    BY <1>1, <2>1, <2>2, ScalarOK
  <2> QED
    BY <1>1, <1>2, <2>2, <2>3, MovesOK DEF Dues
<1>5. CASE OpenContainer
  <2>1. /\ Moves("first") /\ Due(open, pc) /\ Lexeme \in {BeginObject, BeginArray}
        /\ open' = Append(open, Frame(Lexeme))
    BY <1>1, <1>5, OpenMoves, InText
  <2>2. StackOK(open', "first") /\ Len(open') = Len(open) + 1 /\ (Unique(open) => Unique(open'))
    BY <1>1, <2>1, PushOK
  <2>3. Limit[path] \in Nat /\ Depth < Limit[path]
    <3>1. Limit[path] \in Nat /\ ~TooDeep
      BY <1>5, OpenMoves, LimitAssumption DEF IInv
    <3> QED
      BY <1>1, <3>1 DEF TooDeep, Depth
  <2>4. DepthIsBounded'
    BY <1>1, <2>1, <2>2, <2>3 DEF DepthIsBounded, Depth, Moves
  <2> QED
    BY <1>1, <1>2, <2>1, <2>2, <2>4 DEF IInv, Moves, Dues
<1>6. CASE NoValue
  BY <1>6, Stops, FailOK
<1>7. CASE Name
  <2>1. PICK name : open' = WithTop([Top EXCEPT !.names = Append(@, name)]) /\ ~Repeated(name)
    BY <1>7, NameMoves
  <2>2. Moves("colon") /\ NameDue
    BY <1>1, <1>7, NameMoves, InText
  <2>3. pc \in {"first", "name"} /\ open[Len(open)].kind = BeginObject
    BY <1>1, <2>2 DEF NameDue, Top, StackOK
  <2>4. path # "serde" => \A i \in DOMAIN open[Len(open)].names : open[Len(open)].names[i] # name
    BY <2>1 DEF Repeated, Top
  <2>5. open' = Append(SubSeq(open, 1, Len(open) - 1),
                       [open[Len(open)] EXCEPT !.names = Append(@, name)])
    BY <2>1 DEF WithTop, Below, Top
  <2>6. /\ StackOK(open', "colon") /\ Len(open') = Len(open)
        /\ Unique(open) /\ (\A i \in DOMAIN open[Len(open)].names : open[Len(open)].names[i] # name)
              => Unique(open')
    BY <1>1, <2>3, <2>5, NameOK
  <2> QED
    BY <1>1, <1>2, <2>2, <2>4, <2>6, MovesOK DEF Dues
<1>8. CASE NoName
  BY <1>8, Stops, FailOK
<1>9. CASE Colon
  <2>1. CASE Fail
    BY <1>9, <2>1, ColonMoves, FailOK DEF Ended
  <2>2. CASE Lexeme # "end" /\ Bump("value") /\ open' = open
    <3>1. Moves("value") /\ pc = "colon" /\ open' = open
      BY <1>1, <1>9, <2>2, ColonMoves, InText
    <3>2. StackOK(open, "value")
      BY <1>1, <3>1 DEF StackOK
    <3> QED
      BY <1>1, <1>2, <3>1, <3>2, MovesOK DEF Dues
  <2> QED
    BY <1>9, <2>1, <2>2, ColonMoves
<1>10. CASE Comma
  <2> DEFINE due == IF Top.kind = BeginObject THEN "name" ELSE "value"
  <2>1. Moves(due) /\ pc = "after" /\ open' = open
    BY <1>1, <1>10, CommaMoves, InText
  <2>2. StackOK(open, due)
    BY <1>1, <2>1 DEF StackOK, Top, Ahead
  <2>3. due \in Dues
    BY DEF Dues
  <2> HIDE DEF due
  <2> QED
    BY <1>1, <1>2, <2>1, <2>2, <2>3, MovesOK
<1>11. CASE CloseContainer
  <2>1. /\ pc \in {"first", "after"} /\ Len(open) >= 2 /\ Bump("after")
        /\ Lexeme = Ending(open[Len(open)].kind)
        /\ open' = Append(SubSeq(open, 1, Len(open) - 2),
                          Delivered(open[Len(open) - 1], Top))
    BY <1>1, <1>11, CloseMoves DEF Depth, Top
  <2>2. Lexeme # "end"
    <3>1. open[Len(open)].kind \in {BeginObject, BeginArray}
      BY <1>1, <2>1 DEF StackOK
    <3> QED
      BY <2>1, <3>1, EndingIsNoEnd
  <2>3. Moves("after")
    BY <1>1, <2>1, <2>2, InText
  <2>4. StackOK(open', "after") /\ Len(open') = Len(open) - 1 /\ (Unique(open) => Unique(open'))
    BY <1>1, <2>1, CloseOK
  <2> QED
    BY <1>1, <1>2, <2>3, <2>4, MovesOK DEF Dues
<1>12. CASE EndOfText
  <2>1. CASE Fail
    BY <1>12, <2>1, Stops, FailOK DEF Ended
  <2>2. CASE pc' = "parsed" /\ UNCHANGED <<path, text, pos, open>>
    <3>1. pc = "after"
      BY <1>12, Stops
    <3>2. StackOK(open, "parsed")
      BY <1>1, <3>1 DEF StackOK
    <3> QED
      BY <2>2, <3>2 DEF IInv, DepthIsBounded, Depth, Dues
  <2> QED
    BY <1>12, <2>1, <2>2, Stops
<1>13. CASE NoComma
  BY <1>13, Stops, FailOK
<1>14. CASE UNCHANGED vars
  BY <1>14 DEF vars, IInv, DepthIsBounded, Depth
<1> QED
  BY <1>3, <1>4, <1>5, <1>6, <1>7, <1>8, <1>9, <1>10, <1>11, <1>12, <1>13, <1>14 DEF Next

\* So the parser by itself always keeps the invariant.
LEMMA InvHolds == Spec => []IInv
BY InvInit, InvNext, PTL DEF Spec

-----------------------------------------------------------------------------
(* Values. *)

\* A function on 0..m+1 that continues f.
Extends(g, f, m, last) ==
    /\ g = [n \in 0..m+1 |-> g[n]]
    /\ g[m + 1] = last /\ g[m] = f[m]
    /\ \A n \in 0..m : g[n] = f[n] /\ (n # 0 => g[n - 1] = f[n - 1])

LEMMA Longer ==
    ASSUME NEW f, NEW m \in Nat, NEW last
    PROVE  \E g : Extends(g, f, m, last)
<1> DEFINE g == [n \in 0..m+1 |-> IF n = m + 1 THEN last ELSE f[n]]
<1>1. \A n \in 0..m+1 : g[n] = IF n = m + 1 THEN last ELSE f[n]
  OBVIOUS
<1>2. g = [n \in 0..m+1 |-> g[n]]
  OBVIOUS
<1> HIDE DEF g
<1>3. g[m + 1] = last
  BY <1>1
<1>4. ASSUME NEW n \in 0..m PROVE g[n] = f[n] /\ (n # 0 => g[n - 1] = f[n - 1])
  BY <1>1
<1>5. g[m] = f[m]
  BY <1>4
<1>6. Extends(g, f, m, last)
  BY <1>2, <1>3, <1>4, <1>5 DEF Extends
<1> QED
  BY <1>6

\* The levels of Value, which are defined by recursion, by induction on their number.
LEMMA ValueIs ==
    \A n \in 0..Height :
        Value[n] = IF n = 0 THEN Leaves ELSE Leaves \cup Containers(Value[n - 1])
<1> DEFINE Step(x, n) ==
               IF n = 0 THEN Leaves ELSE Leaves \cup Containers(x)
           Is(f, m) == f = [n \in 0..m |-> Step(f[n - 1], n)]
           T == {m \in Nat : \E f : Is(f, m)}
<1>1. \A x, y : Step(x, 0) = Step(y, 0)
  OBVIOUS
<1> HIDE DEF Step
<1>2. 0 \in T
  <2> DEFINE f == [n \in 0..0 |-> Step(0, 0)]
  <2>1. \A n \in 0..0 : n = 0 /\ Step(f[n - 1], 0) = Step(0, 0)
    BY <1>1
  <2>2. f = [n \in 0..0 |-> Step(f[n - 1], n)]
    BY <2>1
  <2> QED
    BY <2>2
<1>3. ASSUME NEW m \in Nat, m \in T PROVE m + 1 \in T
  <2>1. PICK f : Is(f, m)
    BY <1>3
  <2>2. PICK g : Extends(g, f, m, Step(f[m], m + 1))
    BY Longer
  <2>3. ASSUME NEW n \in 0..m+1 PROVE g[n] = Step(g[n - 1], n)
    <3>1. CASE n = m + 1
      <4>1. n - 1 = m
        BY <3>1
      <4> QED
        BY <2>2, <3>1, <4>1 DEF Extends
    <3>2. CASE n # m + 1
      <4>1. n \in 0..m
        BY <3>2
      <4>2. f[n] = Step(f[n - 1], n) /\ g[n] = f[n] /\ (n # 0 => g[n - 1] = f[n - 1])
        BY <2>1, <2>2, <4>1 DEF Extends
      <4>3. n = 0 => Step(g[n - 1], n) = Step(f[n - 1], n)
        BY <1>1
      <4> QED
        BY <4>2, <4>3
    <3> QED
      BY <3>1, <3>2
  <2>4. g = [n \in 0..m+1 |-> Step(g[n - 1], n)]
    BY <2>2, <2>3 DEF Extends
  <2> HIDE DEF Is
  <2>5. Is(g, m + 1)
    BY <2>4 DEF Is
  <2> QED
    BY <2>5
<1> HIDE DEF T
<1>4. Nat \subseteq T
  BY <1>2, <1>3, NatInduct
<1>5. \E f : Is(f, Height)
  <2> HIDE DEF Is
  <2> QED
    BY <1>4, DepthAssumption DEF T
<1>6. Is(Value, Height)
  <2>1. Value = CHOOSE f : Is(f, Height)
    BY DEF Value, Step
  <2> HIDE DEF Is
  <2> QED
    BY <1>5, <2>1
<1>7. \A n \in 0..Height : Value[n] = Step(Value[n - 1], n)
  BY <1>6
<1> QED
  BY <1>7 DEF Step

\* A leaf is no container, and there is nothing else at the bottom.
LEMMA LeafIs == \A v \in Leaves : ~IsContainer(v) /\ v.is \in Lexemes /\ v.kind \in Kinds
<1> SUFFICES ASSUME NEW v \in Leaves PROVE ~IsContainer(v) /\ v.is \in Lexemes /\ v.kind \in Kinds
  OBVIOUS
<1>1. v.is \in Lexemes
  BY ReadAssumption
<1>2. v.kind \in Kinds
  <2>1. CASE \E r \in Readings : v = Leaf(r)
    BY <2>1 DEF Readings, Leaf
  <2>2. CASE \E x \in NonFinite : v = [kind |-> "number", is |-> x]
    BY <2>2 DEF Kinds
  <2> QED
    BY <2>1, <2>2 DEF Leaves
<1> QED
  BY <1>1, <1>2 DEF Kinds, IsContainer, BeginObject, BeginArray

LEMMA LevelZero == \A v \in Value[0] : ~IsContainer(v)
<1>1. 0 \in 0..Height
  BY DepthAssumption
<1>2. Value[0] = Leaves
  BY <1>1, ValueIs
<1> QED
  BY <1>2, LeafIs

\* The levels of Within.
LEMMA WithinIs ==
    ASSUME NEW Q
    PROVE  \A n \in 0..Height :
               Within(Q, n) =
                   {v \in Value[Height] :
                       IF IsContainer(v)
                       THEN /\ n > 0 /\ v \in Q
                            /\ \A i \in DOMAIN v.items : v.items[i] \in Within(Q, n - 1)
                       ELSE IsFinite(v)}
<1> DEFINE Step(x, n) ==
               {v \in Value[Height] :
                   IF IsContainer(v)
                   THEN n > 0 /\ v \in Q /\ \A i \in DOMAIN v.items : v.items[i] \in x
                   ELSE IsFinite(v)}
           Is(f, m) == f = [n \in 0..m |-> Step(f[n - 1], n)]
           T == {m \in Nat : \E f : Is(f, m)}
<1>1. \A x, y : Step(x, 0) = Step(y, 0)
  OBVIOUS
<1> HIDE DEF Step
<1>2. 0 \in T
  <2> DEFINE f == [n \in 0..0 |-> Step(0, 0)]
  <2>1. \A n \in 0..0 : n = 0 /\ Step(f[n - 1], 0) = Step(0, 0)
    BY <1>1
  <2>2. f = [n \in 0..0 |-> Step(f[n - 1], n)]
    BY <2>1
  <2> QED
    BY <2>2
<1>3. ASSUME NEW m \in Nat, m \in T PROVE m + 1 \in T
  <2>1. PICK f : Is(f, m)
    BY <1>3
  <2>2. PICK g : Extends(g, f, m, Step(f[m], m + 1))
    BY Longer
  <2>3. ASSUME NEW n \in 0..m+1 PROVE g[n] = Step(g[n - 1], n)
    <3>1. CASE n = m + 1
      <4>1. n - 1 = m
        BY <3>1
      <4> QED
        BY <2>2, <3>1, <4>1 DEF Extends
    <3>2. CASE n # m + 1
      <4>1. n \in 0..m
        BY <3>2
      <4>2. f[n] = Step(f[n - 1], n) /\ g[n] = f[n] /\ (n # 0 => g[n - 1] = f[n - 1])
        BY <2>1, <2>2, <4>1 DEF Extends
      <4>3. n = 0 => Step(g[n - 1], n) = Step(f[n - 1], n)
        BY <1>1
      <4> QED
        BY <4>2, <4>3
    <3> QED
      BY <3>1, <3>2
  <2>4. g = [n \in 0..m+1 |-> Step(g[n - 1], n)]
    BY <2>2, <2>3 DEF Extends
  <2> HIDE DEF Is
  <2>5. Is(g, m + 1)
    BY <2>4 DEF Is
  <2> QED
    BY <2>5
<1> HIDE DEF T
<1>4. Nat \subseteq T
  BY <1>2, <1>3, NatInduct
<1>5. \E f : Is(f, Height)
  <2> HIDE DEF Is
  <2> QED
    BY <1>4, DepthAssumption DEF T
<1> DEFINE w == CHOOSE f : Is(f, Height)
<1>6. Is(w, Height)
  <2> HIDE DEF Is
  <2> QED
    BY <1>5
<1>7. \A n : Within(Q, n) = w[n]
  BY DEF Within, Step
<1> HIDE DEF w
<1>8. \A n \in 0..Height : w[n] = Step(w[n - 1], n)
  BY <1>6
<1>9. \A n \in 0..Height : Within(Q, n) = Step(Within(Q, n - 1), n)
  BY <1>7, <1>8
<1> QED
  BY <1>9 DEF Step

\* The levels of Write.
LEMMA WriteIs ==
    \A n \in 0..MaxDepth : Write[n] =
        [v \in Value[Height] |->
           IF ~Writable(v, n) THEN Bad
           ELSE IF ~IsContainer(v) THEN <<v.is>>
           ELSE LET items == [i \in DOMAIN v.items |-> Write[n - 1][v.items[i]]]
                IN  IF \E i \in DOMAIN items : items[i] = Bad THEN Bad
                    ELSE Bracketed(v, items,
                                   IF v.kind = BeginObject THEN Sorted(v) ELSE InOrder(v))]
<1> DEFINE Step(x, n) ==
                [v \in Value[Height] |->
                   IF ~Writable(v, n) THEN Bad
                   ELSE IF ~IsContainer(v) THEN <<v.is>>
                   ELSE LET items == [i \in DOMAIN v.items |-> x[v.items[i]]]
                        IN  IF \E i \in DOMAIN items : items[i] = Bad THEN Bad
                            ELSE Bracketed(v, items,
                                           IF v.kind = BeginObject THEN Sorted(v) ELSE InOrder(v))]
           Is(f, m) == f = [n \in 0..m |-> Step(f[n - 1], n)]
           T == {m \in Nat : \E f : Is(f, m)}
<1>1. \A x, y : Step(x, 0) = Step(y, 0)
  BY DEF Writable
<1> HIDE DEF Step
<1>2. 0 \in T
  <2> DEFINE f == [n \in 0..0 |-> Step(0, 0)]
  <2>1. \A n \in 0..0 : n = 0 /\ Step(f[n - 1], 0) = Step(0, 0)
    BY <1>1
  <2>2. f = [n \in 0..0 |-> Step(f[n - 1], n)]
    BY <2>1
  <2> QED
    BY <2>2
<1>3. ASSUME NEW m \in Nat, m \in T PROVE m + 1 \in T
  <2>1. PICK f : Is(f, m)
    BY <1>3
  <2>2. PICK g : Extends(g, f, m, Step(f[m], m + 1))
    BY Longer
  <2>3. ASSUME NEW n \in 0..m+1 PROVE g[n] = Step(g[n - 1], n)
    <3>1. CASE n = m + 1
      <4>1. n - 1 = m
        BY <3>1
      <4> QED
        BY <2>2, <3>1, <4>1 DEF Extends
    <3>2. CASE n # m + 1
      <4>1. n \in 0..m
        BY <3>2
      <4>2. f[n] = Step(f[n - 1], n) /\ g[n] = f[n] /\ (n # 0 => g[n - 1] = f[n - 1])
        BY <2>1, <2>2, <4>1 DEF Extends
      <4>3. n = 0 => Step(g[n - 1], n) = Step(f[n - 1], n)
        BY <1>1
      <4> QED
        BY <4>2, <4>3
    <3> QED
      BY <3>1, <3>2
  <2>4. g = [n \in 0..m+1 |-> Step(g[n - 1], n)]
    BY <2>2, <2>3 DEF Extends
  <2> HIDE DEF Is
  <2>5. Is(g, m + 1)
    BY <2>4 DEF Is
  <2> QED
    BY <2>5
<1> HIDE DEF T
<1>4. Nat \subseteq T
  BY <1>2, <1>3, NatInduct
<1>5. \E f : Is(f, MaxDepth)
  <2> HIDE DEF Is
  <2> QED
    BY <1>4, DepthAssumption DEF T
<1>6. Is(Write, MaxDepth)
  <2>1. Write = CHOOSE f : Is(f, MaxDepth)
    BY DEF Write, Step
  <2> HIDE DEF Is
  <2> QED
    BY <1>5, <2>1
<1>7. \A n \in 0..MaxDepth : Write[n] = Step(Write[n - 1], n)
  BY <1>6
<1> QED
  BY <1>7 DEF Step

\* The levels of Laid.
LEMMA LaidIs ==
    \A n \in 0..Height : Laid[n] =
        [v \in Value[n] |->
           IF ~IsContainer(v) THEN <<v.is>>
           ELSE Bracketed(v, [i \in DOMAIN v.items |-> Laid[n - 1][v.items[i]]], InOrder(v))]
<1> DEFINE Step(x, n) ==
                [v \in Value[n] |->
                   IF ~IsContainer(v) THEN <<v.is>>
                   ELSE Bracketed(v, [i \in DOMAIN v.items |-> x[v.items[i]]], InOrder(v))]
           Is(f, m) == f = [n \in 0..m |-> Step(f[n - 1], n)]
           T == {m \in Nat : \E f : Is(f, m)}
<1>1. \A x, y : Step(x, 0) = Step(y, 0)
  <2>1. \A v \in Value[0] : ~IsContainer(v)
    BY LevelZero
  <2> QED
    BY <2>1
<1> HIDE DEF Step
<1>2. 0 \in T
  <2> DEFINE f == [n \in 0..0 |-> Step(0, 0)]
  <2>1. \A n \in 0..0 : n = 0 /\ Step(f[n - 1], 0) = Step(0, 0)
    BY <1>1
  <2>2. f = [n \in 0..0 |-> Step(f[n - 1], n)]
    BY <2>1
  <2> QED
    BY <2>2
<1>3. ASSUME NEW m \in Nat, m \in T PROVE m + 1 \in T
  <2>1. PICK f : Is(f, m)
    BY <1>3
  <2>2. PICK g : Extends(g, f, m, Step(f[m], m + 1))
    BY Longer
  <2>3. ASSUME NEW n \in 0..m+1 PROVE g[n] = Step(g[n - 1], n)
    <3>1. CASE n = m + 1
      <4>1. n - 1 = m
        BY <3>1
      <4> QED
        BY <2>2, <3>1, <4>1 DEF Extends
    <3>2. CASE n # m + 1
      <4>1. n \in 0..m
        BY <3>2
      <4>2. f[n] = Step(f[n - 1], n) /\ g[n] = f[n] /\ (n # 0 => g[n - 1] = f[n - 1])
        BY <2>1, <2>2, <4>1 DEF Extends
      <4>3. n = 0 => Step(g[n - 1], n) = Step(f[n - 1], n)
        BY <1>1
      <4> QED
        BY <4>2, <4>3
    <3> QED
      BY <3>1, <3>2
  <2>4. g = [n \in 0..m+1 |-> Step(g[n - 1], n)]
    BY <2>2, <2>3 DEF Extends
  <2> HIDE DEF Is
  <2>5. Is(g, m + 1)
    BY <2>4 DEF Is
  <2> QED
    BY <2>5
<1> HIDE DEF T
<1>4. Nat \subseteq T
  BY <1>2, <1>3, NatInduct
<1>5. \E f : Is(f, Height)
  <2> HIDE DEF Is
  <2> QED
    BY <1>4, DepthAssumption DEF T
<1>6. Is(Laid, Height)
  <2>1. Laid = CHOOSE f : Is(f, Height)
    BY DEF Laid, Step
  <2> HIDE DEF Is
  <2> QED
    BY <1>5, <2>1
<1>7. \A n \in 0..Height : Laid[n] = Step(Laid[n - 1], n)
  BY <1>6
<1> QED
  BY <1>7 DEF Step

\* The levels of Orders.
LEMMA OrdersIs ==
    \A n \in 0..Height : Orders[n] =
        [v \in Value[n] |->
           IF ~IsContainer(v) THEN {v}
           ELSE Rearranged(v, [i \in DOMAIN v.items |-> Orders[n - 1][v.items[i]]])]
<1> DEFINE Step(x, n) ==
                [v \in Value[n] |->
                   IF ~IsContainer(v) THEN {v}
                   ELSE Rearranged(v, [i \in DOMAIN v.items |-> x[v.items[i]]])]
           Is(f, m) == f = [n \in 0..m |-> Step(f[n - 1], n)]
           T == {m \in Nat : \E f : Is(f, m)}
<1>1. \A x, y : Step(x, 0) = Step(y, 0)
  <2>1. \A v \in Value[0] : ~IsContainer(v)
    BY LevelZero
  <2> QED
    BY <2>1
<1> HIDE DEF Step
<1>2. 0 \in T
  <2> DEFINE f == [n \in 0..0 |-> Step(0, 0)]
  <2>1. \A n \in 0..0 : n = 0 /\ Step(f[n - 1], 0) = Step(0, 0)
    BY <1>1
  <2>2. f = [n \in 0..0 |-> Step(f[n - 1], n)]
    BY <2>1
  <2> QED
    BY <2>2
<1>3. ASSUME NEW m \in Nat, m \in T PROVE m + 1 \in T
  <2>1. PICK f : Is(f, m)
    BY <1>3
  <2>2. PICK g : Extends(g, f, m, Step(f[m], m + 1))
    BY Longer
  <2>3. ASSUME NEW n \in 0..m+1 PROVE g[n] = Step(g[n - 1], n)
    <3>1. CASE n = m + 1
      <4>1. n - 1 = m
        BY <3>1
      <4> QED
        BY <2>2, <3>1, <4>1 DEF Extends
    <3>2. CASE n # m + 1
      <4>1. n \in 0..m
        BY <3>2
      <4>2. f[n] = Step(f[n - 1], n) /\ g[n] = f[n] /\ (n # 0 => g[n - 1] = f[n - 1])
        BY <2>1, <2>2, <4>1 DEF Extends
      <4>3. n = 0 => Step(g[n - 1], n) = Step(f[n - 1], n)
        BY <1>1
      <4> QED
        BY <4>2, <4>3
    <3> QED
      BY <3>1, <3>2
  <2>4. g = [n \in 0..m+1 |-> Step(g[n - 1], n)]
    BY <2>2, <2>3 DEF Extends
  <2> HIDE DEF Is
  <2>5. Is(g, m + 1)
    BY <2>4 DEF Is
  <2> QED
    BY <2>5
<1> HIDE DEF T
<1>4. Nat \subseteq T
  BY <1>2, <1>3, NatInduct
<1>5. \E f : Is(f, Height)
  <2> HIDE DEF Is
  <2> QED
    BY <1>4, DepthAssumption DEF T
<1>6. Is(Orders, Height)
  <2>1. Orders = CHOOSE f : Is(f, Height)
    BY DEF Orders, Step
  <2> HIDE DEF Is
  <2> QED
    BY <1>5, <2>1
<1>7. \A n \in 0..Height : Orders[n] = Step(Orders[n - 1], n)
  BY <1>6
<1> QED
  BY <1>7 DEF Step

-----------------------------------------------------------------------------
(* Sorting. *)

\* A bijection of a set with itself.
LEMMA BijectionIs ==
    ASSUME NEW S, NEW f
    PROVE  f \in Bijection(S, S) <=>
               /\ f \in [S -> S]
               /\ \A a, b \in S : f[a] = f[b] => a = b
               /\ \A a \in S : \E b \in S : f[b] = a
<1>1. ASSUME f \in Bijection(S, S)
      PROVE  /\ f \in [S -> S]
             /\ \A a, b \in S : f[a] = f[b] => a = b
             /\ \A a \in S : \E b \in S : f[b] = a
  BY <1>1, Fun_BijectionProperties
<1>2. ASSUME f \in [S -> S], \A a, b \in S : f[a] = f[b] => a = b,
             \A a \in S : \E b \in S : f[b] = a
      PROVE  f \in Bijection(S, S)
  BY <1>2, Fun_IsBij
<1> QED
  BY <1>1, <1>2, Zenon

\* Numbers that R puts in some order can be sorted by it.
LEMMA SortedExists ==
    ASSUME NEW n \in Nat, NEW R,
           \A i, j \in 1..n : <<i, j>> \in R \/ <<j, i>> \in R,
           \A i, j, k \in 1..n : <<i, j>> \in R /\ <<j, k>> \in R => <<i, k>> \in R
    PROVE  \E s \in Bijection(1..n, 1..n) :
               \A i, j \in 1..n : i < j => <<s[i], s[j]>> \in R
<1> DEFINE S == 1..n
           Less(i, j) == <<i, j>> \in R /\ (<<j, i>> \in R => i < j)
           Under(j) == {i \in S : Less(i, j)}
           rank == [j \in S |-> Cardinality(Under(j)) + 1]
<1>1. IsFiniteSet(S) /\ Cardinality(S) = n
  <2>1. 1 \in Int /\ n \in Int
    OBVIOUS
  <2>2. IsFiniteSet(1..n) /\ Cardinality(1..n) = IF 1 > n THEN 0 ELSE n - 1 + 1
    BY <2>1, FS_Interval
  <2> QED
    BY <2>2
<1>2. /\ \A i \in S : ~Less(i, i)
      /\ \A i, j \in S : i # j => Less(i, j) \/ Less(j, i)
      /\ \A i, j, k \in S : Less(i, j) /\ Less(j, k) => Less(i, k)
      /\ \A i, j \in S : Less(i, j) => <<i, j>> \in R
  OBVIOUS
<1>3. \A i, j : i \in Under(j) <=> i \in S /\ Less(i, j)
  OBVIOUS
<1> HIDE DEF Less, Under
<1>4. ASSUME NEW j \in S
      PROVE  IsFiniteSet(Under(j)) /\ Cardinality(Under(j)) \in Nat /\ Cardinality(Under(j)) < n
  <2>1. Under(j) \in SUBSET S /\ Under(j) # S
    BY <1>2, <1>3
  <2>2. /\ IsFiniteSet(Under(j)) /\ Cardinality(Under(j)) <= Cardinality(S)
        /\ Cardinality(S) = Cardinality(Under(j)) => S = Under(j)
    BY <1>1, <2>1, FS_Subset, Zenon
  <2>3. Cardinality(Under(j)) \in Nat
    BY <2>2, FS_CardinalityType
  <2> QED
    BY <1>1, <2>1, <2>2, <2>3
<1>5. ASSUME NEW i \in S, NEW j \in S, Less(i, j)
      PROVE  Cardinality(Under(i)) < Cardinality(Under(j))
  <2>1. Under(i) \in SUBSET Under(j) /\ Under(i) # Under(j)
    BY <1>2, <1>3, <1>5
  <2>2. /\ Cardinality(Under(i)) <= Cardinality(Under(j))
        /\ Cardinality(Under(j)) = Cardinality(Under(i)) => Under(j) = Under(i)
    BY <1>4, <2>1, FS_Subset, Zenon
  <2> QED
    BY <1>4, <2>1, <2>2
<1>6. rank \in [S -> S]
  BY <1>4
<1>7. \A i, j \in S : Less(i, j) => rank[i] < rank[j]
  BY <1>4, <1>5
<1>8. \A j \in S : rank[j] \in Nat
  BY <1>4
<1> HIDE DEF rank
<1>9. \A i, j \in S : rank[i] = rank[j] => i = j
  BY <1>2, <1>7, <1>8
<1>10. rank \in Injection(S, S)
  BY <1>6, <1>9, Fun_IsInj
<1>11. rank \in Surjection(S, S)
  BY <1>1, <1>10, FS_Injection, Zenon
<1>12. \A k \in S : \E j \in S : rank[j] = k
  <2>1. rank \in Bijection(S, S)
    BY <1>10, <1>11, Fun_IsBij, Zenon
  <2> QED
    BY <2>1, BijectionIs, Zenon
<1> DEFINE s == [k \in S |-> CHOOSE j \in S : rank[j] = k]
<1>13. \A k \in S : s[k] \in S /\ rank[s[k]] = k
  BY <1>12
<1>14. s \in [S -> S]
  BY <1>12
<1> HIDE DEF s
<1>15. \A k \in S : s[rank[k]] = k
  BY <1>6, <1>9, <1>13
<1>16. s \in Bijection(S, S)
  <2>1. \A a, b \in S : s[a] = s[b] => a = b
    BY <1>13
  <2>2. \A a \in S : \E b \in S : s[b] = a
    BY <1>6, <1>15
  <2> QED
    BY <1>14, <2>1, <2>2, BijectionIs, Zenon
<1>17. ASSUME NEW i \in S, NEW j \in S, i < j PROVE <<s[i], s[j]>> \in R
  <2>1. s[i] \in S /\ s[j] \in S /\ rank[s[i]] < rank[s[j]] /\ rank[s[i]] \in Nat /\ rank[s[j]] \in Nat
    BY <1>8, <1>13, <1>17
  <2>2. s[i] # s[j] /\ ~Less(s[j], s[i])
    BY <1>7, <2>1
  <2> QED
    BY <1>2, <2>1, <2>2
<1> HIDE DEF S
<1> QED
  BY <1>16, <1>17 DEF S

\* Two bijections that put the same numbers in the same strict order are the same.
LEMMA SortedOnce ==
    ASSUME NEW n \in Nat, NEW R,
           \A i, j \in 1..n : ~(<<i, j>> \in R /\ <<j, i>> \in R),
           NEW s \in Bijection(1..n, 1..n), NEW t \in Bijection(1..n, 1..n),
           \A i, j \in 1..n : i < j => <<s[i], s[j]>> \in R,
           \A i, j \in 1..n : i < j => <<t[i], t[j]>> \in R
    PROVE  s = t
<1> DEFINE S == 1..n
           T == {k \in Nat : \A i \in S : i <= k => s[i] = t[i]}
<1>1. /\ s \in [S -> S] /\ t \in [S -> S]
      /\ \A a, b \in S : s[a] = s[b] => a = b
      /\ \A a, b \in S : t[a] = t[b] => a = b
      /\ \A a \in S : \E b \in S : s[b] = a
      /\ \A a \in S : \E b \in S : t[b] = a
  <2>1. /\ s \in [S -> S]
        /\ \A a, b \in S : s[a] = s[b] => a = b
        /\ \A a \in S : \E b \in S : s[b] = a
    BY BijectionIs, Zenon
  <2>2. /\ t \in [S -> S]
        /\ \A a, b \in S : t[a] = t[b] => a = b
        /\ \A a \in S : \E b \in S : t[b] = a
    BY BijectionIs, Zenon
  <2> QED
    BY <2>1, <2>2
<1>2. 0 \in T
  OBVIOUS
<1>3. ASSUME NEW k \in Nat, k \in T PROVE k + 1 \in T
  <2>1. \A i \in S : i <= k => s[i] = t[i]
    BY <1>3
  <2> SUFFICES ASSUME k + 1 \in S PROVE s[k + 1] = t[k + 1]
    BY <2>1
  <2>9. s[k + 1] \in S /\ t[k + 1] \in S
    BY <1>1
  <2>2. PICK a \in S : t[a] = s[k + 1]
    BY <1>1, <2>9, Zenon
  <2>3. PICK b \in S : s[b] = t[k + 1]
    BY <1>1, <2>9, Zenon
  <2>4. ~(a <= k)
    BY <1>1, <2>1, <2>2
  <2>5. ~(b <= k)
    BY <1>1, <2>1, <2>3
  <2>6. CASE a = k + 1
    BY <2>2, <2>6
  <2>7. CASE b = k + 1
    BY <2>3, <2>7
  <2>8. CASE a # k + 1 /\ b # k + 1
    <3>1. k + 1 < a /\ k + 1 < b
      BY <2>4, <2>5, <2>8
    <3>2. <<t[k + 1], t[a]>> \in R /\ <<s[k + 1], s[b]>> \in R
      BY <3>1
    <3> QED
      BY <2>9, <2>2, <2>3, <3>2
  <2> QED
    BY <2>6, <2>7, <2>8
<1> HIDE DEF T
<1>4. Nat \subseteq T
  BY <1>2, <1>3, NatInduct
<1>5. \A i \in S : s[i] = t[i]
  BY <1>4 DEF T
<1> QED
  BY <1>1, <1>5

-----------------------------------------------------------------------------
(* Values and their names. *)

\* What a container has.
LEMMA ContainersIs ==
    ASSUME NEW S, NEW v \in Containers(S)
    PROVE  /\ v = [kind |-> v.kind, names |-> v.names, items |-> v.items]
           /\ v.kind \in {BeginObject, BeginArray} /\ IsContainer(v)
           /\ v.names \in Seq(Names) /\ v.items \in Seq(S)
           /\ Len(v.items) \in Nat /\ DOMAIN v.items = 1..Len(v.items)
           /\ \A i \in DOMAIN v.items : v.items[i] \in S
           /\ v.kind = BeginObject => DOMAIN v.names = DOMAIN v.items
           /\ v.kind # BeginObject => v.names = <<>> /\ DOMAIN v.names = {}
           /\ \A i \in DOMAIN v.names : v.names[i] \in Names
<1>1. /\ v \in [kind : {BeginObject, BeginArray}, names : Seq(Names), items : Seq(S)]
      /\ Len(v.names) = IF v.kind = BeginObject THEN Len(v.items) ELSE 0
  BY DEF Containers
<1>2. /\ v = [kind |-> v.kind, names |-> v.names, items |-> v.items]
      /\ v.kind \in {BeginObject, BeginArray}
      /\ v.names \in Seq(Names) /\ v.items \in Seq(S)
  BY <1>1
<1>3. /\ Len(v.items) \in Nat /\ DOMAIN v.items = 1..Len(v.items)
      /\ \A i \in DOMAIN v.items : v.items[i] \in S
  BY <1>2
<1>4. /\ Len(v.names) \in Nat /\ DOMAIN v.names = 1..Len(v.names)
      /\ \A i \in DOMAIN v.names : v.names[i] \in Names
  BY <1>2
<1>5. v.kind # BeginObject => v.names = <<>> /\ DOMAIN v.names = {}
  BY <1>1, <1>2, <1>4
<1> QED
  BY <1>1, <1>2, <1>3, <1>4, <1>5 DEF IsContainer

LEMMA ContainersGrow ==
    ASSUME NEW S, NEW T, S \subseteq T
    PROVE  Containers(S) \subseteq Containers(T)
<1>1. Seq(S) \subseteq Seq(T)
  BY SeqMonotonic
<1> QED
  BY <1>1 DEF Containers

\* A value that fits in m containers fits in more.
LEMMA ValueGrows ==
    \A m, n \in 0..Height : m <= n => Value[m] \subseteq Value[n]
<1> DEFINE Up(n) == Value[n] \subseteq Value[n + 1]
           T == {n \in Nat : n + 1 <= Height => Up(n)}
<1>1. Height \in Nat
  BY DepthAssumption
<1>2. \A n \in Nat : n + 1 <= Height => Value[n + 1] = Leaves \cup Containers(Value[n])
  <2> SUFFICES ASSUME NEW n \in Nat, n + 1 <= Height
               PROVE  Value[n + 1] = Leaves \cup Containers(Value[n])
    OBVIOUS
  <2>1. n + 1 \in 0..Height /\ n + 1 # 0 /\ (n + 1) - 1 = n
    BY <1>1
  <2> QED
    BY <2>1, ValueIs
<1>3. 0 \in T
  <2>4. 0 \in 0..Height
    BY <1>1
  <2>1. Value[0] = Leaves
    BY <2>4, ValueIs
  <2>2. 0 + 1 <= Height => Value[0 + 1] = Leaves \cup Containers(Value[0])
    BY <1>2
  <2>3. 0 + 1 <= Height => Up(0)
    BY <2>1, <2>2
  <2> HIDE DEF Up
  <2> QED
    BY <2>3
<1>4. ASSUME NEW n \in Nat, n \in T PROVE n + 1 \in T
  <2> SUFFICES ASSUME (n + 1) + 1 <= Height PROVE Up(n + 1)
    OBVIOUS
  <2>1. n + 1 <= Height
    BY <1>1
  <2>2. Value[n] \subseteq Value[n + 1]
    BY <1>4, <2>1
  <2>3. Containers(Value[n]) \subseteq Containers(Value[n + 1])
    BY <2>2, ContainersGrow
  <2>4. Value[n + 1] = Leaves \cup Containers(Value[n])
    BY <1>2, <2>1
  <2>5. Value[(n + 1) + 1] = Leaves \cup Containers(Value[n + 1])
    BY <1>2
  <2> QED
    BY <2>3, <2>4, <2>5
<1> HIDE DEF T
<1>5. Nat \subseteq T
  BY <1>3, <1>4, NatInduct
<1>6. \A n \in Nat : n + 1 <= Height => Up(n)
  BY <1>5 DEF T
<1> DEFINE D == {d \in Nat : \A m \in Nat : m + d <= Height => Value[m] \subseteq Value[m + d]}
<1>7. 0 \in D
  OBVIOUS
<1>8. ASSUME NEW d \in Nat, d \in D PROVE d + 1 \in D
  <2> SUFFICES ASSUME NEW m \in Nat, m + (d + 1) <= Height PROVE Value[m] \subseteq Value[m + (d + 1)]
    OBVIOUS
  <2>1. m + d <= Height /\ m + d \in Nat /\ m + (d + 1) = (m + d) + 1
    BY <1>1
  <2>2. Value[m] \subseteq Value[m + d]
    BY <1>8, <2>1
  <2>3. Value[m + d] \subseteq Value[(m + d) + 1]
    BY <1>6, <2>1
  <2> QED
    BY <2>1, <2>2, <2>3
<1> HIDE DEF D
<1>9. Nat \subseteq D
  BY <1>7, <1>8, NatInduct
<1> SUFFICES ASSUME NEW m \in 0..Height, NEW n \in 0..Height, m <= n
             PROVE  Value[m] \subseteq Value[n]
  OBVIOUS
<1>10. n - m \in Nat /\ m + (n - m) = n /\ m + (n - m) <= Height
  BY <1>1
<1>11. m + (n - m) <= Height => Value[m] \subseteq Value[m + (n - m)]
  <2>1. n - m \in D
    BY <1>9, <1>10
  <2> QED
    BY <2>1 DEF D
<1> QED
  BY <1>10, <1>11

\* A value of a level: a leaf, or a container with items of the level below.
LEMMA LevelIs ==
    ASSUME NEW n \in 0..Height, NEW v \in Value[n]
    PROVE  /\ v \in Value[Height]
           /\ ~IsContainer(v) => v \in Leaves
           /\ IsContainer(v) => /\ n > 0 /\ n - 1 \in 0..Height /\ v \in Containers(Value[n - 1])
                                /\ \A i \in DOMAIN v.items : v.items[i] \in Value[Height]
<1>1. Height \in Nat /\ n <= Height /\ Height \in 0..Height
  BY DepthAssumption
<1>2. Value[n] \subseteq Value[Height]
  BY <1>1, ValueGrows
<1>3. Value[n] = IF n = 0 THEN Leaves ELSE Leaves \cup Containers(Value[n - 1])
  BY ValueIs
<1>4. \A w \in Leaves : ~IsContainer(w)
  BY LeafIs
<1>5. \A S : \A w \in Containers(S) : IsContainer(w)
  BY ContainersIs
<1>6. ~IsContainer(v) => v \in Leaves
  BY <1>3, <1>5
<1>7. IsContainer(v) => n # 0 /\ v \in Containers(Value[n - 1])
  BY <1>3, <1>4
<1>8. n # 0 => n > 0 /\ n - 1 \in 0..Height /\ n - 1 <= Height
  BY <1>1
<1>9. ASSUME IsContainer(v), NEW i \in DOMAIN v.items PROVE v.items[i] \in Value[Height]
  <2>1. v.items[i] \in Value[n - 1]
    BY <1>7, <1>9, ContainersIs
  <2>2. Value[n - 1] \subseteq Value[Height]
    BY <1>1, <1>7, <1>8, <1>9, ValueGrows
  <2> QED
    BY <2>1, <2>2
<1> QED
  BY <1>2, <1>6, <1>7, <1>8, <1>9

\* Of any value.
LEMMA ValueHas ==
    ASSUME NEW v \in Value[Height]
    PROVE  /\ ~IsContainer(v) => v \in Leaves
           /\ IsContainer(v) =>
                  /\ v \in Containers(Value[Height - 1])
                  /\ \A i \in DOMAIN v.items : v.items[i] \in Value[Height]
<1>1. Height \in 0..Height
  BY DepthAssumption
<1> QED
  BY <1>1, LevelIs

-----------------------------------------------------------------------------
(* The order of names. *)

Precedes(m, n) == LexLess(Utf16(Scalars(m)), Utf16(Scalars(n)))

\* Names are spelled in scalar values, and no two in the same.
LEMMA NameUnits ==
    ASSUME NEW m \in Names
    PROVE  /\ Utf16(Scalars(m)) \in Seq(Int)
           /\ \A n \in Names : Utf16(Scalars(m)) = Utf16(Scalars(n)) => m = n
<1>1. \A n \in Names : Spelled[n] \in Seq(ScalarValue)
  BY SpelledAssumption DEF ScalarValue
<1>2. Utf16(Spelled[m]) \in Seq(Int)
  BY <1>1, Utf16Type
<1>3. ASSUME NEW n \in Names, Utf16(Spelled[m]) = Utf16(Spelled[n]) PROVE m = n
  <2>1. Spelled[m] = Spelled[n]
    BY <1>1, <1>3, Utf16Differ
  <2> QED
    BY <2>1, SpelledAssumption
<1> QED
  BY <1>2, <1>3 DEF Scalars

\* The order is strict, and one of two names comes first.
LEMMA NamesOrdered ==
    /\ \A m \in Names : ~Precedes(m, m)
    /\ \A m, n \in Names : Precedes(m, n) \/ Precedes(n, m) \/ m = n
    /\ \A m, n, k \in Names : Precedes(m, n) /\ Precedes(n, k) => Precedes(m, k)
    /\ \A m, n \in Names : NotAfter(m, n) <=> (Precedes(m, n) \/ m = n)
<1>1. ASSUME NEW m \in Names PROVE ~Precedes(m, m)
  BY NameUnits, LexLessStrict DEF Precedes
<1>2. ASSUME NEW m \in Names, NEW n \in Names
      PROVE  Precedes(m, n) \/ Precedes(n, m) \/ m = n
  <2>1. Utf16(Scalars(m)) \in Seq(Int) /\ Utf16(Scalars(n)) \in Seq(Int)
    BY NameUnits
  <2>2. \/ LexLess(Utf16(Scalars(m)), Utf16(Scalars(n)))
        \/ LexLess(Utf16(Scalars(n)), Utf16(Scalars(m)))
        \/ Utf16(Scalars(m)) = Utf16(Scalars(n))
    BY <2>1, LexLessTotal
  <2> QED
    BY <2>2, NameUnits DEF Precedes
<1>3. ASSUME NEW m \in Names, NEW n \in Names, NEW k \in Names, Precedes(m, n), Precedes(n, k)
      PROVE  Precedes(m, k)
  <2>1. /\ Utf16(Scalars(m)) \in Seq(Int) /\ Utf16(Scalars(n)) \in Seq(Int)
        /\ Utf16(Scalars(k)) \in Seq(Int)
    BY NameUnits
  <2> QED
    BY <1>3, <2>1, LexLessTransitive DEF Precedes
<1>4. ASSUME NEW m \in Names, NEW n \in Names
      PROVE  NotAfter(m, n) <=> (Precedes(m, n) \/ m = n)
  <2> DEFINE x == Utf16(Scalars(m))
             y == Utf16(Scalars(n))
             c == Compare(x, y)
  <2>1. x \in Seq(Int) /\ y \in Seq(Int) /\ (x = y <=> m = n)
    BY NameUnits
  <2> HIDE DEF x, y
  <2>2. c \in Int /\ (c < 0 <=> LexLess(x, y)) /\ (c = 0 <=> x = y)
    BY <2>1, CompareLess, CompareEqual
  <2> HIDE DEF c
  <2>3. c <= 0 <=> (c < 0 \/ c = 0)
    BY <2>2
  <2>4. NotAfter(m, n) <=> c <= 0
    BY DEF NotAfter, CmpUtf16, c, x, y
  <2>5. Precedes(m, n) <=> LexLess(x, y)
    BY DEF Precedes, x, y
  <2> QED
    BY <2>1, <2>2, <2>3, <2>4, <2>5
<1> QED
  BY <1>1, <1>2, <1>3, <1>4

\* The positions of the sorted members: each once, and in the order of the names.
LEMMA SortedIs ==
    ASSUME NEW v \in Value[Height], IsContainer(v)
    PROVE  /\ Sorted(v) \in Orderings(v)
           /\ \A i, j \in DOMAIN v.names : i < j => NotAfter(v.names[Sorted(v)[i]], v.names[Sorted(v)[j]])
<1> DEFINE n == Len(v.names)
           R == {p \in (1..n) \X (1..n) : NotAfter(v.names[p[1]], v.names[p[2]])}
<1>1. /\ v.names \in Seq(Names) /\ \A i \in DOMAIN v.names : v.names[i] \in Names
  BY ValueHas, ContainersIs
<1>2. n \in Nat /\ DOMAIN v.names = 1..n
  BY <1>1
<1> HIDE DEF n
<1>3. \A i, j \in 1..n : <<i, j>> \in R <=> NotAfter(v.names[i], v.names[j])
  OBVIOUS
<1> HIDE DEF R
<1>4. \A i, j \in 1..n : <<i, j>> \in R \/ <<j, i>> \in R
  <2> SUFFICES ASSUME NEW i \in 1..n, NEW j \in 1..n PROVE <<i, j>> \in R \/ <<j, i>> \in R
    OBVIOUS
  <2> DEFINE a == v.names[i]
             b == v.names[j]
  <2>1. a \in Names /\ b \in Names
    BY <1>1, <1>2
  <2> HIDE DEF a, b
  <2>2. NotAfter(a, b) \/ NotAfter(b, a)
    BY <2>1, NamesOrdered, Zenon
  <2> QED
    BY <1>3, <2>2 DEF a, b
<1>5. \A i, j, k \in 1..n : <<i, j>> \in R /\ <<j, k>> \in R => <<i, k>> \in R
  <2> SUFFICES ASSUME NEW i \in 1..n, NEW j \in 1..n, NEW k \in 1..n,
                      <<i, j>> \in R, <<j, k>> \in R
               PROVE  <<i, k>> \in R
    OBVIOUS
  <2> DEFINE a == v.names[i]
             b == v.names[j]
             c == v.names[k]
  <2>1. a \in Names /\ b \in Names /\ c \in Names
    BY <1>1, <1>2
  <2>2. NotAfter(a, b) /\ NotAfter(b, c)
    BY <1>3
  <2> HIDE DEF a, b, c
  <2>3. NotAfter(a, c)
    BY <2>1, <2>2, NamesOrdered, Zenon
  <2> QED
    BY <1>3, <2>3 DEF a, c
<1>6. \E s \in Bijection(1..n, 1..n) : \A i, j \in 1..n : i < j => <<s[i], s[j]>> \in R
  BY <1>2, <1>4, <1>5, SortedExists
<1>7. PICK s \in Bijection(1..n, 1..n) : \A i, j \in 1..n : i < j => <<s[i], s[j]>> \in R
  BY <1>6
<1>8. s \in [1..n -> 1..n]
  BY BijectionIs, Zenon
<1>9. \A i, j \in DOMAIN s : i < j => NotAfter(v.names[s[i]], v.names[s[j]])
  BY <1>3, <1>7, <1>8
<1>10. /\ Sorted(v) \in Orderings(v)
       /\ \A i, j \in DOMAIN Sorted(v) :
              i < j => NotAfter(v.names[Sorted(v)[i]], v.names[Sorted(v)[j]])
  BY <1>2, <1>9, Zenon DEF Sorted, Orderings
<1>11. DOMAIN Sorted(v) = 1..n
  <2>1. Sorted(v) \in Bijection(1..n, 1..n)
    BY <1>2, <1>10 DEF Orderings
  <2>2. Sorted(v) \in [1..n -> 1..n]
    BY <2>1, BijectionIs, Zenon
  <2> QED
    BY <2>2
<1> QED
  BY <1>2, <1>10, <1>11

\* Among sorted members, two of one name are neighbours.
LEMMA DuplicateIs ==
    ASSUME NEW v \in Value[Height], IsContainer(v)
    PROVE  HasDuplicate(v) <=> v \notin NoRepeats
<1> DEFINE s == Sorted(v)
           n == Len(v.names)
<1>1. /\ n \in Nat /\ DOMAIN v.names = 1..n
      /\ \A i \in 1..n : v.names[i] \in Names
  <2>1. v.names \in Seq(Names) /\ \A i \in DOMAIN v.names : v.names[i] \in Names
    BY ValueHas, ContainersIs
  <2> QED
    BY <2>1
<1>2. /\ s \in Bijection(1..n, 1..n)
      /\ \A i, j \in 1..n : i < j => NotAfter(v.names[s[i]], v.names[s[j]])
  BY <1>1, SortedIs DEF Orderings
<1>3. HasDuplicate(v) <=> \E k \in 1..(n - 1) : v.names[s[k]] = v.names[s[k + 1]]
  BY DEF HasDuplicate
<1>4. v \in NoRepeats <=> \A i, j \in 1..n : v.names[i] = v.names[j] => i = j
  BY <1>1 DEF NoRepeats
<1> HIDE DEF s, n
<1>5. /\ s \in [1..n -> 1..n]
      /\ \A a, b \in 1..n : s[a] = s[b] => a = b
      /\ \A a \in 1..n : \E b \in 1..n : s[b] = a
  BY <1>2, BijectionIs, Zenon
<1>6. ASSUME NEW k \in 1..(n - 1), v.names[s[k]] = v.names[s[k + 1]]
      PROVE  v \notin NoRepeats
  <2>1. k \in 1..n /\ k + 1 \in 1..n /\ k # k + 1
    BY <1>1
  <2>2. s[k] \in 1..n /\ s[k + 1] \in 1..n /\ s[k] # s[k + 1]
    BY <1>5, <2>1
  <2> QED
    BY <1>4, <1>6, <2>2
<1>7. ASSUME NEW a \in 1..n, NEW b \in 1..n, a < b, v.names[s[a]] = v.names[s[b]]
      PROVE  HasDuplicate(v)
  <2>1. a \in 1..(n - 1) /\ a + 1 \in 1..n /\ a < a + 1 /\ (a + 1 = b \/ a + 1 < b)
    BY <1>1, <1>7
  <2>2. CASE a + 1 = b
    BY <1>3, <1>7, <2>1, <2>2
  <2>3. CASE a + 1 < b
    <3> DEFINE x == v.names[s[a]]
               y == v.names[s[a + 1]]
    <3>1. x \in Names /\ y \in Names
      BY <1>1, <1>5, <2>1
    <3>2. NotAfter(x, y) /\ NotAfter(y, x)
      BY <1>2, <1>7, <2>1, <2>3
    <3>3. x = y
      <4> HIDE DEF x, y
      <4> QED
        BY <3>1, <3>2, NamesOrdered, Zenon
    <3> QED
      BY <1>3, <2>1, <3>3
  <2> QED
    BY <2>1, <2>2, <2>3
<1>8. ASSUME v \notin NoRepeats PROVE HasDuplicate(v)
  <2>1. PICK i \in 1..n, j \in 1..n : v.names[i] = v.names[j] /\ i # j
    BY <1>4, <1>8
  <2>2. PICK a \in 1..n : s[a] = i
    BY <1>5
  <2>3. PICK b \in 1..n : s[b] = j
    BY <1>5
  <2>4. a < b \/ b < a
    BY <2>1, <2>2, <2>3
  <2> QED
    BY <1>7, <2>1, <2>2, <2>3, <2>4
<1> QED
  BY <1>3, <1>6, <1>8

\* Sorted members of different names are in strict order.
LEMMA SortedStrict ==
    ASSUME NEW v \in NoRepeats, IsContainer(v)
    PROVE  \A i, j \in DOMAIN v.names : i < j => Precedes(v.names[Sorted(v)[i]], v.names[Sorted(v)[j]])
<1> DEFINE s == Sorted(v)
           D == DOMAIN v.names
<1>1. v \in Value[Height] /\ \A i, j \in D : v.names[i] = v.names[j] => i = j
  BY DEF NoRepeats
<1>2. \A i \in D : v.names[i] \in Names
  BY <1>1, ValueHas, ContainersIs
<1>3. s \in Bijection(D, D) /\ \A i, j \in D : i < j => NotAfter(v.names[s[i]], v.names[s[j]])
  BY <1>1, SortedIs DEF Orderings
<1>4. D \subseteq Int
  <2>1. v.names \in Seq(Names)
    BY <1>1, ValueHas, ContainersIs
  <2> QED
    BY <2>1
<1> HIDE DEF s, D
<1>5. s \in [D -> D] /\ \A a, b \in D : s[a] = s[b] => a = b
  BY <1>3, BijectionIs, Zenon
<1> SUFFICES ASSUME NEW i \in D, NEW j \in D, i < j PROVE Precedes(v.names[s[i]], v.names[s[j]])
  BY DEF s, D
<1>6. s[i] \in D /\ s[j] \in D /\ s[i] # s[j]
  BY <1>4, <1>5
<1>7. v.names[s[i]] # v.names[s[j]] /\ v.names[s[i]] \in Names /\ v.names[s[j]] \in Names
  BY <1>1, <1>2, <1>6
<1>8. NotAfter(v.names[s[i]], v.names[s[j]])
  BY <1>3
<1> QED
  BY <1>7, <1>8, NamesOrdered, Zenon

-----------------------------------------------------------------------------
(* What is written. *)

\* The same entries in the same order are written the same.
LEMMA BracketedSame ==
    ASSUME NEW v, NEW w, NEW x, NEW y, NEW o, NEW q,
           v.kind = w.kind, DOMAIN o = DOMAIN q,
           \A k \in DOMAIN o : x[o[k]] = y[q[k]],
           \A k \in DOMAIN o : v.kind = BeginObject => v.names[o[k]] = w.names[q[k]]
    PROVE  Bracketed(v, x, o) = Bracketed(w, y, q)
<1> DEFINE entry(i) == IF v.kind = BeginObject THEN <<v.names[i], ":">> \o x[i] ELSE x[i]
           other(i) == IF w.kind = BeginObject THEN <<w.names[i], ":">> \o y[i] ELSE y[i]
<1>1. \A k \in DOMAIN o : entry(o[k]) = other(q[k])
  <2> SUFFICES ASSUME NEW k \in DOMAIN o PROVE entry(o[k]) = other(q[k])
    OBVIOUS
  <2>1. x[o[k]] = y[q[k]] /\ (v.kind = BeginObject => v.names[o[k]] = w.names[q[k]])
    OBVIOUS
  <2> QED
    BY <2>1, Zenon
<1>2. Bracketed(v, x, o) =
          <<v.kind>> \o Separated([k \in DOMAIN o |-> entry(o[k])]) \o <<Ending(v.kind)>>
  BY DEF Bracketed
<1>3. Bracketed(w, y, q) =
          <<w.kind>> \o Separated([k \in DOMAIN q |-> other(q[k])]) \o <<Ending(w.kind)>>
  BY DEF Bracketed
<1> HIDE DEF entry, other
<1>4. [k \in DOMAIN o |-> entry(o[k])] = [k \in DOMAIN q |-> other(q[k])]
  BY <1>1
<1> QED
  BY <1>2, <1>3, <1>4

\* A number is written if it is finite, a container if all its items are and its names
\* differ.
LEMMA WrittenIs ==
    ASSUME NEW n \in 0..MaxDepth, NEW v \in Value[Height]
    PROVE  LET fits == n > 0 /\ (v.kind = BeginObject => v \in NoRepeats)
               bad == \E i \in DOMAIN v.items : Write[n - 1][v.items[i]] = Bad
           IN  /\ ~IsContainer(v) => Write[n][v] = IF IsFinite(v) THEN <<v.is>> ELSE Bad
               /\ IsContainer(v) /\ (~fits \/ bad) => Write[n][v] = Bad
               /\ IsContainer(v) /\ fits /\ ~bad =>
                      Write[n][v] =
                          Bracketed(v, [i \in DOMAIN v.items |-> Write[n - 1][v.items[i]]],
                                    IF v.kind = BeginObject THEN Sorted(v) ELSE InOrder(v))
<1> DEFINE items(u) == [i \in DOMAIN u.items |-> Write[n - 1][u.items[i]]]
           order(u) == IF u.kind = BeginObject THEN Sorted(u) ELSE InOrder(u)
           body(u) == IF ~Writable(u, n) THEN Bad
                      ELSE IF ~IsContainer(u) THEN <<u.is>>
                      ELSE IF \E i \in DOMAIN items(u) : items(u)[i] = Bad THEN Bad
                      ELSE Bracketed(u, items(u), order(u))
           fits == n > 0 /\ (v.kind = BeginObject => v \in NoRepeats)
           bad == \E i \in DOMAIN v.items : Write[n - 1][v.items[i]] = Bad
           bracketed == Bracketed(v, items(v), order(v))
<1>1. Write[n] = [u \in Value[Height] |-> body(u)]
  BY WriteIs, Zenon
<1>2. Write[n][v] = body(v)
  <2> HIDE DEF body
  <2> QED
    BY <1>1
<1>3. (\E i \in DOMAIN items(v) : items(v)[i] = Bad) <=> bad
  OBVIOUS
<1>4. Writable(v, n) <=> IF IsContainer(v) THEN fits ELSE IsFinite(v)
  BY DuplicateIs DEF Writable
<1> HIDE DEF fits, bad, bracketed
<1>5. body(v) = IF ~Writable(v, n) THEN Bad
                ELSE IF ~IsContainer(v) THEN <<v.is>>
                ELSE IF bad THEN Bad ELSE bracketed
  BY <1>3, Zenon DEF bracketed
<1> HIDE DEF body
<1>6. /\ ~IsContainer(v) => Write[n][v] = IF IsFinite(v) THEN <<v.is>> ELSE Bad
      /\ IsContainer(v) /\ (~fits \/ bad) => Write[n][v] = Bad
      /\ IsContainer(v) /\ fits /\ ~bad => Write[n][v] = bracketed
  BY <1>2, <1>4, <1>5, Zenon
<1> QED
  BY <1>6 DEF fits, bad, bracketed

\* What a text consists of.
Tokens == Lexemes \cup (Punctuation \ {"end"})

LEMMA TokensAre ==
    /\ "," \in Tokens /\ ":" \in Tokens /\ "end" \notin Tokens
    /\ \A kind \in {BeginObject, BeginArray} : kind \in Tokens /\ Ending(kind) \in Tokens
    /\ Names \subseteq Lexemes /\ Lexemes \subseteq Tokens
<1>1. Names \subseteq Lexemes /\ Lexemes \subseteq Tokens
  BY LeafIs DEF Names, Tokens
<1>2. /\ "," \in Tokens /\ ":" \in Tokens
      /\ BeginObject \in Tokens /\ BeginArray \in Tokens /\ "}" \in Tokens /\ "]" \in Tokens
  BY DEF Tokens, Punctuation, BeginObject, BeginArray
<1>3. "end" \notin Tokens
  BY ReadAssumption DEF Tokens, Punctuation
<1>4. ASSUME NEW kind \in {BeginObject, BeginArray} PROVE Ending(kind) = "}" \/ Ending(kind) = "]"
  <2>1. CASE kind = BeginObject
    BY <2>1, TokenKinds, Zenon DEF Ending
  <2>2. CASE kind = BeginArray
    BY <2>2, TokenKinds, Zenon DEF Ending
  <2> QED
    BY <2>1, <2>2
<1>5. ASSUME NEW kind \in {BeginObject, BeginArray} PROVE kind \in Tokens /\ Ending(kind) \in Tokens
  <2>1. kind \in Tokens
    BY <1>2
  <2>2. Ending(kind) \in Tokens
    BY <1>2, <1>4, Zenon
  <2> QED
    BY <2>1, <2>2
<1> QED
  BY <1>1, <1>2, <1>3, <1>5, Zenon

\* The pieces are texts, and the first is the first.
LEMMA PiecesAre ==
    ASSUME NEW ls \in Seq(Seq(Tokens))
    PROVE  /\ Pieces(ls) \in Seq(Seq(Tokens)) /\ Len(Pieces(ls)) = Len(ls)
           /\ \A i \in 1..Len(ls) :
                Pieces(ls)[i] = (IF i = 1 THEN ls[i] ELSE <<",">> \o ls[i]) /\ ls[i] \in Seq(Tokens)
<1> DEFINE c == ","
           s == Pieces(ls)
           Q == Seq(Tokens)
           n == Len(ls)
<1>1. n \in Nat /\ DOMAIN ls = 1..n /\ \A i \in 1..n : ls[i] \in Q
  OBVIOUS
<1>2. c \in Tokens
  BY TokensAre
<1>3. s = [i \in 1..n |-> IF i = 1 THEN ls[i] ELSE <<c>> \o ls[i]]
  BY <1>1, Zenon DEF Pieces
<1> HIDE DEF c, s
<1>4. ASSUME NEW i \in 1..n PROVE <<c>> \o ls[i] \in Q
  BY <1>1, <1>2
<1> HIDE DEF Q, n
<1>5. s \in [1..n -> Q] /\ \A i \in 1..n : s[i] = IF i = 1 THEN ls[i] ELSE <<c>> \o ls[i]
  BY <1>1, <1>3, <1>4
<1>6. s \in Seq(Q) /\ Len(s) = n
  BY <1>1, <1>5
<1> QED
  BY <1>1, <1>5, <1>6, Zenon DEF c, s, Q, n

\* Separated lexemes are lexemes.
LEMMA SeparatedType ==
    ASSUME NEW ls \in Seq(Seq(Tokens))
    PROVE  Separated(ls) \in Seq(Tokens)
<1> DEFINE s == Pieces(ls)
<1>1. s \in Seq(Seq(Tokens))
  BY PiecesAre
<1> HIDE DEF s
<1>2. Len(s) \in 0..Len(s)
  BY <1>1
<1>3. Joined(s, Len(s)) \in Seq(Tokens) /\ Joined(s, Len(s)) = FlattenSeq(s)
  BY <1>1, <1>2, JoinedType, JoinedAll
<1> QED
  BY <1>3 DEF Separated, s

\* An entry is written in lexemes if its item is.
LEMMA EntryType ==
    ASSUME NEW S, NEW v \in Containers(S), NEW x \in Seq(Tokens), NEW i \in DOMAIN v.items
    PROVE  (IF v.kind = BeginObject THEN <<v.names[i], ":">> \o x ELSE x) \in Seq(Tokens)
<1>1. CASE v.kind = BeginObject
  <2> DEFINE c == ":"
  <2>1. c \in Tokens /\ v.names[i] \in Tokens
    BY <1>1, ContainersIs, TokensAre
  <2> HIDE DEF c
  <2>2. <<v.names[i], c>> \o x \in Seq(Tokens)
    BY <2>1
  <2> QED
    BY <1>1, <2>2 DEF c
<1>2. CASE v.kind # BeginObject
  BY <1>2
<1> QED
  BY <1>1, <1>2

\* A container is written in lexemes if its items are.
LEMMA BracketedType ==
    ASSUME NEW S, NEW v \in Containers(S), NEW x \in Seq(Seq(Tokens)), Len(x) = Len(v.items),
           NEW o, o \in [DOMAIN v.items -> DOMAIN v.items]
    PROVE  Bracketed(v, x, o) \in Seq(Tokens) /\ Bracketed(v, x, o) # <<>>
<1> DEFINE entry(i) == IF v.kind = BeginObject THEN <<v.names[i], ":">> \o x[i] ELSE x[i]
           ls == [k \in DOMAIN o |-> entry(o[k])]
<1>1. /\ v.kind \in {BeginObject, BeginArray} /\ Len(v.items) \in Nat
      /\ DOMAIN v.items = 1..Len(v.items)
      /\ v.kind = BeginObject => DOMAIN v.names = DOMAIN v.items
      /\ \A i \in DOMAIN v.names : v.names[i] \in Names
  BY ContainersIs
<1>2. ASSUME NEW i \in DOMAIN v.items PROVE entry(i) \in Seq(Tokens)
  <2>1. x[i] \in Seq(Tokens)
    BY <1>1
  <2> QED
    BY <2>1, EntryType
<1>3. Bracketed(v, x, o) = <<v.kind>> \o Separated(ls) \o <<Ending(v.kind)>>
  BY DEF Bracketed
<1> HIDE DEF entry
<1>4. ls \in [1..Len(v.items) -> Seq(Tokens)]
  BY <1>1, <1>2
<1>5. ls \in Seq(Seq(Tokens))
  BY <1>1, <1>4
<1> HIDE DEF ls
<1>6. Separated(ls) \in Seq(Tokens)
  BY <1>5, SeparatedType, TokensAre
<1>7. v.kind \in Tokens /\ Ending(v.kind) \in Tokens
  BY <1>1, TokensAre
<1>8. <<v.kind>> \o Separated(ls) \in Seq(Tokens) /\ <<v.kind>> \o Separated(ls) # <<>>
  BY <1>6, <1>7
<1> DEFINE a == <<v.kind>> \o Separated(ls)
           b == <<Ending(v.kind)>>
<1>9. a \in Seq(Tokens) /\ a # <<>> /\ b \in Seq(Tokens)
  BY <1>7, <1>8
<1> HIDE DEF a, b
<1>10. a \o b \in Seq(Tokens) /\ a \o b # <<>>
  <2>1. a \o b \in Seq(Tokens) /\ Len(a \o b) = Len(a) + Len(b)
    BY <1>9
  <2> QED
    BY <1>9, <2>1
<1> QED
  BY <1>3, <1>10 DEF a, b

\* Whether a value is within a bound.
LEMMA WithinHas ==
    ASSUME NEW Q, NEW n \in 0..Height, NEW v \in Value[Height]
    PROVE  v \in Within(Q, n) <=>
               IF IsContainer(v)
               THEN n > 0 /\ v \in Q /\ \A i \in DOMAIN v.items : v.items[i] \in Within(Q, n - 1)
               ELSE IsFinite(v)
<1> DEFINE Fits(k, u) ==
               IF IsContainer(u)
               THEN k > 0 /\ u \in Q /\ \A i \in DOMAIN u.items : u.items[i] \in Within(Q, k - 1)
               ELSE IsFinite(u)
<1>1. \A k \in 0..Height : Within(Q, k) = {u \in Value[Height] : Fits(k, u)}
  BY WithinIs
<1> HIDE DEF Fits
<1>2. v \in Within(Q, n) <=> Fits(n, v)
  BY <1>1
<1> QED
  BY <1>2 DEF Fits

\* The order in which a container is written.
LEMMA OrderIs ==
    ASSUME NEW v \in Value[Height], IsContainer(v)
    PROVE  /\ InOrder(v) \in Bijection(DOMAIN v.items, DOMAIN v.items)
           /\ (IF v.kind = BeginObject THEN Sorted(v) ELSE InOrder(v))
                  \in Bijection(DOMAIN v.items, DOMAIN v.items)
<1>1. v.kind = BeginObject => DOMAIN v.names = DOMAIN v.items
  BY ValueHas, ContainersIs
<1>2. Sorted(v) \in Bijection(DOMAIN v.names, DOMAIN v.names)
  BY SortedIs DEF Orderings
<1>3. /\ InOrder(v) \in [DOMAIN v.items -> DOMAIN v.items]
      /\ \A i \in DOMAIN v.items : InOrder(v)[i] = i
  BY DEF InOrder
<1>4. InOrder(v) \in Bijection(DOMAIN v.items, DOMAIN v.items)
  BY <1>3, BijectionIs, Zenon
<1> QED
  BY <1>1, <1>2, <1>4

\* What is written is a text; a value that is in the domain is written, no other is.
LEMMA WriteDomain ==
    \A n \in 0..MaxDepth : \A v \in Value[Height] :
        Write[n][v] \in Seq(Tokens) /\ (Write[n][v] # Bad <=> v \in Within(NoRepeats, n))
<1> DEFINE Good(n, v) == Write[n][v] \in Seq(Tokens) /\ (Write[n][v] # Bad <=> v \in Within(NoRepeats, n))
           T == {n \in Nat : n <= MaxDepth => \A v \in Value[Height] : Good(n, v)}
<1>1. /\ MaxDepth \in Nat /\ Height \in Nat /\ \A n \in 0..MaxDepth : n \in 0..Height
  BY DepthAssumption, PathAssumption, PathsAssumption DEF Parsers
<1>2. ASSUME NEW n \in 0..MaxDepth, NEW v \in Value[Height],
             n > 0 => \A w \in Value[Height] : Good(n - 1, w)
      PROVE  Good(n, v)
  <2> DEFINE fits == n > 0 /\ (v.kind = BeginObject => v \in NoRepeats)
             x == [i \in DOMAIN v.items |-> Write[n - 1][v.items[i]]]
             o == IF v.kind = BeginObject THEN Sorted(v) ELSE InOrder(v)
  <2>1. v \in Within(NoRepeats, n) <=>
            IF IsContainer(v)
            THEN /\ n > 0 /\ v \in NoRepeats
                 /\ \A i \in DOMAIN v.items : v.items[i] \in Within(NoRepeats, n - 1)
            ELSE IsFinite(v)
    <3>1. n \in 0..Height
      BY <1>1
    <3> QED
      BY <3>1, WithinHas, Zenon
  <2>2. CASE ~IsContainer(v)
    <3>1. Write[n][v] = IF IsFinite(v) THEN <<v.is>> ELSE Bad
      BY <2>2, WrittenIs
    <3>2. v.is \in Tokens
      BY <2>2, ValueHas, LeafIs, TokensAre
    <3>3. <<v.is>> \in Seq(Tokens) /\ <<v.is>> # Bad /\ Bad \in Seq(Tokens)
      BY <3>2 DEF Bad
    <3> QED
      BY <2>1, <2>2, <3>1, <3>3
  <2>3. CASE IsContainer(v)
    <3>1. /\ v \in Containers(Value[Height - 1])
          /\ \A i \in DOMAIN v.items : v.items[i] \in Value[Height]
      BY <2>3, ValueHas
    <3>2. /\ v.kind # BeginObject => v.names = <<>> /\ DOMAIN v.names = {}
          /\ Len(v.items) \in Nat /\ DOMAIN v.items = 1..Len(v.items)
      BY <3>1, ContainersIs
    <3>3. v \in NoRepeats <=> (v.kind = BeginObject => v \in NoRepeats)
      BY <3>2 DEF NoRepeats
    <3>4. CASE ~fits
      <4>1. Write[n][v] = Bad
        BY <2>3, <3>4, WrittenIs
      <4> QED
        BY <2>1, <2>3, <3>3, <3>4, <4>1 DEF Bad
    <3>5. CASE fits
      <4>1. \A i \in DOMAIN v.items : Good(n - 1, v.items[i])
        BY <1>2, <3>1, <3>5
      <4>2. CASE \E i \in DOMAIN v.items : Write[n - 1][v.items[i]] = Bad
        <5>1. Write[n][v] = Bad
          BY <2>3, <4>2, WrittenIs
        <5> QED
          BY <2>1, <2>3, <4>1, <4>2, <5>1 DEF Bad
      <4>3. CASE ~\E i \in DOMAIN v.items : Write[n - 1][v.items[i]] = Bad
        <5>1. Write[n][v] = Bracketed(v, x, o)
          BY <2>3, <3>5, <4>3, WrittenIs
        <5>2. x \in Seq(Seq(Tokens)) /\ Len(x) = Len(v.items)
          BY <3>2, <4>1
        <5>3. o \in [DOMAIN v.items -> DOMAIN v.items]
          BY <2>3, OrderIs, BijectionIs, Zenon
        <5> HIDE DEF x, o
        <5>4. Bracketed(v, x, o) \in Seq(Tokens) /\ Bracketed(v, x, o) # <<>>
          BY <3>1, <5>2, <5>3, BracketedType
        <5> QED
          BY <2>1, <2>3, <3>3, <3>5, <4>1, <4>3, <5>1, <5>4 DEF Bad
      <4> QED
        BY <4>2, <4>3
    <3> QED
      BY <3>4, <3>5
  <2> QED
    BY <2>2, <2>3
<1> HIDE DEF Good
<1>3. 0 \in T
  BY <1>1, <1>2
<1>4. ASSUME NEW n \in Nat, n \in T PROVE n + 1 \in T
  <2> SUFFICES ASSUME n + 1 <= MaxDepth, NEW v \in Value[Height] PROVE Good(n + 1, v)
    OBVIOUS
  <2>1. n + 1 \in 0..MaxDepth /\ n <= MaxDepth /\ (n + 1) - 1 = n
    BY <1>1
  <2>2. \A w \in Value[Height] : Good((n + 1) - 1, w)
    BY <1>4, <2>1
  <2> QED
    BY <1>2, <2>1, <2>2
<1> HIDE DEF T
<1>5. Nat \subseteq T
  BY <1>3, <1>4, NatInduct
<1>6. \A n \in 0..MaxDepth : \A v \in Value[Height] : Good(n, v)
  BY <1>1, <1>5 DEF T
<1> QED
  BY <1>6 DEF Good

-----------------------------------------------------------------------------
(* Members in another order. *)

\* A container whose members are those of v, in the order p, with the items c.
Reordered(v, p, c) ==
    [kind |-> v.kind,
     names |-> [i \in DOMAIN v.names |-> v.names[p[i]]],
     items |-> [i \in DOMAIN v.items |-> c[p[i]]]]

\* It is a container too.
LEMMA ReorderedIs ==
    ASSUME NEW S, NEW v \in Containers(S), NEW p \in Bijection(DOMAIN v.items, DOMAIN v.items),
           NEW T, NEW c \in [DOMAIN v.items -> T]
    PROVE  LET w == Reordered(v, p, c) IN
           /\ w \in Containers(T) /\ w.kind = v.kind
           /\ DOMAIN w.items = DOMAIN v.items /\ DOMAIN w.names = DOMAIN v.names
           /\ \A i \in DOMAIN v.items : p[i] \in DOMAIN v.items /\ w.items[i] = c[p[i]]
           /\ \A i \in DOMAIN v.names : w.names[i] = v.names[p[i]]
<1> DEFINE w == Reordered(v, p, c)
           m == Len(v.items)
           n == Len(v.names)
<1>1. /\ v.kind \in {BeginObject, BeginArray}
      /\ m \in Nat /\ DOMAIN v.items = 1..m
      /\ v.names \in Seq(Names)
      /\ v.kind = BeginObject => DOMAIN v.names = 1..m
      /\ v.kind # BeginObject => DOMAIN v.names = {}
      /\ \A i \in DOMAIN v.names : v.names[i] \in Names
  BY ContainersIs
<1>2. n \in Nat /\ DOMAIN v.names = 1..n /\ n = IF v.kind = BeginObject THEN m ELSE 0
  <2>1. n \in Nat /\ DOMAIN v.names = 1..n /\ n = Len(v.names)
    BY <1>1
  <2>2. n = IF v.kind = BeginObject THEN Len(v.items) ELSE 0
    BY DEF Containers
  <2> QED
    BY <2>1, <2>2
<1>3. p \in [1..m -> 1..m]
  BY <1>1, BijectionIs, Zenon
<1>4. \A i \in 1..n : p[i] \in 1..n
  BY <1>1, <1>2, <1>3
<1> HIDE DEF m, n
<1> DEFINE x == [i \in 1..n |-> v.names[p[i]]]
           y == [i \in 1..m |-> c[p[i]]]
<1>5. w = [kind |-> v.kind, names |-> x, items |-> y]
  BY <1>1, <1>2 DEF Reordered
<1>6. x \in [1..n -> Names]
  BY <1>1, <1>2, <1>4
<1>7. y \in [1..m -> T]
  BY <1>1, <1>3
<1>8. x \in Seq(Names) /\ Len(x) = n /\ DOMAIN x = 1..n /\ \A i \in 1..n : x[i] = v.names[p[i]]
  BY <1>2, <1>6
<1>9. y \in Seq(T) /\ Len(y) = m /\ DOMAIN y = 1..m /\ \A i \in 1..m : y[i] = c[p[i]]
  BY <1>1, <1>7
<1> HIDE DEF x, y, w
<1>10. w \in Containers(T)
  BY <1>1, <1>2, <1>5, <1>8, <1>9 DEF Containers
<1> QED
  BY <1>1, <1>2, <1>3, <1>5, <1>8, <1>9, <1>10 DEF w

\* Its names differ if those of v do.
LEMMA ReorderedNames ==
    ASSUME NEW v \in Value[Height], IsContainer(v), NEW w \in Value[Height], IsContainer(w),
           NEW p \in Bijection(DOMAIN v.names, DOMAIN v.names),
           DOMAIN w.names = DOMAIN v.names, \A i \in DOMAIN v.names : w.names[i] = v.names[p[i]]
    PROVE  v \in NoRepeats <=> w \in NoRepeats
<1> DEFINE D == DOMAIN v.names
<1>1. /\ p \in [D -> D]
      /\ \A a, b \in D : p[a] = p[b] => a = b
      /\ \A a \in D : \E b \in D : p[b] = a
  BY BijectionIs, Zenon
<1>2. v \in NoRepeats <=> \A i, j \in D : v.names[i] = v.names[j] => i = j
  BY DEF NoRepeats
<1>3. w \in NoRepeats <=> \A i, j \in D : v.names[p[i]] = v.names[p[j]] => i = j
  BY DEF NoRepeats
<1> HIDE DEF D
<1>4. v \in NoRepeats => w \in NoRepeats
  BY <1>1, <1>2, <1>3
<1>5. ASSUME w \in NoRepeats, NEW i \in D, NEW j \in D, v.names[i] = v.names[j] PROVE i = j
  <2>1. PICK a \in D : p[a] = i
    BY <1>1
  <2>2. PICK b \in D : p[b] = j
    BY <1>1
  <2> QED
    BY <1>3, <1>5, <2>1, <2>2
<1> QED
  BY <1>2, <1>4, <1>5

\* Two bijections after each other.
LEMMA BijectionsCompose ==
    ASSUME NEW S, NEW f \in Bijection(S, S), NEW g \in Bijection(S, S)
    PROVE  [i \in S |-> f[g[i]]] \in Bijection(S, S)
<1> DEFINE h == [i \in S |-> f[g[i]]]
<1>1. f \in [S -> S] /\ (\A a, b \in S : f[a] = f[b] => a = b) /\ (\A a \in S : \E b \in S : f[b] = a)
  BY BijectionIs, Zenon
<1>2. g \in [S -> S] /\ (\A a, b \in S : g[a] = g[b] => a = b) /\ (\A a \in S : \E b \in S : g[b] = a)
  BY BijectionIs, Zenon
<1>3. h \in [S -> S] /\ \A i \in S : h[i] = f[g[i]] /\ g[i] \in S
  BY <1>1, <1>2
<1> HIDE DEF h
<1>4. \A a, b \in S : h[a] = h[b] => a = b
  BY <1>1, <1>2, <1>3
<1>5. ASSUME NEW a \in S PROVE \E b \in S : h[b] = a
  <2>1. PICK k \in S : f[k] = a
    BY <1>1
  <2>2. PICK b \in S : g[b] = k
    BY <1>2
  <2> QED
    BY <1>3, <2>1, <2>2
<1>6. h \in Bijection(S, S)
  BY <1>3, <1>4, <1>5, BijectionIs, Zenon
<1> QED
  BY <1>6 DEF h

\* Different names are sorted in one way, whatever order they come in.
LEMMA SortedSame ==
    ASSUME NEW v \in NoRepeats, IsContainer(v), NEW w \in NoRepeats, IsContainer(w),
           NEW p \in Bijection(DOMAIN v.names, DOMAIN v.names),
           DOMAIN w.names = DOMAIN v.names, \A i \in DOMAIN v.names : w.names[i] = v.names[p[i]]
    PROVE  \A k \in DOMAIN v.names : Sorted(w)[k] \in DOMAIN v.names /\ p[Sorted(w)[k]] = Sorted(v)[k]
<1> DEFINE n == Len(v.names)
           s == Sorted(v)
           t == Sorted(w)
           q == [k \in 1..n |-> p[t[k]]]
           R == {r \in (1..n) \X (1..n) : Precedes(v.names[r[1]], v.names[r[2]])}
<1>1. v \in Value[Height] /\ w \in Value[Height]
  BY DEF NoRepeats
<1>2. /\ n \in Nat /\ DOMAIN v.names = 1..n /\ \A i \in 1..n : v.names[i] \in Names
  <2>1. v.names \in Seq(Names) /\ \A i \in DOMAIN v.names : v.names[i] \in Names
    BY <1>1, ValueHas, ContainersIs
  <2> QED
    BY <2>1
<1>3. /\ s \in Bijection(1..n, 1..n)
      /\ \A i, j \in 1..n : i < j => Precedes(v.names[s[i]], v.names[s[j]])
  BY <1>1, <1>2, SortedIs, SortedStrict DEF Orderings
<1>4. /\ t \in Bijection(1..n, 1..n)
      /\ \A i, j \in 1..n : i < j => Precedes(w.names[t[i]], w.names[t[j]])
  BY <1>1, <1>2, SortedIs, SortedStrict DEF Orderings
<1> HIDE DEF s, t, n
<1>5. q \in Bijection(1..n, 1..n)
  BY <1>2, <1>4, BijectionsCompose
<1>6. t \in [1..n -> 1..n] /\ s \in [1..n -> 1..n] /\ p \in [1..n -> 1..n]
  BY <1>2, <1>3, <1>4, BijectionIs, Zenon
<1>7. \A i \in 1..n : t[i] \in 1..n /\ q[i] = p[t[i]] /\ q[i] \in 1..n /\ w.names[t[i]] = v.names[q[i]]
  BY <1>2, <1>6
<1>8. \A i, j \in 1..n : <<i, j>> \in R <=> Precedes(v.names[i], v.names[j])
  OBVIOUS
<1> HIDE DEF q, R
<1>9. \A i, j \in 1..n : ~(<<i, j>> \in R /\ <<j, i>> \in R)
  <2> SUFFICES ASSUME NEW i \in 1..n, NEW j \in 1..n, <<i, j>> \in R, <<j, i>> \in R PROVE FALSE
    OBVIOUS
  <2> DEFINE a == v.names[i]
             b == v.names[j]
  <2>1. a \in Names /\ b \in Names /\ Precedes(a, b) /\ Precedes(b, a)
    BY <1>2, <1>8
  <2> HIDE DEF a, b
  <2> QED
    BY <2>1, NamesOrdered, Zenon
<1>10. \A i, j \in 1..n : i < j => <<s[i], s[j]>> \in R
  BY <1>3, <1>6, <1>8
<1>11. \A i, j \in 1..n : i < j => <<q[i], q[j]>> \in R
  BY <1>4, <1>7, <1>8
<1>12. q = s
  BY <1>2, <1>3, <1>5, <1>9, <1>10, <1>11, SortedOnce
<1> QED
  BY <1>2, <1>7, <1>12 DEF s, t

\* Members in another order, with items that are written the same, are written the same.
LEMMA ReorderedWrites ==
    ASSUME NEW v \in Value[Height], IsContainer(v), NEW w \in Value[Height], IsContainer(w),
           NEW p \in Arrangements(v), NEW c,
           w.kind = v.kind,
           DOMAIN w.items = DOMAIN v.items, DOMAIN w.names = DOMAIN v.names,
           \A i \in DOMAIN v.items : p[i] \in DOMAIN v.items /\ w.items[i] = c[p[i]],
           \A i \in DOMAIN v.names : w.names[i] = v.names[p[i]],
           \A n \in 0..MaxDepth : \A i \in DOMAIN v.items : Write[n][c[i]] = Write[n][v.items[i]]
    PROVE  \A n \in 0..MaxDepth : Write[n][w] = Write[n][v]
<1> SUFFICES ASSUME NEW n \in 0..MaxDepth PROVE Write[n][w] = Write[n][v]
  OBVIOUS
<1> DEFINE D == DOMAIN v.items
           fits(u) == n > 0 /\ (u.kind = BeginObject => u \in NoRepeats)
           bad(u) == \E i \in DOMAIN u.items : Write[n - 1][u.items[i]] = Bad
           x(u) == [i \in DOMAIN u.items |-> Write[n - 1][u.items[i]]]
           o(u) == IF u.kind = BeginObject THEN Sorted(u) ELSE InOrder(u)
<1>1. v.kind = BeginObject => DOMAIN v.names = D /\ p \in Bijection(D, D)
  BY ValueHas, ContainersIs DEF Arrangements, Orderings
<1>2. v.kind # BeginObject => \A i \in D : p[i] = i
  BY DEF Arrangements, InOrder
<1>3. p \in Bijection(D, D)
  BY <1>1, OrderIs DEF Arrangements
<1>4. \A a \in D : p[a] \in D /\ \E b \in D : p[b] = a
  <2> HIDE DEF D
  <2>1. p \in [D -> D] /\ \A a \in D : \E b \in D : p[b] = a
    BY <1>3, BijectionIs, Zenon
  <2> QED
    BY <2>1
<1>10. MaxDepth \in Nat
  BY DepthAssumption
<1>5. fits(v) <=> fits(w)
  <2>1. CASE v.kind = BeginObject
    BY <1>1, <2>1, ReorderedNames
  <2> QED
    BY <2>1
<1>6. ASSUME n > 0 PROVE \A i \in D : Write[n - 1][w.items[i]] = Write[n - 1][v.items[p[i]]]
  <2>1. n - 1 \in 0..MaxDepth
    BY <1>6, <1>10
  <2>2. \A i \in D : Write[n - 1][c[p[i]]] = Write[n - 1][v.items[p[i]]]
    BY <1>4, <2>1
  <2> QED
    BY <2>2
<1>7. ASSUME n > 0 PROVE bad(v) <=> bad(w)
  <2>1. ASSUME bad(v) PROVE bad(w)
    <3>1. PICK a \in D : Write[n - 1][v.items[a]] = Bad
      BY <2>1
    <3>2. PICK b \in D : p[b] = a
      BY <1>4
    <3> QED
      BY <1>6, <1>7, <3>1, <3>2
  <2>2. ASSUME bad(w) PROVE bad(v)
    <3>1. PICK a \in D : Write[n - 1][w.items[a]] = Bad
      BY <2>2
    <3> QED
      BY <1>4, <1>6, <1>7, <3>1
  <2> QED
    BY <2>1, <2>2
<1>8. CASE ~fits(v) \/ bad(v)
  <2>1. ~fits(w) \/ bad(w)
    BY <1>5, <1>7, <1>8
  <2>2. Write[n][v] = Bad
    BY <1>8, WrittenIs
  <2>3. Write[n][w] = Bad
    BY <2>1, WrittenIs
  <2> QED
    BY <2>2, <2>3
<1>9. CASE fits(v) /\ ~bad(v)
  <2>1. fits(w) /\ ~bad(w)
    BY <1>5, <1>7, <1>9
  <2>2. Write[n][v] = Bracketed(v, x(v), o(v))
    BY <1>9, WrittenIs
  <2>3. Write[n][w] = Bracketed(w, x(w), o(w))
    BY <2>1, WrittenIs
  <2>4. o(v) \in [D -> D] /\ o(w) \in [D -> D]
    <3>1. o(v) \in Bijection(D, D) /\ o(w) \in Bijection(D, D)
      BY OrderIs
    <3> QED
      BY <3>1, BijectionIs, Zenon
  <2>5. \A k \in D : o(w)[k] \in D /\ o(v)[k] = p[o(w)[k]]
    <3>1. CASE v.kind = BeginObject
      <4>1. v \in NoRepeats /\ w \in NoRepeats
        BY <1>9, <2>1, <3>1
      <4>2. \A k \in D : Sorted(w)[k] \in D /\ p[Sorted(w)[k]] = Sorted(v)[k]
        BY <1>1, <3>1, <4>1, SortedSame
      <4> QED
        BY <3>1, <4>2
    <3>2. CASE v.kind # BeginObject
      BY <1>2, <3>2 DEF InOrder
    <3> QED
      BY <3>1, <3>2
  <2>6. \A k \in D : x(w)[o(w)[k]] = x(v)[o(v)[k]]
    <3> SUFFICES ASSUME NEW k \in D PROVE x(w)[o(w)[k]] = x(v)[o(v)[k]]
      OBVIOUS
    <3> DEFINE i == o(w)[k]
               j == o(v)[k]
    <3>1. i \in D /\ j = p[i] /\ j \in D
      BY <1>4, <2>5
    <3> HIDE DEF i, j
    <3>2. x(w)[i] = Write[n - 1][w.items[i]] /\ x(v)[j] = Write[n - 1][v.items[j]]
      BY <3>1
    <3>3. Write[n - 1][w.items[i]] = Write[n - 1][v.items[p[i]]]
      BY <1>6, <1>9, <3>1
    <3> QED
      BY <3>1, <3>2, <3>3 DEF i, j
  <2>7. \A k \in D : v.kind = BeginObject => w.names[o(w)[k]] = v.names[o(v)[k]]
    BY <1>1, <2>5
  <2>8. DOMAIN o(w) = D /\ DOMAIN o(v) = D
    BY <2>4
  <2> HIDE DEF x, o, fits, bad
  <2>9. Bracketed(w, x(w), o(w)) = Bracketed(v, x(v), o(v))
    BY <2>6, <2>7, <2>8, BracketedSame
  <2> QED
    BY <2>2, <2>3, <2>9
<1> QED
  BY <1>8, <1>9

\* The orders a value of a level can come in.
LEMMA OrdersHave ==
    ASSUME NEW n \in 0..Height, NEW v \in Value[n]
    PROVE  /\ ~IsContainer(v) => Orders[n][v] = {v}
           /\ IsContainer(v) => \A w :
                  w \in Orders[n][v] <=>
                      \E p \in Arrangements(v) :
                      \E c \in Picks([i \in DOMAIN v.items |-> Orders[n - 1][v.items[i]]]) :
                          w = Reordered(v, p, c)
<1> DEFINE of(u) == [i \in DOMAIN u.items |-> Orders[n - 1][u.items[i]]]
           body(u) == IF ~IsContainer(u) THEN {u} ELSE Rearranged(u, of(u))
<1>1. Orders[n] = [u \in Value[n] |-> body(u)]
  BY OrdersIs, Zenon
<1>2. Orders[n][v] = body(v)
  <2> HIDE DEF body
  <2> QED
    BY <1>1
<1>3. \A w : w \in Rearranged(v, of(v)) <=>
          \E p \in Arrangements(v) : \E c \in Picks(of(v)) : w = Reordered(v, p, c)
  <2> HIDE DEF of
  <2> QED
    BY DEF Rearranged, Reordered
<1> QED
  BY <1>2, <1>3

\* One of each.
LEMMA PicksAre ==
    ASSUME NEW D, NEW of, of = [i \in D |-> of[i]], NEW T, \A i \in D : of[i] \subseteq T, NEW c
    PROVE  c \in Picks(of) <=> c \in [D -> T] /\ \A i \in D : c[i] \in of[i]
<1>1. DOMAIN of = D
  OBVIOUS
<1>2. c \in Picks(of) <=> c \in [D -> UNION {of[i] : i \in D}] /\ \A i \in D : c[i] \in of[i]
  BY <1>1 DEF Picks
<1>3. ASSUME c \in [D -> UNION {of[i] : i \in D}], \A i \in D : c[i] \in of[i]
      PROVE  c \in [D -> T]
  BY <1>3
<1>4. ASSUME c \in [D -> T], \A i \in D : c[i] \in of[i]
      PROVE  c \in [D -> UNION {of[i] : i \in D}]
  BY <1>4
<1> QED
  BY <1>2, <1>3, <1>4

\* In any of them it is written the same.
LEMMA OrdersWrite ==
    \A n \in 0..Height : \A v \in Value[n] : \A w \in Orders[n][v] :
        w \in Value[n] /\ \A k \in 0..MaxDepth : Write[k][w] = Write[k][v]
<1> DEFINE Same(w, v) == \A k \in 0..MaxDepth : Write[k][w] = Write[k][v]
           Good(n, v) == \A w \in Orders[n][v] : w \in Value[n] /\ Same(w, v)
           T == {n \in Nat : n <= Height => \A v \in Value[n] : Good(n, v)}
<1>1. Height \in Nat
  BY DepthAssumption
<1>2. ASSUME NEW n \in 0..Height, NEW v \in Value[n], NEW w \in Orders[n][v],
             n > 0 => \A u \in Value[n - 1] : Good(n - 1, u)
      PROVE  w \in Value[n] /\ Same(w, v)
  <2>1. CASE ~IsContainer(v)
    BY <2>1, OrdersHave
  <2>2. CASE IsContainer(v)
    <3> DEFINE of == [i \in DOMAIN v.items |-> Orders[n - 1][v.items[i]]]
    <3>1. /\ n > 0 /\ n - 1 \in 0..Height /\ v \in Containers(Value[n - 1])
          /\ v \in Value[Height]
      BY <2>2, LevelIs
    <3>2. PICK p \in Arrangements(v), c \in Picks(of) : w = Reordered(v, p, c)
      BY <2>2, OrdersHave
    <3>3. \A i \in DOMAIN v.items : v.items[i] \in Value[n - 1]
      BY <3>1, ContainersIs
    <3>4. \A i \in DOMAIN v.items : of[i] \subseteq Value[n - 1]
      BY <1>2, <3>1, <3>3
    <3>5. of = [i \in DOMAIN v.items |-> of[i]]
      OBVIOUS
    <3>6. c \in [DOMAIN v.items -> Value[n - 1]] /\ \A i \in DOMAIN v.items : c[i] \in of[i]
      <4> DEFINE D == DOMAIN v.items
                 L == Value[n - 1]
      <4>1. of = [i \in D |-> of[i]] /\ (\A i \in D : of[i] \subseteq L) /\ c \in Picks(of)
        BY <3>4, <3>5
      <4> HIDE DEF of, D, L
      <4>2. c \in [D -> L] /\ \A i \in D : c[i] \in of[i]
        BY <4>1, PicksAre
      <4> QED
        BY <4>2 DEF D, L
    <3>7. ASSUME NEW k \in 0..MaxDepth, NEW i \in DOMAIN v.items
          PROVE  Write[k][c[i]] = Write[k][v.items[i]]
      <4>1. c[i] \in Orders[n - 1][v.items[i]] /\ v.items[i] \in Value[n - 1]
        BY <3>3, <3>6
      <4>2. Same(c[i], v.items[i])
        BY <1>2, <3>1, <4>1
      <4> QED
        BY <4>2
    <3>8. p \in Bijection(DOMAIN v.items, DOMAIN v.items)
      <4>1. v.kind = BeginObject => DOMAIN v.names = DOMAIN v.items
        BY <3>1, ContainersIs
      <4> QED
        BY <2>2, <3>1, <4>1, OrderIs DEF Arrangements, Orderings
    <3> HIDE DEF of
    <3>9. /\ w \in Containers(Value[n - 1]) /\ w.kind = v.kind
          /\ DOMAIN w.items = DOMAIN v.items /\ DOMAIN w.names = DOMAIN v.names
          /\ \A i \in DOMAIN v.items : p[i] \in DOMAIN v.items /\ w.items[i] = c[p[i]]
          /\ \A i \in DOMAIN v.names : w.names[i] = v.names[p[i]]
      BY <3>1, <3>2, <3>6, <3>8, ReorderedIs
    <3>10. w \in Value[n]
      <4>1. Value[n] = IF n = 0 THEN Leaves ELSE Leaves \cup Containers(Value[n - 1])
        BY ValueIs
      <4>2. n # 0
        BY <3>1
      <4> QED
        BY <3>9, <4>1, <4>2
    <3>11. w \in Value[Height] /\ IsContainer(w)
      BY <3>9, <3>10, LevelIs, ContainersIs
    <3>12. Same(w, v)
      BY <2>2, <3>1, <3>7, <3>9, <3>11, ReorderedWrites
    <3> QED
      BY <3>10, <3>12
  <2> QED
    BY <2>1, <2>2
<1> HIDE DEF Same
<1>3. 0 \in T
  BY <1>1, <1>2
<1>4. ASSUME NEW n \in Nat, n \in T PROVE n + 1 \in T
  <2> SUFFICES ASSUME n + 1 <= Height, NEW v \in Value[n + 1] PROVE Good(n + 1, v)
    OBVIOUS
  <2>1. n + 1 \in 0..Height /\ n <= Height /\ (n + 1) - 1 = n
    BY <1>1
  <2>2. \A u \in Value[(n + 1) - 1] : Good((n + 1) - 1, u)
    BY <1>4, <2>1
  <2> QED
    BY <1>2, <2>1, <2>2
<1> HIDE DEF T
<1>5. Nat \subseteq T
  BY <1>3, <1>4, NatInduct
<1>6. \A n \in 0..Height : \A v \in Value[n] : Good(n, v)
  BY <1>1, <1>5 DEF T
<1> QED
  BY <1>6 DEF Same

\* What MembersAreUnordered says of a value.
LEMMA Unordered ==
    ASSUME NEW v \in Value[Height]
    PROVE  /\ \A w \in Reorderings(v) : WriteValue(w, 0) = WriteValue(v, 0)
           /\ WriteValue(v, 0) # Bad <=> InDomain(v)
<1>1. /\ Height \in 0..Height /\ MaxDepth \in 0..MaxDepth /\ MaxDepth - 0 = MaxDepth
  BY DepthAssumption
<1>2. \A w \in Reorderings(v) : WriteValue(w, 0) = WriteValue(v, 0)
  BY <1>1, OrdersWrite DEF Reorderings, WriteValue
<1>3. WriteValue(v, 0) # Bad <=> InDomain(v)
  BY <1>1, WriteDomain DEF InDomain, WriteValue
<1> QED
  BY <1>2, <1>3

-----------------------------------------------------------------------------
(* The frames have values in them. *)

\* Frames of calls that may nest limit containers: the items of each fit in those left.
FrameTyped(f, n) == f.names \in Seq(Names) /\ f.items \in Seq(Value[n])
Typed(o, limit) == \A k \in 1..Len(o) : FrameTyped(o[k], limit + 1 - k)

\* The call at the bottom gets one value, at the end.
Bottom(o, p) ==
    p # "failed" => Len(o[1].items) = IF Len(o) = 1 /\ p \in {"after", "parsed"} THEN 1 ELSE 0

LEMMA FreshTyped ==
    ASSUME NEW limit \in 0..Height
    PROVE  Typed(<<Frame("text")>>, limit) /\ Bottom(<<Frame("text")>>, "value")
<1> DEFINE f == Frame("text")
           o == <<f>>
<1>1. f.names = <<>> /\ f.items = <<>>
  BY DEF Frame
<1> HIDE DEF f
<1>2. Len(o) = 1 /\ o[1] = f
  OBVIOUS
<1> HIDE DEF o
<1>3. \A S : <<>> \in Seq(S)
  OBVIOUS
<1>4. ASSUME NEW k \in 1..Len(o) PROVE FrameTyped(o[k], limit + 1 - k)
  <2>1. o[k] = f
    BY <1>2
  <2>2. FrameTyped(f, limit + 1 - k)
    BY <1>1, <1>3, Zenon DEF FrameTyped
  <2> QED
    BY <2>1, <2>2
<1>6. Typed(o, limit)
  BY <1>4 DEF Typed
<1>5. Bottom(o, "value")
  <2>1. Len(o[1].items) = 0 /\ "value" \notin {"after", "parsed"}
    BY <1>1, <1>2
  <2> QED
    BY <2>1, Zenon DEF Bottom
<1> QED
  BY <1>5, <1>6 DEF f, o

\* A value is delivered.
LEMMA DeliveredTyped ==
    ASSUME NEW n \in 0..Height, NEW f, FrameOK(f), FrameTyped(f, n), NEW v \in Value[n]
    PROVE  LET g == Delivered(f, v) IN
           /\ FrameTyped(g, n)
           /\ f.kind # BeginObject => Len(g.items) = Len(f.items) + 1
<1> DEFINE m == Len(f.names)
           E == {i \in 1..(m - 1) : f.names[i] = f.names[m]}
           g == Delivered(f, v)
           S == Value[n]
<1>1. f = [kind |-> f.kind, names |-> f.names, items |-> f.items]
  BY DEF FrameOK
<1>2. f.names \in Seq(Names) /\ f.items \in Seq(S) /\ v \in S
  BY DEF FrameTyped
<1> HIDE DEF S
<1>3. CASE f.kind = BeginObject /\ E # {}
  <2> DEFINE a == SubSeq(f.names, 1, m - 1)
             b == [i \in DOMAIN f.items |-> IF i \in E THEN v ELSE f.items[i]]
  <2>1. g = [kind |-> f.kind, names |-> a, items |-> b]
    BY <1>1, <1>3 DEF Delivered
  <2>2. a \in Seq(Names)
    <3>1. m \in Nat /\ \A i \in 1..(m - 1) : f.names[i] \in Names
      BY <1>2
    <3> QED
      BY <1>2, <3>1
  <2>3. b \in Seq(S)
    <3>1. Len(f.items) \in Nat /\ DOMAIN f.items = 1..Len(f.items)
          /\ \A i \in DOMAIN f.items : f.items[i] \in S
      BY <1>2
    <3>2. b \in [1..Len(f.items) -> S]
      BY <1>2, <3>1
    <3> HIDE DEF b
    <3> QED
      BY <3>1, <3>2
  <2> HIDE DEF a, b, g
  <2> QED
    BY <1>3, <2>1, <2>2, <2>3 DEF FrameTyped, S, g
<1>4. CASE ~(f.kind = BeginObject /\ E # {})
  <2>1. g = [kind |-> f.kind, names |-> f.names, items |-> Append(f.items, v)]
    BY <1>1, <1>4 DEF Delivered
  <2>2. Append(f.items, v) \in Seq(S) /\ Len(Append(f.items, v)) = Len(f.items) + 1
    BY <1>2
  <2> HIDE DEF g
  <2> QED
    BY <1>2, <2>1, <2>2 DEF FrameTyped, S, g
<1> QED
  BY <1>3, <1>4

\* Another frame on top.
LEMMA TopTyped ==
    ASSUME NEW o, Sequence(o), Len(o) >= 1, NEW limit, Typed(o, limit),
           NEW f, FrameTyped(f, limit + 1 - Len(o))
    PROVE  Typed(Append(SubSeq(o, 1, Len(o) - 1), f), limit)
<1> DEFINE t == Append(SubSeq(o, 1, Len(o) - 1), f)
<1>1. Len(t) = Len(o) /\ (\A i \in 1..(Len(o) - 1) : t[i] = o[i]) /\ t[Len(o)] = f
  BY Replaced
<1>2. Len(o) \in Nat
  BY SequenceLen
<1> HIDE DEF t
<1>3. ASSUME NEW k \in 1..Len(t) PROVE FrameTyped(t[k], limit + 1 - k)
  <2>1. CASE k = Len(o)
    BY <1>1, <2>1
  <2>2. CASE k # Len(o)
    <3>1. k \in 1..(Len(o) - 1) /\ k \in 1..Len(o)
      BY <1>1, <1>2, <2>2
    <3> QED
      BY <1>1, <3>1 DEF Typed
  <2> QED
    BY <2>1, <2>2
<1> QED
  BY <1>3 DEF t, Typed

\* A lexeme that is no punctuation and well-formed reads as a leaf.
LEMMA LeafRead ==
    ASSUME NEW p \in Paths, NEW l \in Lexemes, Read[p][l].kind \in Kinds
    PROVE  /\ Leaf(Read[p][l]) \in Leaves
           /\ Read[p][l].kind = "string" => Read[p][l].is \in Names
<1> DEFINE r == Read[p][l]
<1>1. Leaf(r) \in Leaves
  <2>1. r \in Readings
    BY DEF Readings
  <2> HIDE DEF r
  <2> QED
    BY <2>1 DEF Leaves
<1>2. Leaf(r).kind = r.kind /\ Leaf(r).is = r.is
  BY DEF Leaf
<1> HIDE DEF r
<1>3. r.kind = "string" => r.is \in Names
  BY <1>1, <1>2 DEF Names
<1> QED
  BY <1>1, <1>3 DEF r

\* What an action delivers: a lexeme that has a value is a leaf.
LEMMA LexemeIs ==
    ASSUME text \in Seq(Tokens), pos \in 1..(Len(text) + 1), path \in Paths, Kind \in Kinds
    PROVE  /\ Lexeme \in Lexemes /\ Leaf(Read[path][Lexeme]) \in Leaves
           /\ Kind = Read[path][Lexeme].kind
           /\ Kind = "string" => Read[path][Lexeme].is \in Names
<1>1. Lexeme \notin Punctuation
  <2>1. Kinds \cap Punctuation = {}
    BY DEF Kinds, Punctuation, BeginObject, BeginArray
  <2>2. Lexeme \in Punctuation => Kind = Lexeme
    BY Zenon DEF Kind
  <2> QED
    BY <2>1, <2>2
<1>2. Lexeme \in Tokens \/ Lexeme = "end"
  BY DEF Lexeme
<1>3. Lexeme # "end"
  BY <1>1 DEF Punctuation
<1>4. Lexeme \in Lexemes
  BY <1>1, <1>2, <1>3 DEF Tokens
<1>5. Kind = Read[path][Lexeme].kind
  BY <1>1, Zenon DEF Kind
<1> QED
  BY <1>4, <1>5, LeafRead

\* How many containers the value under way may nest.
Room == IF path = "built" THEN Height ELSE Limit[path]

TInv ==
    /\ text \in Seq(Tokens)
    /\ Typed(open, Room)
    /\ Bottom(open, pc)
    /\ pc = "parsed" => Len(open) = 1
    /\ path = "built" => Ended

\* The levels of the frames are there.
LEMMA RoomIs ==
    ASSUME IInv, TInv, ~Ended
    PROVE  /\ Room = Limit[path] /\ Room \in 0..Height
           /\ Len(open) \in Nat /\ Len(open) >= 1 /\ Sequence(open)
           /\ \A k \in 1..Len(open) : Room + 1 - k \in 0..Height
           /\ Depth = Len(open) - 1
<1>1. Room = Limit[path] /\ path \in Paths
  BY DEF TInv, Room, IInv
<1>2. Limit[path] \in Nat /\ Limit[path] <= Height /\ Height \in Nat
  BY <1>1, LimitAssumption, DepthAssumption
<1>3. Len(open) \in Nat /\ Len(open) >= 1 /\ Sequence(open)
  BY SequenceLen DEF IInv, StackOK
<1>4. Len(open) - 1 <= Limit[path]
  BY DEF IInv, DepthIsBounded, Depth
<1>5. \A k \in 1..Len(open) : Room + 1 - k \in 0..Height
  BY <1>1, <1>2, <1>3, <1>4
<1> QED
  BY <1>1, <1>2, <1>3, <1>5 DEF Depth

\* The parser goes on with the same text, on the same path.
LEMMA TypedOn ==
    ASSUME TInv, path' = path, text' = text, Typed(open', Room), Bottom(open', pc'),
           pc' # "parsed", ~Ended
    PROVE  TInv'
<1>1. Room' = Room
  BY DEF Room
<1>2. path # "built"
  BY DEF TInv
<1>3. Typed(open, Room)'
  BY <1>1 DEF Typed
<1>4. Bottom(open, pc)'
  BY DEF Bottom
<1> QED
  BY <1>2, <1>3, <1>4 DEF TInv

\* The bottom frame, when another frame takes the place of the top.
LEMMA TopBottom ==
    ASSUME NEW o, Sequence(o), Len(o) >= 1, NEW f,
           NEW p, NEW q, Bottom(o, p), p # "failed",
           Len(o) = 1 => Len(f.items) = IF q \in {"after", "parsed"} THEN 1 ELSE 0
    PROVE  Bottom(Append(SubSeq(o, 1, Len(o) - 1), f), q)
<1> DEFINE t == Append(SubSeq(o, 1, Len(o) - 1), f)
<1>1. Len(t) = Len(o) /\ (\A i \in 1..(Len(o) - 1) : t[i] = o[i]) /\ t[Len(o)] = f
  BY Replaced
<1>2. Len(o) \in Nat
  BY SequenceLen
<1> HIDE DEF t
<1>3. CASE Len(o) = 1
  BY <1>1, <1>3 DEF Bottom
<1>4. CASE Len(o) # 1
  <2>1. 1 \in 1..(Len(o) - 1)
    BY <1>2, <1>4
  <2>2. t[1] = o[1] /\ Len(o[1].items) = 0
    BY <1>1, <1>4, <2>1 DEF Bottom
  <2> QED
    BY <1>1, <1>4, <2>2 DEF Bottom
<1> QED
  BY <1>3, <1>4 DEF t

\* The frame that waits for a value gets it.
LEMMA ScalarTyped ==
    ASSUME NEW o, NEW p, StackOK(o, p), Due(o, p), NEW limit, Typed(o, limit), Bottom(o, p),
           limit + 1 - Len(o) \in 0..Height, NEW v \in Value[limit + 1 - Len(o)]
    PROVE  LET t == Append(SubSeq(o, 1, Len(o) - 1), Delivered(o[Len(o)], v)) IN
           Typed(t, limit) /\ Bottom(t, "after")
<1> DEFINE n == limit + 1 - Len(o)
           f == o[Len(o)]
           g == Delivered(f, v)
           t == Append(SubSeq(o, 1, Len(o) - 1), g)
<1>1. Len(o) \in Nat /\ Len(o) >= 1 /\ Sequence(o) /\ p # "failed"
  BY SequenceLen DEF StackOK, Due
<1>2. FrameOK(f)
  BY DueIsAhead
<1>3. FrameTyped(f, n)
  BY <1>1 DEF Typed
<1>4. Len(o) = 1 => f.kind # BeginObject /\ Len(f.items) = 0
  <2> SUFFICES ASSUME Len(o) = 1 PROVE f.kind # BeginObject /\ Len(f.items) = 0
    OBVIOUS
  <2>1. f = o[1] /\ f.kind # BeginObject
    BY TokenKinds DEF StackOK
  <2>2. p \notin {"after", "parsed"}
    BY DEF Due
  <2> QED
    BY <1>1, <2>1, <2>2 DEF Bottom
<1> HIDE DEF n, f
<1>5. FrameTyped(g, n) /\ (f.kind # BeginObject => Len(g.items) = Len(f.items) + 1)
  <2>1. n \in 0..Height /\ v \in Value[n]
    BY DEF n
  <2> QED
    BY <1>2, <1>3, <2>1, DeliveredTyped
<1> HIDE DEF g
<1>6. Typed(t, limit)
  BY <1>1, <1>5, TopTyped DEF n
<1>7. Bottom(t, "after")
  <2> DEFINE q == "after"
  <2>1. Len(o) = 1 => Len(g.items) = IF q \in {"after", "parsed"} THEN 1 ELSE 0
    <3>1. q \in {"after", "parsed"}
      OBVIOUS
    <3> HIDE DEF q
    <3>2. Len(o) = 1 => Len(f.items) = 0 /\ Len(g.items) = Len(f.items) + 1
      BY <1>4, <1>5, Zenon
    <3>3. Len(o) = 1 => Len(g.items) = 1
      <4> DEFINE a == Len(g.items)
                 b == Len(f.items)
      <4>1. Len(o) = 1 => b = 0 /\ a = b + 1
        BY <3>2
      <4> HIDE DEF a, b
      <4>2. Len(o) = 1 => a = 1
        BY <4>1
      <4> QED
        BY <4>2 DEF a
    <3> QED
      BY <3>1, <3>3
  <2> HIDE DEF q
  <2>2. Bottom(t, q)
    BY <1>1, <2>1, TopBottom
  <2> QED
    BY <2>2 DEF q
<1> QED
  BY <1>6, <1>7 DEF t, g, f

LEMMA TypedTop ==
    ASSUME IInv, TInv, ~Ended, Due(open, pc),
           NEW v \in Value[Room + 1 - Len(open)],
           open' = Append(SubSeq(open, 1, Len(open) - 1), Delivered(open[Len(open)], v)),
           Bump("after")
    PROVE  TInv'
<1>1. Room + 1 - Len(open) \in 0..Height
  BY RoomIs
<1>2. StackOK(open, pc) /\ Typed(open, Room) /\ Bottom(open, pc)
  BY DEF IInv, TInv
<1>3. Typed(open', Room) /\ Bottom(open', "after")
  BY <1>1, <1>2, ScalarTyped
<1>4. pc' = "after" /\ path' = path /\ text' = text
  BY DEF Bump
<1>5. Bottom(open', pc') /\ pc' # "parsed"
  BY <1>3, <1>4
<1> QED
  BY <1>3, <1>4, <1>5, TypedOn

\* The call that returns has a value of its level.
LEMMA ClosedTyped ==
    ASSUME IInv, TInv, pc \in {"first", "after"}, Len(open) >= 2
    PROVE  /\ Room + 1 - (Len(open) - 1) \in 0..Height
           /\ Top \in Value[Room + 1 - (Len(open) - 1)]
<1> DEFINE m == Room + 1 - Len(open)
<1>1. ~Ended /\ pc # "failed"
  BY DEF Ended
<1>2. /\ Room \in 0..Height /\ Height \in Nat /\ Len(open) \in Nat
      /\ \A k \in 1..Len(open) : Room + 1 - k \in 0..Height
  BY <1>1, RoomIs, DepthAssumption
<1>3. StackOK(open, pc) /\ Typed(open, Room)
  BY DEF IInv, TInv
<1>4. m \in 0..Height /\ m + 1 \in 0..Height /\ m + 1 = Room + 1 - (Len(open) - 1) /\ (m + 1) - 1 = m
  BY <1>2
<1>5. FrameTyped(Top, m)
  BY <1>2, <1>3, <1>4 DEF Top, Typed
<1> HIDE DEF m
<1>6. FrameOK(Top) /\ Top.kind \in {BeginObject, BeginArray} /\ Even(Top)
  BY <1>1, <1>2, <1>3, <1>4 DEF StackOK, Top
<1>7. Len(Top.names) = IF Top.kind = BeginObject THEN Len(Top.items) ELSE 0
  <2>1. Top.kind # BeginObject => Len(Top.names) = 0
    BY <1>6 DEF FrameOK
  <2> QED
    BY <1>6, <2>1 DEF Even
<1>8. Top \in Containers(Value[m])
  BY <1>5, <1>6, <1>7 DEF Containers, FrameTyped, FrameOK
<1>9. Value[m + 1] = IF m + 1 = 0 THEN Leaves ELSE Leaves \cup Containers(Value[(m + 1) - 1])
  BY <1>4, ValueIs
<1>10. Top \in Value[m + 1]
  BY <1>4, <1>8, <1>9
<1> QED
  BY <1>4, <1>10

\* A container closes.
LEMMA TypedClose ==
    ASSUME IInv, TInv, pc \in {"first", "after"}, Len(open) >= 2,
           open' = Append(SubSeq(open, 1, Len(open) - 2), Delivered(open[Len(open) - 1], Top)),
           Bump("after")
    PROVE  TInv'
<1> DEFINE n == Len(open) - 1
           b == SubSeq(open, 1, n)
           q == "value"
<1>1. ~Ended /\ pc # "failed"
  BY DEF Ended
<1>2. /\ Room \in 0..Height /\ Height \in Nat
      /\ Len(open) \in Nat /\ Sequence(open)
      /\ \A k \in 1..Len(open) : Room + 1 - k \in 0..Height
  BY <1>1, RoomIs, DepthAssumption
<1>3. StackOK(open, pc) /\ Typed(open, Room) /\ Bottom(open, pc)
  BY DEF IInv, TInv
<1>4. n \in 0..Len(open) /\ n >= 1 /\ n = Len(open) - 1 /\ n + 1 = Len(open)
  BY <1>2
<1>5. /\ Sequence(b) /\ Len(b) = n
      /\ \A i \in 1..n : b[i] = open[i]
  BY <1>2, <1>4, Prefix
<1>6. SubSeq(b, 1, n - 1) = SubSeq(open, 1, Len(open) - 2)
  BY <1>2, PrefixOfPrefix
<1> HIDE DEF b, n
<1>7. StackOK(b, q) /\ Due(b, q)
  <2>1. \A k \in 1..n : b[k] = open[k] /\ Ahead(open[k]) /\ FrameOK(open[k])
    BY <1>1, <1>2, <1>3, <1>4, <1>5 DEF StackOK
  <2>2. /\ Sequence(b) /\ Len(b) = n /\ Len(b) >= 1 /\ n \in 1..n
        /\ b[1].kind = "text"
        /\ \A k \in 2..n : b[k].kind \in {BeginObject, BeginArray}
    BY <1>2, <1>3, <1>4, <1>5 DEF StackOK
  <2>3. q = "value" /\ \A k \in 1..(n - 1) : k \in 1..n
    BY <1>2, <1>4
  <2> HIDE DEF q
  <2> QED
    BY <2>1, <2>2, <2>3 DEF StackOK, Due
<1>8. Typed(b, Room)
  <2> SUFFICES ASSUME NEW k \in 1..Len(b) PROVE FrameTyped(b[k], Room + 1 - k)
    BY DEF Typed
  <2>1. k \in 1..n /\ k \in 1..Len(open)
    BY <1>2, <1>4, <1>5
  <2> QED
    BY <1>3, <1>5, <2>1 DEF Typed
<1>9. Bottom(b, q)
  <2>1. Len(open[1].items) = 0
    <3>1. Len(open) # 1
      BY <1>2
    <3> QED
      BY <1>1, <1>3, <3>1 DEF Bottom
  <2>2. b[1] = open[1]
    BY <1>4, <1>5
  <2>3. q \notin {"after", "parsed"}
    OBVIOUS
  <2> QED
    BY <2>1, <2>2, <2>3 DEF Bottom
<1>10. Room + 1 - Len(b) \in 0..Height /\ Top \in Value[Room + 1 - Len(b)]
  BY <1>4, <1>5, ClosedTyped
<1> HIDE DEF q
<1>11. LET t == Append(SubSeq(b, 1, Len(b) - 1), Delivered(b[Len(b)], Top)) IN
       Typed(t, Room) /\ Bottom(t, "after")
  BY <1>7, <1>8, <1>9, <1>10, ScalarTyped
<1>12. open' = Append(SubSeq(b, 1, Len(b) - 1), Delivered(b[Len(b)], Top))
  BY <1>4, <1>5, <1>6
<1>13. pc' = "after" /\ path' = path /\ text' = text
  BY DEF Bump
<1>14. Typed(open', Room) /\ Bottom(open', pc') /\ pc' # "parsed"
  BY <1>11, <1>12, <1>13
<1> QED
  BY <1>1, <1>13, <1>14, TypedOn

\* The same frames, and something else is due.
LEMMA TypedSame ==
    ASSUME IInv, TInv, ~Ended, open' = open, path' = path, text' = text, pc' # "parsed",
           pc' # "failed" /\ Len(open) = 1 =>
               (pc \in {"after", "parsed"} <=> pc' \in {"after", "parsed"})
    PROVE  TInv'
<1>1. Typed(open', Room)
  BY DEF TInv
<1>2. pc # "failed"
  BY DEF Ended
<1>3. Bottom(open, pc)
  BY DEF TInv
<1>4. Bottom(open', pc')
  BY <1>2, <1>3 DEF Bottom
<1> QED
  BY <1>1, <1>4, TypedOn

LEMMA TypedFail == IInv /\ TInv /\ ~Ended /\ Fail => TInv'
<1> SUFFICES ASSUME IInv, TInv, ~Ended, Fail PROVE TInv'
  OBVIOUS
<1>1. open' = open /\ path' = path /\ text' = text /\ pc' = "failed"
  BY DEF Fail
<1> QED
  BY <1>1, TypedSame

\* A container opens.
LEMMA TypedPush ==
    ASSUME IInv, TInv, ~Ended, Due(open, pc), ~TooDeep, NEW kind,
           open' = Append(open, Frame(kind)), Bump("first")
    PROVE  TInv'
<1>1. /\ Room = Limit[path] /\ Room \in 0..Height
      /\ Len(open) \in Nat /\ Len(open) >= 1 /\ Sequence(open)
      /\ Depth = Len(open) - 1
  BY RoomIs
<1>2. /\ Len(open') = Len(open) + 1
      /\ \A i \in 1..Len(open) : open'[i] = open[i]
      /\ open'[Len(open) + 1] = Frame(kind)
  BY <1>1, Appended
<1>3. \A n : FrameTyped(Frame(kind), n)
  <2>1. Frame(kind).names = <<>> /\ Frame(kind).items = <<>>
    BY DEF Frame
  <2>2. \A S : <<>> \in Seq(S)
    OBVIOUS
  <2> QED
    BY <2>1, <2>2, Zenon DEF FrameTyped
<1>4. Typed(open', Room)
  <2> SUFFICES ASSUME NEW k \in 1..Len(open') PROVE FrameTyped(open'[k], Room + 1 - k)
    BY DEF Typed
  <2>1. CASE k = Len(open) + 1
    BY <1>2, <1>3, <2>1
  <2>2. CASE k # Len(open) + 1
    <3>1. k \in 1..Len(open)
      BY <1>1, <1>2, <2>2
    <3> QED
      BY <1>2, <3>1 DEF TInv, Typed
  <2> QED
    BY <2>1, <2>2
<1>5. Bottom(open', "first")
  <2>1. Len(open[1].items) = 0
    BY DEF TInv, Bottom, Due
  <2>2. open'[1] = open[1] /\ Len(open') # 1
    BY <1>1, <1>2
  <2> QED
    BY <2>1, <2>2 DEF Bottom
<1>6. pc' = "first" /\ path' = path /\ text' = text
  BY DEF Bump
<1> QED
  BY <1>4, <1>5, <1>6, TypedOn

\* A name is read.
LEMMA TypedName ==
    ASSUME IInv, TInv, NameDue, NEW name \in Names,
           open' = WithTop([Top EXCEPT !.names = Append(@, name)]), Bump("colon")
    PROVE  TInv'
<1>1. ~Ended /\ pc \in {"first", "name"}
  BY DEF NameDue, Ended
<1>2. /\ Len(open) \in Nat /\ Len(open) >= 1 /\ Sequence(open)
  BY <1>1, RoomIs
<1>3. StackOK(open, pc) /\ FrameOK(Top) /\ pc # "failed"
  BY <1>1, <1>2 DEF IInv, StackOK, Top
<1> DEFINE g == [Top EXCEPT !.names = Append(@, name)]
           n == Room + 1 - Len(open)
<1>4. g.names = Append(Top.names, name) /\ g.items = Top.items
  BY <1>3 DEF FrameOK
<1>5. FrameTyped(Top, n)
  BY <1>2 DEF TInv, Typed, Top
<1>6. open' = Append(SubSeq(open, 1, Len(open) - 1), g)
  BY DEF WithTop, Below
<1> HIDE DEF g, n
<1>7. FrameTyped(g, n)
  BY <1>4, <1>5 DEF FrameTyped
<1>8. Typed(open', Room)
  BY <1>2, <1>6, <1>7, TopTyped DEF n, TInv
<1>9. Bottom(open', "colon")
  <2> DEFINE q == "colon"
  <2>1. Len(open) = 1 => Len(g.items) = IF q \in {"after", "parsed"} THEN 1 ELSE 0
    <3> SUFFICES ASSUME Len(open) = 1 PROVE Len(g.items) = 0
      OBVIOUS
    <3>1. Top = open[1]
      BY DEF Top
    <3> QED
      BY <1>1, <1>4, <3>1 DEF TInv, Bottom
  <2>2. Bottom(open, pc)
    BY DEF TInv
  <2> HIDE DEF q
  <2>3. Bottom(open', q)
    BY <1>2, <1>3, <1>6, <2>1, <2>2, TopBottom
  <2> QED
    BY <2>3 DEF q
<1>10. pc' = "colon" /\ path' = path /\ text' = text
  BY DEF Bump
<1>11. Bottom(open', pc') /\ pc' # "parsed"
  BY <1>9, <1>10
<1> QED
  BY <1>1, <1>8, <1>10, <1>11, TypedOn

\* Each action of the parser keeps the values in their sets.
LEMMA TypedNext == IInv /\ TInv /\ Next => TInv'
<1> SUFFICES ASSUME IInv, TInv, Next PROVE TInv'
  OBVIOUS
<1>1. /\ Len(text) \in Nat /\ pos \in 1..(Len(text) + 1) /\ path \in Paths
      /\ Len(open) \in Nat /\ Len(open) >= 1
      /\ text \in Seq(Tokens)
  BY SequenceLen DEF IInv, StackOK, TInv
<1>2. CASE SkipWs
  <2>1. ~Ended /\ pc' = pc /\ path' = path /\ text' = text /\ open' = open
    BY <1>2, SkipWsMoves DEF Bump
  <2>2. pc' # "parsed"
    BY <2>1 DEF Ended
  <2> QED
    BY <2>1, <2>2, TypedSame
<1>3. CASE Scalar
  <2> DEFINE v == Leaf(Read[path][Lexeme])
  <2>1. /\ Due(open, pc) /\ Kind \in Kinds /\ Bump("after")
        /\ open' = Append(SubSeq(open, 1, Len(open) - 1), Delivered(open[Len(open)], v))
    BY <1>3, Zenon DEF Scalar, ValueDue, Due, Top, WithTop, Below
  <2>2. v \in Leaves
    BY <1>1, <2>1, LexemeIs
  <2>3. ~Ended
    BY <2>1 DEF Due, Ended
  <2>4. Room + 1 - Len(open) \in 0..Height
    BY <1>1, <2>3, RoomIs
  <2>5. v \in Value[Room + 1 - Len(open)]
    <3> DEFINE n == Room + 1 - Len(open)
    <3>1. Value[n] = IF n = 0 THEN Leaves ELSE Leaves \cup Containers(Value[n - 1])
      BY <2>4, ValueIs
    <3> QED
      BY <2>2, <3>1
  <2> HIDE DEF v
  <2> QED
    BY <2>1, <2>3, <2>5, TypedTop
<1>4. CASE OpenContainer
  <2>1. Due(open, pc) /\ Bump("first") /\ open' = Append(open, Frame(Lexeme)) /\ ~TooDeep
    BY <1>4, OpenMoves
  <2>2. ~Ended
    BY <2>1 DEF Due, Ended
  <2> QED
    BY <2>1, <2>2, TypedPush
<1>5. CASE Name
  <2> DEFINE name == Read[path][Lexeme].is
  <2>1. /\ NameDue /\ Kind = "string" /\ Bump("colon")
        /\ open' = WithTop([Top EXCEPT !.names = Append(@, name)])
    BY <1>5, Zenon DEF Name
  <2>2. "string" \in Kinds
    BY DEF Kinds
  <2>3. name \in Names
    BY <1>1, <2>1, <2>2, LexemeIs
  <2> HIDE DEF name
  <2> QED
    BY <2>1, <2>3, TypedName
<1>6. CASE Colon
  <2>1. pc = "colon" /\ ~Ended
    BY <1>6, ColonMoves DEF Ended
  <2>2. CASE Fail
    BY <2>1, <2>2, TypedFail
  <2>3. CASE Bump("value") /\ open' = open
    <3>1. pc' = "value" /\ path' = path /\ text' = text
      BY <2>3 DEF Bump
    <3>2. pc' # "parsed" /\ (pc \in {"after", "parsed"} <=> pc' \in {"after", "parsed"})
      BY <2>1, <3>1
    <3> QED
      BY <2>1, <2>3, <3>1, <3>2, TypedSame
  <2> QED
    BY <1>6, <2>2, <2>3, ColonMoves
<1>7. CASE Comma
  <2>1. pc = "after" /\ ~Ended /\ open' = open
    BY <1>7, CommaMoves DEF Ended
  <2>2. Len(open) # 1
    <3>1. Depth > 0
      BY <1>7, Zenon DEF Comma
    <3> DEFINE n == Len(open)
    <3>2. n \in Nat /\ n - 1 > 0
      BY <1>1, <3>1 DEF Depth
    <3> HIDE DEF n
    <3>3. n # 1
      BY <3>2
    <3> QED
      BY <3>3 DEF n
  <2>3. pc' # "parsed" /\ path' = path /\ text' = text
    BY <1>7, CommaMoves DEF Bump
  <2> QED
    BY <2>1, <2>2, <2>3, TypedSame
<1>8. CASE CloseContainer
  <2>1. /\ pc \in {"first", "after"} /\ Len(open) >= 2 /\ Bump("after")
        /\ open' = Append(SubSeq(open, 1, Len(open) - 2),
                          Delivered(open[Len(open) - 1], Top))
    BY <1>1, <1>8, CloseMoves DEF Depth
  <2> QED
    BY <2>1, TypedClose
<1>9. CASE EndOfText
  <2>1. pc = "after" /\ ~Ended
    BY <1>9, Stops DEF Ended
  <2>2. CASE Fail
    BY <2>1, <2>2, TypedFail
  <2>3. CASE pc' = "parsed" /\ UNCHANGED <<path, text, pos, open>>
    <3>1. Len(open) = 1
      <4>1. Depth = 0
        BY <1>9, Zenon DEF EndOfText
      <4> DEFINE n == Len(open)
      <4>2. n \in Nat /\ n - 1 = 0
        BY <1>1, <4>1 DEF Depth
      <4> HIDE DEF n
      <4>3. n = 1
        BY <4>2
      <4> QED
        BY <4>3 DEF n
    <3>2. Room' = Room
      BY <2>3 DEF Room
    <3>3. Typed(open, Room)'
      BY <2>3, <3>2 DEF TInv, Typed
    <3>4. Bottom(open, pc)'
      BY <2>1, <2>3 DEF TInv, Bottom
    <3>5. Ended'
      BY <2>3 DEF Ended
    <3> QED
      BY <2>3, <3>1, <3>3, <3>4, <3>5 DEF TInv
  <2> QED
    BY <1>9, <2>2, <2>3, Stops
<1>10. CASE NoValue \/ NoName \/ NoComma
  <2>1. Fail /\ ~Ended
    BY <1>10, Stops
  <2> QED
    BY <2>1, TypedFail
<1> QED
  BY <1>2, <1>3, <1>4, <1>5, <1>6, <1>7, <1>8, <1>9, <1>10 DEF Next

-----------------------------------------------------------------------------
(* One path after the other. *)

FormsOK ==
    /\ \A p \in DOMAIN forms : forms[p] \in Seq(Tokens)
    /\ path = "serde" => "raw" \in DOMAIN forms

CInv == IInv /\ TInv /\ FormsOK

\* What is parsed is a value.
LEMMA ResultIs == CInv /\ pc = "parsed" => Result \in Value[Height]
<1> SUFFICES ASSUME CInv, pc = "parsed" PROVE Result \in Value[Height]
  OBVIOUS
<1>1. Len(open) = 1 /\ Typed(open, Room) /\ Bottom(open, pc) /\ path \in Paths
  BY DEF CInv, TInv, IInv
<1>2. Len(open[1].items) = 1 /\ FrameTyped(open[1], Room + 1 - 1)
  BY <1>1 DEF Bottom, Typed
<1>3. Room \in 0..Height /\ Height \in 0..Height /\ Room <= Height
  BY <1>1, LimitAssumption, DepthAssumption DEF Room
<1>4. Room + 1 - 1 = Room
  BY <1>3
<1>5. Result \in Value[Room]
  BY <1>2, <1>4 DEF FrameTyped, Result
<1>6. Value[Room] \subseteq Value[Height]
  BY <1>3, ValueGrows
<1> QED
  BY <1>5, <1>6

\* What it is written as is a text.
LEMMA FormIs == CInv => Form \in Seq(Tokens)
<1> SUFFICES ASSUME CInv PROVE Form \in Seq(Tokens)
  OBVIOUS
<1>1. Bad \in Seq(Tokens)
  BY DEF Bad
<1>2. MaxDepth \in 0..MaxDepth /\ MaxDepth - 0 = MaxDepth
  BY DepthAssumption
<1>3. pc = "parsed" => WriteValue(Result, 0) \in Seq(Tokens)
  BY <1>2, ResultIs, WriteDomain DEF WriteValue
<1> QED
  BY <1>1, <1>3, Zenon DEF Form

\* A path starts with its text.
LEMMA RestartOK ==
    ASSUME NEW p \in Paths \ {"built"}, NEW t \in Seq(Tokens), Restart(p, t)
    PROVE  (IInv /\ TInv)'
<1>1. path' = p /\ text' = t /\ pos' = 1 /\ pc' = "value" /\ open' = <<Frame("text")>>
  BY DEF Restart
<1>2. StackOK(open', pc') /\ Unique(open') /\ Len(open') = 1
  BY <1>1, FreshOK
<1>3. Limit[p] \in Nat /\ Limit[p] \in 0..Height
  BY LimitAssumption, DepthAssumption
<1>4. Room' = Limit[p]
  BY <1>1 DEF Room
<1>5. Typed(open', Limit[p]) /\ Bottom(open', pc')
  BY <1>1, <1>3, FreshTyped
<1>6. DepthIsBounded'
  BY <1>1, <1>2, <1>3 DEF DepthIsBounded, Depth
<1>7. Len(t) \in Nat
  OBVIOUS
<1>8. IInv'
  BY <1>1, <1>2, <1>6, <1>7 DEF IInv, Dues
<1>9. Typed(open, Room)' /\ Bottom(open, pc)'
  BY <1>4, <1>5 DEF Typed, Bottom
<1>10. TInv'
  BY <1>1, <1>9 DEF TInv
<1> QED
  BY <1>8, <1>10

\* A value built by hand is under the frame of the text.
LEMMA BuiltOK ==
    ASSUME NEW v \in Value[Height]
    PROVE  LET o == <<[Frame("text") EXCEPT !.items = <<v>>]>> IN
           /\ StackOK(o, "parsed") /\ Unique(o) /\ Len(o) = 1
           /\ Typed(o, Height) /\ Bottom(o, "parsed")
<1> DEFINE g == [Frame("text") EXCEPT !.items = <<v>>]
           o == <<g>>
           q == "parsed"
<1>1. /\ g.kind = "text" /\ g.names = <<>> /\ g.items = <<v>>
      /\ g = [kind |-> g.kind, names |-> g.names, items |-> g.items]
  BY DEF Frame
<1>2. "text" # BeginObject /\ q \notin {"value", "failed", "name", "colon", "first"} /\ q \in {"after", "parsed"}
  BY TokenKinds
<1>3. /\ Sequence(g.items) /\ Sequence(g.names) /\ Len(g.items) = 1 /\ Distinct(g.names)
      /\ g.names \in Seq(Names) /\ g.items \in Seq(Value[Height]) /\ Len(g.names) = 0
  <2> DEFINE S == Value[Height]
  <2>4. v \in S
    OBVIOUS
  <2> HIDE DEF S
  <2>1. <<v>> \in Seq(S) /\ Len(<<v>>) = 1
    BY <2>4
  <2>2. <<>> \in Seq(Names) /\ Len(<<>>) = 0 /\ Distinct(<<>>)
    BY DEF Distinct
  <2> QED
    BY <1>1, <2>1, <2>2, SeqIsSequence DEF S
<1> HIDE DEF g, q
<1>4. FrameOK(g) /\ Even(g)
  BY <1>1, <1>2, <1>3 DEF FrameOK, Even
<1>5. Sequence(o) /\ Len(o) = 1 /\ o[1] = g
  BY DEF Sequence
<1> HIDE DEF o
<1>6. StackOK(o, q)
  BY <1>1, <1>2, <1>4, <1>5 DEF StackOK
<1>7. Unique(o)
  BY <1>3, <1>5 DEF Unique
<1>8. Height \in Nat /\ Height + 1 - 1 = Height
  BY DepthAssumption
<1>9. Typed(o, Height)
  <2> SUFFICES ASSUME NEW k \in 1..Len(o) PROVE FrameTyped(o[k], Height + 1 - k)
    BY DEF Typed
  <2>1. k = 1
    BY <1>5
  <2> QED
    BY <1>3, <1>5, <1>8, <2>1 DEF FrameTyped
<1>10. Bottom(o, q)
  BY <1>2, <1>3, <1>5 DEF Bottom
<1> QED
  BY <1>5, <1>6, <1>7, <1>9, <1>10 DEF o, g, q

LEMMA CInit == CanonicalInit => CInv
<1> SUFFICES ASSUME CanonicalInit PROVE CInv
  OBVIOUS
<1>1. forms = <<>> /\ (Init \/ BuiltInit)
  BY DEF CanonicalInit
<1>2. /\ {"raw", "serde", "again", "built"} \subseteq Paths
      /\ \A p \in Paths : Limit[p] \in Nat /\ Limit[p] \in 0..Height
  BY PathAssumption, LimitAssumption, DepthAssumption
<1>3. path # "serde"
  BY <1>1 DEF Init, BuiltInit
<1>4. FormsOK
  BY <1>1, <1>3 DEF FormsOK
<1>5. CASE Init
  <2>1. /\ path = "raw" /\ pc = "value" /\ open = <<Frame("text")>>
        /\ text \in Texts
    BY <1>5 DEF Init
  <2>2. text \in Seq(Tokens)
    BY <2>1, TextAssumption DEF Tokens
  <2>3. Room = Limit[path] /\ Limit[path] \in 0..Height
    BY <1>2, <2>1 DEF Room
  <2>4. Typed(open, Limit[path]) /\ Bottom(open, pc)
    BY <2>1, <2>3, FreshTyped
  <2>5. TInv
    BY <2>1, <2>2, <2>3, <2>4 DEF TInv
  <2> QED
    BY <1>4, <1>5, <2>5, InvInit DEF CInv
<1>6. CASE BuiltInit
  <2>1. /\ path = "built" /\ text = <<>> /\ pos = 1 /\ pc = "parsed"
        /\ \E v \in HandBuilt : open = <<[Frame("text") EXCEPT !.items = <<v>>]>>
    BY <1>6 DEF BuiltInit
  <2>2. PICK v \in HandBuilt : open = <<[Frame("text") EXCEPT !.items = <<v>>]>>
    BY <2>1
  <2>3. v \in Value[Height]
    BY BuiltAssumption
  <2>4. /\ StackOK(open, pc) /\ Unique(open) /\ Len(open) = 1
        /\ Typed(open, Height) /\ Bottom(open, pc)
    BY <2>1, <2>2, <2>3, BuiltOK
  <2>5. Len(text) = 0 /\ text \in Seq(Tokens)
    BY <2>1
  <2>6. Room = Height
    BY <2>1 DEF Room
  <2>7. DepthIsBounded
    BY <1>2, <2>1, <2>4 DEF DepthIsBounded, Depth
  <2>8. IInv
    BY <1>2, <2>1, <2>4, <2>5, <2>7 DEF IInv, Dues
  <2>9. TInv
    BY <2>1, <2>4, <2>5, <2>6 DEF TInv, Ended
  <2> QED
    BY <1>4, <2>8, <2>9 DEF CInv
<1> QED
  BY <1>1, <1>5, <1>6

\* Nothing moves.
LEMMA Unmoved ==
    ASSUME TInv, path' = path, text' = text, pc' = pc, open' = open
    PROVE  TInv'
<1>1. Room' = Room /\ Ended' = Ended
  BY DEF Room, Ended
<1>2. Typed(open, Room)' /\ Bottom(open, pc)'
  BY <1>1 DEF TInv, Typed, Bottom
<1> QED
  BY <1>1, <1>2 DEF TInv

\* The parser stays with its text.
LEMMA NextStays == Next => path' = path /\ text' = text
<1> SUFFICES ASSUME Next PROVE path' = path /\ text' = text
  OBVIOUS
<1>1. ASSUME NEW due, Bump(due) PROVE path' = path /\ text' = text
  BY <1>1 DEF Bump
<1>2. Fail => path' = path /\ text' = text
  BY DEF Fail
<1>3. EndOfText => path' = path /\ text' = text
  BY <1>2, Stops
<1> QED
  BY <1>1, <1>2, <1>3, Stops, SkipWsMoves, ScalarMoves, OpenMoves, NameMoves, CommaMoves,
     ColonMoves, CloseMoves DEF Next

\* What the path has come to is kept.
LEMMA RecordedOK ==
    ASSUME CInv, forms' = Recorded
    PROVE  \A p \in DOMAIN forms' : forms'[p] \in Seq(Tokens)
<1> SUFFICES ASSUME NEW p \in DOMAIN forms' PROVE forms'[p] \in Seq(Tokens)
  OBVIOUS
<1>1. p \in DOMAIN forms \cup {path} /\ forms'[p] = IF p = path THEN Form ELSE forms[p]
  BY DEF Recorded
<1>2. CASE p = path
  BY <1>1, <1>2, FormIs
<1>3. CASE p # path
  BY <1>1, <1>3 DEF CInv, FormsOK
<1> QED
  BY <1>2, <1>3

LEMMA CNext == CInv /\ [CanonicalNext]_allVars => CInv'
<1> SUFFICES ASSUME CInv, [CanonicalNext]_allVars PROVE CInv'
  OBVIOUS
<1>1. IInv /\ TInv /\ FormsOK
  BY DEF CInv
<1>2. {"raw", "serde", "again", "built"} \subseteq Paths
  BY PathAssumption
<1>3. CASE Parse
  <2>1. Next /\ forms' = forms
    BY <1>3 DEF Parse
  <2>2. IInv' /\ TInv'
    BY <1>1, <2>1, InvNext, TypedNext
  <2>3. path' = path
    BY <2>1, NextStays
  <2>4. FormsOK'
    BY <1>1, <2>1, <2>3 DEF FormsOK
  <2> QED
    BY <2>2, <2>4 DEF CInv
<1>4. CASE OtherEntry
  <2>1. path = "raw" /\ forms' = Recorded /\ Restart("serde", text)
    BY <1>4 DEF OtherEntry
  <2>2. text \in Seq(Tokens)
    BY <1>1 DEF TInv
  <2>3. (IInv /\ TInv)'
    BY <1>2, <2>1, <2>2, RestartOK
  <2>4. "raw" \in DOMAIN forms'
    BY <2>1 DEF Recorded
  <2>5. FormsOK'
    BY <2>1, <2>4, RecordedOK DEF FormsOK
  <2> QED
    BY <2>3, <2>5 DEF CInv
<1>5. CASE Again
  <2> DEFINE form == IF path = "built" THEN Form ELSE forms["raw"]
  <2>1. /\ Unrecorded /\ path \in {"serde", "built"} /\ forms' = Recorded
        /\ IF form = Bad THEN UNCHANGED vars ELSE Restart("again", form)
    BY <1>5 DEF Again
  <2>2. form \in Seq(Tokens)
    BY <1>1, <2>1, FormIs DEF FormsOK
  <2> HIDE DEF form
  <2>3. (IInv /\ TInv)' /\ (path' = path \/ path' = "again")
    <3>1. CASE form = Bad
      <4>1. path' = path /\ text' = text /\ pos' = pos /\ pc' = pc /\ open' = open
        BY <2>1, <3>1 DEF vars
      <4>2. IInv'
        BY <1>1, <4>1, InvNext DEF vars
      <4>3. TInv'
        BY <1>1, <4>1, Unmoved
      <4> QED
        BY <4>1, <4>2, <4>3
    <3>2. CASE form # Bad
      <4>1. Restart("again", form)
        BY <2>1, <3>2
      <4> QED
        BY <1>2, <2>2, <4>1, RestartOK DEF Restart
    <3> QED
      BY <3>1, <3>2
  <2>4. path' = "serde" => "raw" \in DOMAIN forms'
    BY <1>1, <2>1, <2>3 DEF Recorded, FormsOK
  <2>5. FormsOK'
    BY <2>1, <2>4, RecordedOK DEF FormsOK
  <2> QED
    BY <2>3, <2>5 DEF CInv
<1>6. CASE UNCHANGED allVars
  <2>1. path' = path /\ text' = text /\ pos' = pos /\ pc' = pc /\ open' = open /\ forms' = forms
    BY <1>6 DEF allVars, vars
  <2>2. IInv' /\ TInv'
    BY <1>1, <2>1, InvNext, Unmoved DEF vars
  <2>3. FormsOK'
    BY <1>1, <2>1 DEF FormsOK
  <2> QED
    BY <2>2, <2>3 DEF CInv
<1> QED
  BY <1>3, <1>4, <1>5, <1>6 DEF CanonicalNext

LEMMA CHolds == CanonicalSpec => []CInv
<1> QED
  BY CInit, CNext, PTL DEF CanonicalSpec

-----------------------------------------------------------------------------
(* Where the parts of a written container are. *)

\* The i-th entry starts after the comma that precedes it, and its item after the name.
EntryAt(at, i) == at[i - 1] + (IF i = 1 THEN 0 ELSE 1)
ItemAt(v, at, i) == EntryAt(at, i) + (IF v.kind = BeginObject THEN 2 ELSE 0)

\* The container stands in u after the first d lexemes, and its first i entries end
\* at at[i].
Places(v, x, o, u, d, at) ==
    /\ at \in [0..Len(v.items) -> Nat] /\ at[0] = d + 1
    /\ d + 1 \in 1..Len(u) /\ u[d + 1] = v.kind
    /\ at[Len(v.items)] + 1 \in 1..Len(u) /\ u[at[Len(v.items)] + 1] = Ending(v.kind)
    /\ \A i \in 1..Len(v.items) :
        /\ i # 1 => u[at[i - 1] + 1] = ","
        /\ v.kind = BeginObject =>
            u[EntryAt(at, i) + 1] = v.names[o[i]] /\ u[EntryAt(at, i) + 2] = ":"
        /\ Stands(x[o[i]], u, ItemAt(v, at, i))
        /\ at[i] = ItemAt(v, at, i) + Len(x[o[i]])

LEMMA OneStands ==
    ASSUME NEW c, NEW u, NEW d \in Int
    PROVE  Stands(<<c>>, u, d) <=> d + 1 \in 1..Len(u) /\ u[d + 1] = c
BY DEF Stands

LEMMA TwoStand ==
    ASSUME NEW b, NEW c, NEW u, NEW d \in Int, Stands(<<b, c>>, u, d)
    PROVE  u[d + 1] = b /\ u[d + 2] = c
BY DEF Stands

LEMMA SumIs == \A m, l \in Nat : m + 1 \in Nat /\ m + (1 + l) = (m + 1) + l
OBVIOUS

\* A member, its value x written.
Member(name, x) == <<name, ":">> \o x

LEMMA MemberParts ==
    ASSUME NEW a \in Tokens, NEW x \in Seq(Tokens),
           NEW u, NEW d \in Nat, Stands(Member(a, x), u, d)
    PROVE  /\ Len(Member(a, x)) = 2 + Len(x) /\ Stands(x, u, d + 2)
           /\ u[d + 1] = a /\ u[d + 2] = ":"
<1> DEFINE c == ":"
           h == <<a, c>>
           e == h \o x
<1>1. c \in Tokens
  BY TokensAre
<1>2. e = h \o x /\ Stands(e, u, d)
  BY DEF Member
<1> HIDE DEF c
<1>3. h \in Seq(Tokens) /\ Len(h) = 2
  BY <1>1
<1> HIDE DEF h
<1>4. /\ Len(h) \in Nat /\ Len(h \o x) = Len(h) + Len(x) /\ Len(x) \in Nat
      /\ Stands(h, h \o x, 0) /\ Stands(x, h \o x, Len(h))
  BY <1>3, Parts
<1>5. Stands(h, u, d + 0) /\ Stands(x, u, d + 2)
  BY <1>2, <1>3, <1>4, StandsIn
<1>6. Stands(h, u, d)
  BY <1>5
<1>7. u[d + 1] = a /\ u[d + 2] = c
  BY <1>6, TwoStand DEF h
<1>8. Len(e) = 2 + Len(x)
  BY <1>2, <1>3, <1>4
<1> QED
  BY <1>5, <1>7, <1>8 DEF c, h, e, Member

LEMMA BracketedAt ==
    ASSUME NEW S, NEW v \in Containers(S), NEW x \in Seq(Seq(Tokens)), Len(x) = Len(v.items),
           NEW o, o \in [DOMAIN v.items -> DOMAIN v.items],
           NEW u, NEW d \in Nat, Stands(Bracketed(v, x, o), u, d)
    PROVE  \E at : /\ Places(v, x, o, u, d, at)
                   /\ Len(Bracketed(v, x, o)) = at[Len(v.items)] + 1 - d
<1> DEFINE entry(i) == IF v.kind = BeginObject THEN <<v.names[i], ":">> \o x[i] ELSE x[i]
           ls == [k \in DOMAIN o |-> entry(o[k])]
           n == Len(v.items)
<1>1. /\ v.kind \in {BeginObject, BeginArray} /\ n \in Nat
      /\ DOMAIN v.items = 1..n
      /\ v.kind = BeginObject => DOMAIN v.names = DOMAIN v.items
      /\ \A i \in DOMAIN v.names : v.names[i] \in Names
  BY ContainersIs
<1>2. ls \in Seq(Seq(Tokens)) /\ Len(ls) = n /\ \A i \in 1..n : ls[i] = entry(o[i]) /\ o[i] \in 1..n
  <2>1. ASSUME NEW i \in DOMAIN v.items PROVE entry(i) \in Seq(Tokens)
    BY EntryType
  <2> HIDE DEF entry
  <2> DEFINE Q == Seq(Tokens)
  <2>2. ls \in [1..n -> Q] /\ \A i \in 1..n : ls[i] = entry(o[i]) /\ o[i] \in 1..n
    BY <1>1, <2>1
  <2> HIDE DEF ls, n, Q
  <2> QED
    BY <1>1, <2>2 DEF Q
<1>3. Bracketed(v, x, o) = <<v.kind>> \o Separated(ls) \o <<Ending(v.kind)>>
  BY DEF Bracketed
<1> DEFINE s == Pieces(ls)
           a == <<v.kind>>
           b == <<Ending(v.kind)>>
           all == a \o FlattenSeq(s) \o b
<1> HIDE DEF ls, n
<1>4. /\ s \in Seq(Seq(Tokens)) /\ Len(s) = n
      /\ \A i \in 1..n : s[i] = (IF i = 1 THEN ls[i] ELSE <<",">> \o ls[i]) /\ ls[i] \in Seq(Tokens)
  BY <1>2, PiecesAre
<1>5. a \in Seq(Tokens) /\ b \in Seq(Tokens) /\ Len(a) = 1 /\ Len(b) = 1
  <2> DEFINE f == v.kind
             g == Ending(v.kind)
  <2>1. f \in Tokens /\ g \in Tokens
    BY <1>1, TokensAre
  <2> HIDE DEF f, g
  <2>2. <<f>> \in Seq(Tokens) /\ <<g>> \in Seq(Tokens) /\ Len(<<f>>) = 1 /\ Len(<<g>>) = 1
    BY <2>1
  <2> QED
    BY <2>2 DEF f, g
<1>6. Stands(all, u, d) /\ Bracketed(v, x, o) = all
  BY <1>3 DEF Separated
<1> HIDE DEF s, a, b
<1>7. /\ Len(FlattenSeq(s)) \in Nat
      /\ all \in Seq(Tokens) /\ Len(all) = 1 + Len(FlattenSeq(s)) + 1
      /\ Stands(a, all, 0) /\ Stands(b, all, 1 + Len(FlattenSeq(s)))
  <2>1. /\ Len(FlattenSeq(s)) \in Nat
        /\ all \in Seq(Tokens) /\ Len(all) = Len(a) + Len(FlattenSeq(s)) + Len(b)
        /\ Stands(a, all, 0) /\ Stands(b, all, Len(a) + Len(FlattenSeq(s)))
    <3>1. s \in Seq(Seq(Tokens))
      BY <1>4
    <3>2. a \in Seq(Tokens) /\ b \in Seq(Tokens)
      BY <1>5
    <3> QED
      BY <3>1, <3>2, JoinedBetween, Zenon
  <2> HIDE DEF all
  <2> QED
    BY <1>5, <2>1, Zenon
<1>8. \A i \in 0..n-1 : /\ s[i + 1] \in Seq(Tokens)
                        /\ Len(Joined(s, i)) \in Nat
                        /\ Len(Joined(s, i + 1)) = Len(Joined(s, i)) + Len(s[i + 1])
                        /\ Stands(s[i + 1], all, 1 + Len(Joined(s, i)))
  BY <1>4, <1>5, JoinedAt
<1>9. Joined(s, n) = FlattenSeq(s) /\ Len(Joined(s, 0)) = 0 /\ n \in Nat
  <2>1. Joined(s, 0) = <<>>
    BY <1>4, JoinedZero
  <2> QED
    BY <1>1, <1>4, <2>1, JoinedAll DEF n
<1> DEFINE at == [i \in 0..n |-> d + 1 + Len(Joined(s, i))]
<1>10. at \in [0..n -> Nat] /\ at[0] = d + 1 /\ at[n] = d + 1 + Len(FlattenSeq(s))
  <2>1. \A i \in 0..n : Len(Joined(s, i)) \in Nat
    BY <1>7, <1>8, <1>9
  <2> QED
    BY <1>9, <2>1
<1> HIDE DEF all
<1>11. Stands(a, u, d) /\ Stands(b, u, at[n])
  <2>1. Stands(a, u, d + 0) /\ Stands(b, u, d + (1 + Len(FlattenSeq(s))))
    BY <1>5, <1>6, <1>7, StandsIn
  <2> QED
    BY <1>7, <1>10, <2>1
<1>12. ASSUME NEW i \in 1..n
       PROVE  /\ i # 1 => u[at[i - 1] + 1] = ","
              /\ Stands(ls[i], u, EntryAt(at, i))
              /\ at[i] = EntryAt(at, i) + Len(ls[i])
              /\ EntryAt(at, i) \in Nat
  <2> DEFINE p == s[i]
  <2>1. i - 1 \in 0..n-1 /\ (i - 1) + 1 = i /\ i \in 0..n /\ i - 1 \in 0..n
    BY <1>9
  <2>2. /\ p \in Seq(Tokens) /\ Len(p) \in Nat
        /\ at[i] = at[i - 1] + Len(p)
        /\ Stands(p, all, 1 + Len(Joined(s, i - 1)))
        /\ at[i - 1] = d + (1 + Len(Joined(s, i - 1))) /\ Len(Joined(s, i - 1)) \in Nat
    <3>1. /\ p \in Seq(Tokens) /\ Stands(p, all, 1 + Len(Joined(s, i - 1)))
          /\ Len(Joined(s, i - 1)) \in Nat /\ Len(Joined(s, i)) = Len(Joined(s, i - 1)) + Len(p)
      BY <1>8, <2>1
    <3> HIDE DEF p
    <3>2. Len(p) \in Nat
      BY <3>1
    <3>3. at[i] = d + 1 + Len(Joined(s, i)) /\ at[i - 1] = d + 1 + Len(Joined(s, i - 1))
      BY <2>1
    <3> QED
      BY <3>1, <3>2, <3>3
  <2>3. Stands(p, u, at[i - 1])
    BY <1>6, <2>2, StandsIn
  <2>4. ls[i] \in Seq(Tokens) /\ p = IF i = 1 THEN ls[i] ELSE <<",">> \o ls[i]
    BY <1>4
  <2>5. at[i - 1] \in Nat
    BY <1>10, <2>1
  <2> HIDE DEF p, at
  <2>6. CASE i = 1
    <3>1. EntryAt(at, i) = at[i - 1] + 0
      BY <2>6, Zenon DEF EntryAt
    <3>2. EntryAt(at, i) = at[i - 1]
      BY <2>5, <3>1
    <3>3. p = ls[i]
      BY <2>4, <2>6, Zenon
    <3> QED
      BY <2>2, <2>3, <2>5, <2>6, <3>2, <3>3, Zenon
  <2>7. CASE i # 1
    <3> DEFINE c == ","
               h == <<c>>
    <3>1. c \in Tokens /\ p = h \o ls[i]
      BY <2>4, <2>7, TokensAre
    <3> HIDE DEF c
    <3>2. h \in Seq(Tokens) /\ Len(h) = 1
      BY <3>1
    <3>3. /\ Len(ls[i]) \in Nat /\ Len(p) = 1 + Len(ls[i])
          /\ Stands(h, p, 0) /\ Stands(ls[i], p, 1)
      BY <2>4, <3>1, <3>2, Parts
    <3>4. Stands(h, u, at[i - 1] + 0) /\ Stands(ls[i], u, at[i - 1] + 1)
      BY <2>2, <2>3, <2>5, <3>2, <3>3, StandsIn
    <3>5. u[at[i - 1] + 1] = c
      BY <2>5, <3>4, OneStands
    <3>6. EntryAt(at, i) = at[i - 1] + 1
      BY <2>7, Zenon DEF EntryAt
    <3>7. EntryAt(at, i) \in Nat /\ at[i] = EntryAt(at, i) + Len(ls[i])
      <4> DEFINE m == at[i - 1]
                 l == Len(ls[i])
      <4>1. m \in Nat /\ l \in Nat /\ EntryAt(at, i) = m + 1 /\ at[i] = m + (1 + l)
        BY <2>2, <2>5, <3>3, <3>6, Zenon
      <4>2. m + 1 \in Nat /\ m + (1 + l) = (m + 1) + l
        BY <4>1, SumIs, Zenon
      <4> QED
        BY <4>1, <4>2, Zenon
    <3> QED
      BY <3>4, <3>5, <3>6, <3>7, Zenon DEF c
  <2> QED
    BY <2>6, <2>7
<1>13. ASSUME NEW i \in 1..n
       PROVE  /\ v.kind = BeginObject =>
                    u[EntryAt(at, i) + 1] = v.names[o[i]] /\ u[EntryAt(at, i) + 2] = ":"
              /\ Stands(x[o[i]], u, ItemAt(v, at, i))
              /\ at[i] = ItemAt(v, at, i) + Len(x[o[i]])
  <2>1. /\ Stands(ls[i], u, EntryAt(at, i)) /\ at[i] = EntryAt(at, i) + Len(ls[i])
        /\ EntryAt(at, i) \in Nat
    BY <1>12
  <2> DEFINE w == x[o[i]]
             k == IF v.kind = BeginObject THEN 2 ELSE 0
  <2>2. ls[i] = (IF v.kind = BeginObject THEN <<v.names[o[i]], ":">> \o w ELSE w)
        /\ o[i] \in 1..n
    BY <1>2
  <2>3. w \in Seq(Tokens) /\ o[i] \in DOMAIN v.items /\ Len(w) \in Nat
    BY <1>1, <2>2 DEF n
  <2> HIDE DEF w, at
  <2>4. /\ Len(ls[i]) = k + Len(w)
        /\ v.kind = BeginObject =>
             u[EntryAt(at, i) + 1] = v.names[o[i]] /\ u[EntryAt(at, i) + 2] = ":"
        /\ Stands(w, u, EntryAt(at, i) + k)
    <3> DEFINE e == EntryAt(at, i)
    <3> HIDE DEF e
    <3>1. e \in Nat /\ Stands(ls[i], u, e)
      BY <2>1, Zenon DEF e
    <3> DEFINE f == ls[i]
    <3>2. Stands(f, u, e)
      BY <3>1
    <3>3. CASE v.kind = BeginObject
      <4> DEFINE a1 == v.names[o[i]]
      <4>1. a1 \in Tokens
        BY <1>1, <2>3, <3>3, TokensAre
      <4>2. f = <<a1, ":">> \o w
        BY <2>2, <3>3, Zenon
      <4> HIDE DEF a1, f
      <4>3. /\ Len(f) = 2 + Len(w) /\ Stands(w, u, e + 2)
            /\ u[e + 1] = a1 /\ u[e + 2] = ":"
        <5>1. w \in Seq(Tokens)
          BY <2>3
        <5>2. e \in Nat
          BY <3>1
        <5>3. f = Member(a1, w)
          BY <4>2 DEF Member
        <5>5. Stands(Member(a1, w), u, e)
          BY <3>2, <5>3
        <5>4. /\ Len(Member(a1, w)) = 2 + Len(w) /\ Stands(w, u, e + 2)
              /\ u[e + 1] = a1 /\ u[e + 2] = ":"
          BY <4>1, <5>1, <5>2, <5>5, MemberParts
        <5> QED
          BY <5>3, <5>4
      <4>4. k = 2
        BY <3>3
      <4> HIDE DEF k
      <4> QED
        BY <4>3, <4>4, Zenon DEF e, f, a1
    <3>4. CASE v.kind # BeginObject
      <4>1. k = 0 /\ f = w
        BY <2>2, <3>4, Zenon
      <4>2. e + 0 = e /\ 0 + Len(w) = Len(w)
        BY <2>3, <3>1
      <4> HIDE DEF k, f
      <4> QED
        BY <3>2, <3>4, <4>1, <4>2, Zenon DEF e, f
    <3> QED
      BY <3>3, <3>4, Zenon
  <2>5. ItemAt(v, at, i) = EntryAt(at, i) + k /\ k \in Nat
    BY DEF ItemAt
  <2> HIDE DEF k, at
  <2>6. at[i] = ItemAt(v, at, i) + Len(w)
    BY <2>1, <2>3, <2>4, <2>5
  <2> QED
    BY <2>4, <2>5, <2>6, Zenon DEF w
<1>14. Len(Bracketed(v, x, o)) = at[n] + 1 - d
  BY <1>6, <1>7, <1>10
<1>15. at[n] \in Nat
  BY <1>9, <1>10
<1> HIDE DEF at
<1>16. /\ d + 1 \in 1..Len(u) /\ u[d + 1] = v.kind
       /\ at[n] + 1 \in 1..Len(u) /\ u[at[n] + 1] = Ending(v.kind)
  BY <1>11, <1>15, OneStands DEF a, b
<1>17. Places(v, x, o, u, d, at)
  BY <1>10, <1>12, <1>13, <1>16 DEF Places, n
<1> QED
  BY <1>14, <1>17 DEF n

-----------------------------------------------------------------------------
(* Two containers in one place. *)

\* What comes after an item or instead of one.
Closers == {"}", "]", ","}

\* A text that can be an item.
Begins(x) == x \in Seq(Tokens) /\ x # <<>> /\ x[1] \notin Closers

LEMMA ClosersAre ==
    /\ Closers \cap Lexemes = {} /\ BeginObject \notin Closers /\ BeginArray \notin Closers
    /\ \A kind \in {BeginObject, BeginArray} : Ending(kind) \in Closers /\ Ending(kind) # ","
<1>1. Closers \subseteq Punctuation
  BY DEF Closers, Punctuation
<1>2. Lexemes \cap Punctuation = {}
  BY ReadAssumption
<1>3. BeginObject \notin Closers /\ BeginArray \notin Closers
  BY DEF Closers, BeginObject, BeginArray
<1>4. Ending(BeginObject) = "}" /\ Ending(BeginArray) = "]"
  BY TokenKinds, Zenon DEF Ending
<1>5. "}" # "," /\ "]" # "," /\ "}" \in Closers /\ "]" \in Closers
  BY DEF Closers
<1>6. \A kind \in {BeginObject, BeginArray} : kind = BeginObject \/ kind = BeginArray
  OBVIOUS
<1>7. ASSUME NEW kind \in {BeginObject, BeginArray}
      PROVE  Ending(kind) \in Closers /\ Ending(kind) # ","
  BY <1>4, <1>5, <1>6, Zenon
<1>8. Closers \cap Lexemes = {}
  BY <1>1, <1>2
<1> QED
  BY <1>3, <1>7, <1>8

\* v, of the items x, and w, of y, stand in u in the same place; items that do so too are
\* pairs of R.
Together(v, x, o, at, w, y, q, bt, u, d, R) ==
    /\ o \in [DOMAIN v.items -> DOMAIN v.items] /\ q \in [DOMAIN w.items -> DOMAIN w.items]
    /\ Places(v, x, o, u, d, at) /\ Places(w, y, q, u, d, bt)
    /\ \A i \in DOMAIN v.items : Begins(x[i])
    /\ \A j \in DOMAIN w.items : Begins(y[j])
    /\ \A i \in DOMAIN v.items : \A j \in DOMAIN w.items : \A e \in Nat :
           Stands(x[i], u, e) /\ Stands(y[j], u, e) => <<i, j>> \in R /\ Len(x[i]) = Len(y[j])

\* Item by item, the two are the same to the end of v.
Matched(v, o, at, w, q, bt, R) ==
    /\ \A i \in 0..Len(v.items) : at[i] = bt[i]
    /\ \A i \in 1..Len(v.items) :
         /\ <<o[i], q[i]>> \in R
         /\ v.kind = BeginObject => v.names[o[i]] = w.names[q[i]]

\* Where v has an item, w has one too, and they are counterparts.
LEMMA NoShorter ==
    ASSUME NEW S, NEW T, NEW v \in Containers(S), NEW w \in Containers(T), v.kind = w.kind,
           NEW x, NEW y, NEW o, NEW q, NEW u, NEW d \in Nat, NEW at, NEW bt, NEW R,
           Together(v, x, o, at, w, y, q, bt, u, d, R)
    PROVE  Len(v.items) <= Len(w.items) /\ Matched(v, o, at, w, q, bt, R)
<1> DEFINE n == Len(v.items)
           m == Len(w.items)
           Same(i) == at[i] = bt[i] /\ i <= m
           Match(i) == /\ <<o[i], q[i]>> \in R
                       /\ v.kind = BeginObject => v.names[o[i]] = w.names[q[i]]
           G == {i \in Nat : i <= n => Same(i) /\ (i # 0 => Match(i))}
<1>1. /\ n \in Nat /\ m \in Nat /\ DOMAIN v.items = 1..n /\ DOMAIN w.items = 1..m
      /\ v.kind \in {BeginObject, BeginArray}
      /\ v.kind = BeginObject => \A i \in 1..n : v.names[i] \in Names
  BY ContainersIs
<1>2. /\ at \in [0..n -> Nat] /\ bt \in [0..m -> Nat] /\ at[0] = d + 1 /\ bt[0] = d + 1
      /\ u[bt[m] + 1] = Ending(v.kind)
  BY DEF Together, Places
<1>3. ASSUME NEW i \in 1..n
      PROVE  /\ i # 1 => u[at[i - 1] + 1] = ","
             /\ v.kind = BeginObject => u[EntryAt(at, i) + 1] = v.names[o[i]]
             /\ Stands(x[o[i]], u, ItemAt(v, at, i))
             /\ at[i] = ItemAt(v, at, i) + Len(x[o[i]])
             /\ o[i] \in 1..n
  BY <1>1 DEF Together, Places
<1>4. ASSUME NEW i \in 1..m
      PROVE  /\ v.kind = BeginObject => u[EntryAt(bt, i) + 1] = w.names[q[i]]
             /\ Stands(y[q[i]], u, ItemAt(w, bt, i))
             /\ bt[i] = ItemAt(w, bt, i) + Len(y[q[i]])
             /\ q[i] \in 1..m
  BY <1>1 DEF Together, Places
<1>5. \A i \in 1..n : Begins(x[i])
  BY <1>1 DEF Together
<1>6. \A i \in 1..n : \A j \in 1..m : \A e \in Nat :
          Stands(x[i], u, e) /\ Stands(y[j], u, e) => <<i, j>> \in R /\ Len(x[i]) = Len(y[j])
  BY <1>1 DEF Together
<1> HIDE DEF n, m
<1>7. ASSUME NEW i \in 0..n, i < n, Same(i)
      PROVE  i + 1 \in 1..n /\ i + 1 \in 1..m
  <2>1. i + 1 \in 1..n /\ (i + 1) - 1 = i /\ i \in Nat
    BY <1>1, <1>7
  <2>2. ASSUME i = m PROVE FALSE
    <3>1. u[at[i] + 1] = Ending(v.kind)
      BY <1>2, <1>7, <2>2
    <3>2. Ending(v.kind) \in Closers /\ Ending(v.kind) # ","
      BY <1>1, ClosersAre
    <3>3. i + 1 = 1
      BY <1>3, <2>1, <3>1, <3>2, Zenon
    <3>4. EntryAt(at, i + 1) = at[i]
      <4>1. EntryAt(at, i + 1) = at[i] + 0
        BY <2>1, <3>3, Zenon DEF EntryAt
      <4>2. at[i] \in Nat
        BY <1>2, <1>7
      <4> QED
        BY <4>1, <4>2
    <3>5. CASE v.kind = BeginObject
      <4>1. u[at[i] + 1] = v.names[o[i + 1]] /\ o[i + 1] \in 1..n
        BY <1>3, <2>1, <3>4, <3>5, Zenon
      <4>2. v.names[o[i + 1]] \in Lexemes
        BY <1>1, <3>5, <4>1, TokensAre
      <4> QED
        BY <3>1, <3>2, <4>1, <4>2, ClosersAre
    <3>6. CASE v.kind # BeginObject
      <4> DEFINE z == x[o[i + 1]]
      <4>1. ItemAt(v, at, i + 1) = at[i] + 0
        BY <3>4, <3>6, Zenon DEF ItemAt
      <4>2. at[i] \in Nat
        BY <1>2, <1>7
      <4>3. ItemAt(v, at, i + 1) = at[i]
        BY <4>1, <4>2
      <4>4. Stands(z, u, at[i]) /\ Begins(z)
        BY <1>3, <1>5, <2>1, <4>3
      <4> HIDE DEF z
      <4>5. z[1] \notin Closers /\ 1 \in 1..Len(z)
        BY <4>4 DEF Begins
      <4>6. u[at[i] + 1] = z[1]
        BY <4>4, <4>5 DEF Stands
      <4> QED
        BY <3>1, <3>2, <4>5, <4>6
    <3> QED
      BY <3>5, <3>6
  <2>3. i < m
    BY <1>1, <1>7, <2>2
  <2> QED
    BY <1>1, <2>1, <2>3
<1>8. ASSUME NEW i \in 0..n, i < n, Same(i)
      PROVE  Same(i + 1) /\ Match(i + 1)
  <2> DEFINE k == i + 1
  <2>1. k \in 1..n /\ k \in 1..m /\ k - 1 = i
    BY <1>7, <1>8
  <2>2. EntryAt(at, k) = EntryAt(bt, k)
    BY <1>8, <2>1 DEF EntryAt
  <2>3. ItemAt(v, at, k) = ItemAt(w, bt, k)
    BY <2>2 DEF ItemAt
  <2> HIDE DEF k
  <2>4. ItemAt(v, at, k) \in Nat
    <3>1. at[k - 1] \in Nat
      BY <1>2, <1>8, <2>1
    <3>2. EntryAt(at, k) \in Nat
      BY <3>1 DEF EntryAt
    <3> QED
      BY <3>2 DEF ItemAt
  <2> DEFINE a == o[k]
             b == q[k]
             e == ItemAt(v, at, k)
  <2>5. /\ Stands(x[a], u, e) /\ at[k] = e + Len(x[a]) /\ a \in 1..n
        /\ Stands(y[b], u, e) /\ bt[k] = e + Len(y[b]) /\ b \in 1..m
    BY <1>3, <1>4, <2>1, <2>3
  <2>6. v.kind = BeginObject => v.names[a] = w.names[b]
    <3> SUFFICES ASSUME v.kind = BeginObject PROVE v.names[a] = w.names[b]
      OBVIOUS
    <3>1. u[EntryAt(at, k) + 1] = v.names[a]
      BY <1>3, <2>1
    <3>2. u[EntryAt(bt, k) + 1] = w.names[b]
      BY <1>4, <2>1
    <3> QED
      BY <2>2, <3>1, <3>2
  <2> HIDE DEF a, b, e
  <2>7. <<a, b>> \in R /\ Len(x[a]) = Len(y[b])
    BY <1>6, <2>4, <2>5 DEF e
  <2>8. at[k] = bt[k] /\ k <= m
    BY <2>1, <2>5, <2>7
  <2> QED
    BY <2>6, <2>7, <2>8 DEF a, b, k
<1>9. Nat \subseteq G
  <2>1. 0 \in G
    BY <1>1, <1>2
  <2>2. ASSUME NEW i \in Nat, i \in G PROVE i + 1 \in G
    <3> SUFFICES ASSUME i + 1 <= n PROVE Same(i + 1) /\ Match(i + 1)
      OBVIOUS
    <3>1. i \in 0..n /\ i < n /\ i <= n
      BY <1>1
    <3>2. Same(i)
      BY <2>2, <3>1
    <3> HIDE DEF Same, Match
    <3> QED
      BY <1>8, <3>1, <3>2
  <2> HIDE DEF G
  <2> QED
    BY <2>1, <2>2, NatInduct
<1>10. \A i \in 0..n : Same(i) /\ (i # 0 => Match(i))
  <2> SUFFICES ASSUME NEW i \in 0..n PROVE Same(i) /\ (i # 0 => Match(i))
    OBVIOUS
  <2>1. i \in Nat /\ i <= n
    BY <1>1
  <2> QED
    BY <1>9, <2>1
<1>11. n \in 0..n /\ \A i \in 1..n : i \in 0..n /\ i # 0
  BY <1>1
<1> QED
  BY <1>10, <1>11 DEF n, m, Matched

\* The two are the same to the end of either.
Paired(v, o, w, q, R) ==
    /\ v.kind = w.kind /\ Len(v.items) = Len(w.items)
    /\ \A i \in DOMAIN v.items :
         /\ <<o[i], q[i]>> \in R
         /\ v.kind = BeginObject => v.names[o[i]] = w.names[q[i]]

LEMMA Counterparts ==
    ASSUME NEW S, NEW T, NEW v \in Containers(S), NEW w \in Containers(T),
           NEW x, NEW y, NEW o, NEW q, NEW u, NEW d \in Nat, NEW at, NEW bt, NEW R,
           Together(v, x, o, at, w, y, q, bt, u, d, R)
    PROVE  Paired(v, o, w, q, R) /\ at[Len(v.items)] = bt[Len(w.items)]
<1>1. v.kind = w.kind
  BY DEF Together, Places
<1>2. Len(v.items) <= Len(w.items) /\ Matched(v, o, at, w, q, bt, R)
  BY <1>1, NoShorter
<1> DEFINE All == (DOMAIN w.items) \X (DOMAIN v.items)
<1>3. Len(w.items) <= Len(v.items)
  <2>1. Together(w, y, q, bt, v, x, o, at, u, d, All)
    BY Zenon DEF Together
  <2> HIDE DEF All
  <2> QED
    BY <1>1, <2>1, NoShorter
<1>4. Len(v.items) \in Nat /\ Len(w.items) \in Nat /\ DOMAIN v.items = 1..Len(v.items)
  BY ContainersIs
<1>5. Len(v.items) = Len(w.items) /\ Len(v.items) \in 0..Len(v.items)
  BY <1>2, <1>3, <1>4
<1> QED
  BY <1>1, <1>2, <1>4, <1>5 DEF Matched, Paired

-----------------------------------------------------------------------------
(* A text that is written means one value. *)

\* The items of v as they are written, and the order they are written in.
Written(v, k) == [i \in DOMAIN v.items |-> Write[k - 1][v.items[i]]]
OrderOf(v) == IF v.kind = BeginObject THEN Sorted(v) ELSE InOrder(v)

\* A container that is written.
LEMMA WriteParts ==
    ASSUME NEW n \in 0..Height, NEW v \in Value[n], IsContainer(v),
           NEW k \in 0..MaxDepth, Write[k][v] # Bad
    PROVE  /\ n > 0 /\ n - 1 \in 0..Height /\ v \in Containers(Value[n - 1])
           /\ k - 1 \in 0..MaxDepth
           /\ v.kind = BeginObject => v \in NoRepeats
           /\ Written(v, k) \in Seq(Seq(Tokens)) /\ Len(Written(v, k)) = Len(v.items)
           /\ \A i \in DOMAIN v.items :
                /\ Written(v, k)[i] = Write[k - 1][v.items[i]] /\ Written(v, k)[i] # Bad
                /\ v.items[i] \in Value[n - 1]
           /\ OrderOf(v) \in Bijection(DOMAIN v.items, DOMAIN v.items)
           /\ OrderOf(v) \in [DOMAIN v.items -> DOMAIN v.items]
           /\ Write[k][v] = Bracketed(v, Written(v, k), OrderOf(v))
<1> DEFINE fits == k > 0 /\ (v.kind = BeginObject => v \in NoRepeats)
           bad == \E i \in DOMAIN v.items : Write[k - 1][v.items[i]] = Bad
<1>1. /\ v \in Value[Height] /\ n > 0 /\ n - 1 \in 0..Height /\ v \in Containers(Value[n - 1])
      /\ \A i \in DOMAIN v.items : v.items[i] \in Value[Height]
  BY LevelIs
<1>2. fits /\ ~bad
  BY <1>1, WrittenIs
<1>3. Write[k][v] = Bracketed(v, Written(v, k), OrderOf(v))
  BY <1>1, <1>2, WrittenIs DEF Written, OrderOf
<1>4. k - 1 \in 0..MaxDepth
  BY <1>2, DepthAssumption
<1>5. \A i \in DOMAIN v.items : Written(v, k)[i] = Write[k - 1][v.items[i]] /\ Written(v, k)[i] # Bad
  BY <1>2 DEF Written
<1>6. \A i \in DOMAIN v.items : Written(v, k)[i] \in Seq(Tokens)
  BY <1>1, <1>4, <1>5, WriteDomain
<1>7. /\ Len(v.items) \in Nat /\ DOMAIN v.items = 1..Len(v.items)
      /\ \A i \in DOMAIN v.items : v.items[i] \in Value[n - 1]
  BY <1>1, ContainersIs
<1>8. Written(v, k) \in Seq(Seq(Tokens)) /\ Len(Written(v, k)) = Len(v.items)
  <2> DEFINE Q == Seq(Tokens)
             x == Written(v, k)
             m == Len(v.items)
  <2>1. x = [i \in 1..m |-> x[i]] /\ m \in Nat /\ \A i \in 1..m : x[i] \in Q
    BY <1>6, <1>7 DEF Written
  <2> HIDE DEF Q, x, m
  <2>2. x \in Seq(Q) /\ Len(x) = m
    BY <2>1
  <2> QED
    BY <2>2 DEF Q, x, m
<1>9. OrderOf(v) \in Bijection(DOMAIN v.items, DOMAIN v.items)
  BY <1>1, OrderIs DEF OrderOf
<1>10. OrderOf(v) \in [DOMAIN v.items -> DOMAIN v.items]
  BY <1>9, BijectionIs, Zenon
<1> QED
  BY <1>1, <1>2, <1>3, <1>4, <1>5, <1>7, <1>8, <1>9, <1>10

\* What is written can be an item.
LEMMA WriteBegins ==
    ASSUME NEW n \in 0..Height, NEW v \in Value[n], NEW k \in 0..MaxDepth, Write[k][v] # Bad
    PROVE  Begins(Write[k][v])
<1>1. v \in Value[Height] /\ (~IsContainer(v) => v \in Leaves)
  BY LevelIs
<1>2. Write[k][v] \in Seq(Tokens) /\ Write[k][v] # <<>>
  BY <1>1, WriteDomain DEF Bad
<1>3. CASE ~IsContainer(v)
  <2>1. v.is \in Lexemes
    BY <1>1, <1>3, LeafIs
  <2>2. v.is \notin Closers
    BY <2>1, ClosersAre
  <2>3. Write[k][v] = <<v.is>>
    BY <1>1, <1>3, WrittenIs DEF Bad
  <2> QED
    BY <1>2, <2>2, <2>3 DEF Begins
<1>4. CASE IsContainer(v)
  <2> DEFINE x == Written(v, k)
             o == OrderOf(v)
             b == Bracketed(v, x, o)
  <2>1. /\ v \in Containers(Value[n - 1]) /\ x \in Seq(Seq(Tokens)) /\ Len(x) = Len(v.items)
        /\ o \in [DOMAIN v.items -> DOMAIN v.items] /\ Write[k][v] = b
    BY <1>4, WriteParts
  <2> HIDE DEF x, o
  <2>2. Stands(b, b, 0)
    BY <1>2, <2>1 DEF Stands
  <2>3. PICK at : Places(v, x, o, b, 0, at)
    BY <2>1, <2>2, BracketedAt
  <2>4. b[1] = v.kind
    <3>1. b[0 + 1] = v.kind
      BY <2>3 DEF Places
    <3> HIDE DEF b
    <3> QED
      BY <3>1
  <2>5. v.kind \in {BeginObject, BeginArray}
    BY <2>1, ContainersIs
  <2>6. b[1] \notin Closers
    <3> HIDE DEF b
    <3> QED
      BY <2>4, <2>5, ClosersAre
  <2> HIDE DEF b
  <2> QED
    BY <1>2, <2>1, <2>6 DEF Begins
<1> QED
  BY <1>3, <1>4

\* A container w with the members of v, each in an order of its own: o[i] and q[i] are
\* the positions of one member in either.
LEMMA CounterpartOrders ==
    ASSUME NEW n \in 0..Height, n > 0, n - 1 \in 0..Height,
           NEW v \in Containers(Value[n - 1]), NEW w \in Containers(Value[n - 1]),
           NEW o \in Bijection(DOMAIN v.items, DOMAIN v.items),
           NEW q \in Bijection(DOMAIN v.items, DOMAIN v.items),
           v.kind # BeginObject => o = q,
           NEW R, Paired(v, o, w, q, R),
           \A i, j \in DOMAIN v.items :
               <<i, j>> \in R => w.items[j] \in Orders[n - 1][v.items[i]]
    PROVE  w \in Orders[n][v]
<1> DEFINE D == DOMAIN v.items
           L == Value[n - 1]
<1>1. /\ Len(v.items) \in Nat /\ D = 1..Len(v.items) /\ IsContainer(v)
      /\ \A i \in D : v.items[i] \in L
      /\ v.kind = BeginObject => DOMAIN v.names = D
      /\ v.kind # BeginObject => v.names = <<>> /\ DOMAIN v.names = {}
      /\ v.names \in Seq(Names)
  BY ContainersIs
<1>0. /\ v.kind = w.kind /\ Len(v.items) = Len(w.items)
      /\ \A i \in D : /\ <<o[i], q[i]>> \in R
                      /\ v.kind = BeginObject => v.names[o[i]] = w.names[q[i]]
  BY DEF Paired
<1>2. /\ DOMAIN w.items = D
      /\ w = [kind |-> w.kind, names |-> w.names, items |-> w.items]
      /\ w.kind = BeginObject => DOMAIN w.names = D
      /\ w.kind # BeginObject => w.names = <<>> /\ DOMAIN w.names = {}
      /\ w.names \in Seq(Names) /\ w.items \in Seq(L)
  <2>1. DOMAIN w.items = 1..Len(w.items)
    BY ContainersIs
  <2> QED
    BY <1>0, <1>1, <2>1, ContainersIs
<1>3. v \in Value[n]
  <2>1. Value[n] = IF n = 0 THEN Leaves ELSE Leaves \cup Containers(Value[n - 1])
    BY ValueIs
  <2> QED
    BY <2>1
<1>4. /\ o \in [D -> D] /\ q \in [D -> D]
      /\ \A a, b \in D : o[a] = o[b] => a = b
      /\ \A a, b \in D : q[a] = q[b] => a = b
      /\ \A a \in D : \E b \in D : o[b] = a
      /\ \A a \in D : \E b \in D : q[b] = a
  <2> HIDE DEF D
  <2>1. o \in Bijection(D, D) /\ q \in Bijection(D, D)
    BY DEF D
  <2>2. /\ o \in [D -> D]
        /\ \A a, b \in D : o[a] = o[b] => a = b
        /\ \A a \in D : \E b \in D : o[b] = a
    BY <2>1, BijectionIs, Zenon
  <2>3. /\ q \in [D -> D]
        /\ \A a, b \in D : q[a] = q[b] => a = b
        /\ \A a \in D : \E b \in D : q[b] = a
    BY <2>1, BijectionIs, Zenon
  <2> QED
    BY <2>2, <2>3
<1> DEFINE back(a) == CHOOSE b \in D : q[b] = a
           forth(a) == CHOOSE b \in D : o[b] = a
           p == [i \in D |-> o[back(i)]]
           c == [j \in D |-> w.items[q[forth(j)]]]
           of == [i \in D |-> Orders[n - 1][v.items[i]]]
<1>13. \A i \in D : /\ w.items[q[i]] \in Orders[n - 1][v.items[o[i]]]
                    /\ v.kind = BeginObject => v.names[o[i]] = w.names[q[i]]
  BY <1>0, <1>4
<1>5. \A a \in D : back(a) \in D /\ q[back(a)] = a /\ back(q[a]) = a
  BY <1>4
<1>6. \A a \in D : forth(a) \in D /\ o[forth(a)] = a /\ forth(o[a]) = a
  BY <1>4
<1> HIDE DEF back, forth
<1>7. p \in Bijection(D, D)
  <2>1. p \in [D -> D]
    BY <1>4, <1>5
  <2>2. \A a, b \in D : p[a] = p[b] => a = b
    BY <1>4, <1>5
  <2>3. \A a \in D : \E b \in D : p[b] = a
    <3> SUFFICES ASSUME NEW a \in D PROVE \E b \in D : p[b] = a
      OBVIOUS
    <3>1. p[q[forth(a)]] = a /\ q[forth(a)] \in D
      BY <1>4, <1>5, <1>6
    <3> QED
      BY <3>1
  <2> HIDE DEF D, p
  <2> QED
    BY <2>1, <2>2, <2>3, BijectionIs, Zenon
<1>8. p \in Arrangements(v)
  <2>1. CASE v.kind = BeginObject
    BY <1>1, <1>7, <2>1 DEF Arrangements, Orderings
  <2>2. CASE v.kind # BeginObject
    <3>1. p = InOrder(v)
      BY <1>4, <1>5, <2>2 DEF InOrder
    <3> QED
      BY <2>2, <3>1 DEF Arrangements
  <2> QED
    BY <2>1, <2>2
<1>9. \A i \in D : c[p[i]] = w.items[i] /\ p[i] \in D
  <2> SUFFICES ASSUME NEW i \in D PROVE c[p[i]] = w.items[i] /\ p[i] \in D
    OBVIOUS
  <2>1. p[i] = o[back(i)] /\ back(i) \in D /\ o[back(i)] \in D
    BY <1>4, <1>5
  <2>2. forth(o[back(i)]) = back(i) /\ q[back(i)] = i
    BY <1>5, <1>6, <2>1
  <2> QED
    BY <2>1, <2>2
<1>10. \A i \in DOMAIN v.names : w.names[i] = v.names[p[i]]
  BY <1>1, <1>4, <1>5, <1>13
<1>11. c \in Picks(of)
  <2>1. \A j \in D : c[j] \in of[j]
    <3> SUFFICES ASSUME NEW j \in D PROVE c[j] \in of[j]
      OBVIOUS
    <3>1. forth(j) \in D /\ o[forth(j)] = j
      BY <1>6
    <3> QED
      BY <1>13, <3>1
  <2>2. \A i \in D : of[i] \subseteq L
    BY <1>1, OrdersWrite
  <2>3. of = [i \in D |-> of[i]] /\ c = [i \in D |-> c[i]]
    OBVIOUS
  <2> HIDE DEF D, L, c, of
  <2>4. c \in [D -> L]
    BY <2>1, <2>2, <2>3
  <2> QED
    BY <2>1, <2>2, <2>3, <2>4, PicksAre
<1>12. w = Reordered(v, p, c)
  <2> DEFINE names == [i \in DOMAIN v.names |-> v.names[p[i]]]
             items == [i \in DOMAIN v.items |-> c[p[i]]]
  <2>1. w.items = items
    <3>1. w.items = [i \in D |-> w.items[i]]
      BY <1>1, <1>2
    <3> QED
      BY <1>9, <3>1
  <2>2. w.names = names
    <3>1. w.names = [i \in DOMAIN v.names |-> w.names[i]]
      <4>1. DOMAIN w.names = DOMAIN v.names
        BY <1>0, <1>1, <1>2
      <4>2. w.names = [i \in DOMAIN w.names |-> w.names[i]]
        BY <1>2
      <4> QED
        BY <4>1, <4>2
    <3> QED
      BY <1>10, <3>1
  <2> HIDE DEF names, items
  <2>3. w = [kind |-> v.kind, names |-> names, items |-> items]
    BY <1>0, <1>2, <2>1, <2>2
  <2> QED
    BY <2>3 DEF names, items, Reordered
<1> HIDE DEF p, c
<1> QED
  BY <1>1, <1>3, <1>8, <1>11, <1>12, OrdersHave

\* Where v and w are written, from one place of u on, they are the same but for the order
\* of members.
Alike(n, k, v, w, u, d) ==
    /\ Write[k][v] # Bad /\ Write[k][w] # Bad
    /\ Stands(Write[k][v], u, d) /\ Stands(Write[k][w], u, d)
    => w \in Orders[n][v] /\ Len(Write[k][v]) = Len(Write[k][w])

\* What a text starts with says whether it is a container.
LEMMA HeadIs ==
    ASSUME NEW n \in 0..Height, NEW v \in Value[n], NEW k \in 0..MaxDepth, Write[k][v] # Bad,
           NEW u, NEW d \in Nat, Stands(Write[k][v], u, d)
    PROVE  /\ ~IsContainer(v) => /\ u[d + 1] = v.is /\ v.is \in Lexemes /\ v \in Leaves
                                 /\ IsFinite(v) /\ Len(Write[k][v]) = 1
           /\ IsContainer(v) =>
                  /\ u[d + 1] \notin Lexemes
                  /\ \E at : /\ Places(v, Written(v, k), OrderOf(v), u, d, at)
                             /\ Len(Write[k][v]) = at[Len(v.items)] + 1 - d
<1>1. v \in Value[Height] /\ (~IsContainer(v) => v \in Leaves)
  BY LevelIs
<1>2. CASE ~IsContainer(v)
  <2>1. v.is \in Lexemes
    BY <1>1, <1>2, LeafIs
  <2> DEFINE l == v.is
  <2>2. Write[k][v] = <<l>> /\ IsFinite(v)
    BY <1>1, <1>2, WrittenIs
  <2>3. Stands(<<l>>, u, d) /\ Len(<<l>>) = 1
    BY <2>2
  <2> HIDE DEF l
  <2>4. u[d + 1] = l
    BY <2>3, OneStands
  <2> QED
    BY <1>1, <1>2, <2>1, <2>2, <2>4 DEF l
<1>3. CASE IsContainer(v)
  <2> DEFINE x == Written(v, k)
             o == OrderOf(v)
             b == Bracketed(v, x, o)
  <2>1. /\ v \in Containers(Value[n - 1]) /\ x \in Seq(Seq(Tokens)) /\ Len(x) = Len(v.items)
        /\ o \in [DOMAIN v.items -> DOMAIN v.items] /\ Write[k][v] = b
    BY <1>3, WriteParts
  <2> HIDE DEF x, o
  <2>2. PICK at : Places(v, x, o, u, d, at) /\ Len(b) = at[Len(v.items)] + 1 - d
    BY <2>1, BracketedAt
  <2>3. u[d + 1] = v.kind
    BY <2>2 DEF Places
  <2>4. v.kind \in {BeginObject, BeginArray}
    BY <2>1, ContainersIs
  <2>5. v.kind \notin Lexemes
    <3>1. BeginObject \in Punctuation /\ BeginArray \in Punctuation
      BY DEF Punctuation, BeginObject, BeginArray
    <3> QED
      BY <2>4, <3>1, ReadAssumption
  <2>6. u[d + 1] \notin Lexemes
    BY <2>3, <2>5
  <2> HIDE DEF b
  <2> QED
    BY <1>3, <2>1, <2>2, <2>6 DEF x, o
<1> QED
  BY <1>2, <1>3

\* Two containers.
LEMMA ContainersAlike ==
    ASSUME NEW n \in 0..Height, NEW v \in Value[n], NEW w \in Value[n],
           IsContainer(v), IsContainer(w),
           NEW k \in 0..MaxDepth, NEW u, NEW d \in Nat,
           n > 0 => \A h \in 0..MaxDepth : \A a, b \in Value[n - 1] : \A e \in Nat :
                        Alike(n - 1, h, a, b, u, e)
    PROVE  Alike(n, k, v, w, u, d)
<1> SUFFICES ASSUME Write[k][v] # Bad, Write[k][w] # Bad,
                    Stands(Write[k][v], u, d), Stands(Write[k][w], u, d)
             PROVE  w \in Orders[n][v] /\ Len(Write[k][v]) = Len(Write[k][w])
  BY DEF Alike
<1> DEFINE x == Written(v, k)
           o == OrderOf(v)
           y == Written(w, k)
           q == OrderOf(w)
           D == DOMAIN v.items
           E == DOMAIN w.items
           R == {r \in D \X E : w.items[r[2]] \in Orders[n - 1][v.items[r[1]]]}
<1>1. /\ n > 0 /\ n - 1 \in 0..Height /\ v \in Containers(Value[n - 1]) /\ k - 1 \in 0..MaxDepth
      /\ \A i \in D : /\ x[i] = Write[k - 1][v.items[i]] /\ x[i] # Bad
                      /\ v.items[i] \in Value[n - 1]
      /\ o \in Bijection(D, D) /\ o \in [D -> D]
  BY WriteParts
<1>2. /\ w \in Containers(Value[n - 1])
      /\ \A i \in E : /\ y[i] = Write[k - 1][w.items[i]] /\ y[i] # Bad
                      /\ w.items[i] \in Value[n - 1]
      /\ q \in Bijection(E, E) /\ q \in [E -> E]
  BY WriteParts
<1> HIDE DEF x, y
<1>3. PICK at : Places(v, x, o, u, d, at) /\ Len(Write[k][v]) = at[Len(v.items)] + 1 - d
  BY HeadIs DEF x
<1>4. PICK bt : Places(w, y, q, u, d, bt) /\ Len(Write[k][w]) = bt[Len(w.items)] + 1 - d
  BY HeadIs DEF y
<1>5. \A i \in D : Begins(x[i])
  BY <1>1, WriteBegins
<1>6. \A j \in E : Begins(y[j])
  BY <1>1, <1>2, WriteBegins
<1>7. ASSUME NEW i \in D, NEW j \in E, NEW e \in Nat, Stands(x[i], u, e), Stands(y[j], u, e)
      PROVE  <<i, j>> \in R /\ Len(x[i]) = Len(y[j])
  <2> DEFINE a == v.items[i]
             b == w.items[j]
  <2>1. a \in Value[n - 1] /\ b \in Value[n - 1] /\ k - 1 \in 0..MaxDepth
    BY <1>1, <1>2
  <2>2. x[i] = Write[k - 1][a] /\ y[j] = Write[k - 1][b] /\ x[i] # Bad /\ y[j] # Bad
    BY <1>1, <1>2
  <2>3. Alike(n - 1, k - 1, a, b, u, e)
    BY <1>1, <2>1
  <2>4. b \in Orders[n - 1][a] /\ Len(x[i]) = Len(y[j])
    <3> HIDE DEF a, b
    <3> QED
      BY <1>7, <2>2, <2>3 DEF Alike
  <2> QED
    BY <2>4
<1> HIDE DEF R
<1>8. Together(v, x, o, at, w, y, q, bt, u, d, R)
  BY <1>1, <1>2, <1>3, <1>4, <1>5, <1>6, <1>7 DEF Together
<1> HIDE DEF o, q
<1>9. Paired(v, o, w, q, R) /\ at[Len(v.items)] = bt[Len(w.items)]
  <2> DEFINE L == Value[n - 1]
  <2>1. v \in Containers(L) /\ w \in Containers(L)
    BY <1>1, <1>2
  <2> HIDE DEF L
  <2> QED
    BY <1>8, <2>1, Counterparts
<1>10. E = D
  BY <1>1, <1>2, <1>9, ContainersIs DEF Paired
<1>11. v.kind # BeginObject => o = q
  <2>1. v.kind = w.kind
    BY <1>9 DEF Paired
  <2> QED
    BY <1>10, <2>1 DEF OrderOf, InOrder, o, q
<1>12. \A i, j \in D : <<i, j>> \in R => w.items[j] \in Orders[n - 1][v.items[i]]
  BY DEF R
<1>13. w \in Orders[n][v]
  <2>1. q \in Bijection(D, D) /\ o \in Bijection(D, D)
    BY <1>1, <1>2, <1>10
  <2> QED
    BY <1>1, <1>2, <1>9, <1>11, <1>12, <2>1, CounterpartOrders
<1> QED
  BY <1>3, <1>4, <1>9, <1>13

\* Values that are written the same at one place are reorderings of each other.
LEMMA WrittenAlike ==
    ASSUME NEW u
    PROVE  \A n \in 0..Height : \A k \in 0..MaxDepth : \A v, w \in Value[n] : \A d \in Nat :
               Alike(n, k, v, w, u, d)
<1> DEFINE Good(n) == \A k \in 0..MaxDepth : \A v, w \in Value[n] : \A d \in Nat :
                          Alike(n, k, v, w, u, d)
           T == {n \in Nat : n <= Height => Good(n)}
<1>1. Height \in Nat
  BY DepthAssumption
<1>2. ASSUME NEW n \in 0..Height, n > 0 => Good(n - 1) PROVE Good(n)
  <2> SUFFICES ASSUME NEW k \in 0..MaxDepth, NEW v \in Value[n], NEW w \in Value[n], NEW d \in Nat
               PROVE  Alike(n, k, v, w, u, d)
    OBVIOUS
  <2>1. CASE IsContainer(v) /\ IsContainer(w)
    BY <1>2, <2>1, ContainersAlike
  <2>2. CASE ~(IsContainer(v) /\ IsContainer(w))
    <3> SUFFICES ASSUME Write[k][v] # Bad, Write[k][w] # Bad,
                        Stands(Write[k][v], u, d), Stands(Write[k][w], u, d)
                 PROVE  w \in Orders[n][v] /\ Len(Write[k][v]) = Len(Write[k][w])
      BY DEF Alike
    <3>0. /\ ~IsContainer(v) => u[d + 1] \in Lexemes
          /\ IsContainer(v) => u[d + 1] \notin Lexemes
          /\ ~IsContainer(w) => u[d + 1] \in Lexemes
          /\ IsContainer(w) => u[d + 1] \notin Lexemes
      <4>1. /\ ~IsContainer(v) => u[d + 1] \in Lexemes
            /\ IsContainer(v) => u[d + 1] \notin Lexemes
        BY HeadIs
      <4>2. /\ ~IsContainer(w) => u[d + 1] \in Lexemes
            /\ IsContainer(w) => u[d + 1] \notin Lexemes
        BY HeadIs
      <4> QED
        BY <4>1, <4>2
    <3>1. ~IsContainer(v) /\ ~IsContainer(w)
      BY <2>2, <3>0
    <3>2. /\ u[d + 1] = v.is /\ v \in Leaves /\ IsFinite(v) /\ Len(Write[k][v]) = 1
          /\ u[d + 1] = w.is /\ w \in Leaves /\ IsFinite(w) /\ Len(Write[k][w]) = 1
      BY <3>1, HeadIs
    <3>3. Leaf(Read["raw"][v.is]) = v /\ Leaf(Read["raw"][w.is]) = w
      BY <3>2, ReadAssumption
    <3>4. v = w
      BY <3>2, <3>3
    <3> QED
      BY <3>1, <3>2, <3>4, OrdersHave
  <2> QED
    BY <2>1, <2>2
<1> HIDE DEF Good
<1>3. 0 \in T
  BY <1>1, <1>2
<1>4. ASSUME NEW n \in Nat, n \in T PROVE n + 1 \in T
  <2> SUFFICES ASSUME n + 1 <= Height PROVE Good(n + 1)
    OBVIOUS
  <2>1. n + 1 \in 0..Height /\ n <= Height /\ (n + 1) - 1 = n
    BY <1>1
  <2>2. Good((n + 1) - 1)
    BY <1>4, <2>1
  <2> QED
    BY <1>2, <2>1, <2>2
<1> HIDE DEF T
<1>5. Nat \subseteq T
  BY <1>3, <1>4, NatInduct
<1>6. \A n \in 0..Height : Good(n)
  BY <1>1, <1>5 DEF T
<1> QED
  BY <1>6 DEF Good

\* Two values have one canonical form if and only if they differ in nothing but the order
\* of members.
LEMMA FormMeansValue ==
    ASSUME NEW v \in Value[Height], NEW w \in Value[Height], WriteValue(v, 0) # Bad
    PROVE  WriteValue(v, 0) = WriteValue(w, 0) <=> w \in Reorderings(v)
<1>1. /\ Height \in 0..Height /\ MaxDepth \in 0..MaxDepth /\ MaxDepth - 0 = MaxDepth
  BY DepthAssumption
<1>2. w \in Reorderings(v) => WriteValue(v, 0) = WriteValue(w, 0)
  BY Unordered
<1>3. ASSUME WriteValue(v, 0) = WriteValue(w, 0) PROVE w \in Reorderings(v)
  <2> DEFINE u == WriteValue(v, 0)
  <2>1. Write[MaxDepth][v] = u /\ Write[MaxDepth][w] = u /\ u # Bad
    BY <1>1, <1>3 DEF WriteValue
  <2>2. u \in Seq(Tokens)
    BY <1>1, <2>1, WriteDomain
  <2> HIDE DEF u
  <2>3. Stands(u, u, 0)
    BY <2>2 DEF Stands
  <2>4. Alike(Height, MaxDepth, v, w, u, 0)
    BY <1>1, WrittenAlike
  <2> QED
    BY <2>1, <2>3, <2>4 DEF Alike, Reorderings
<1> QED
  BY <1>2, <1>3

-----------------------------------------------------------------------------
(* What is read off a result. *)

\* The positions of the members of a name.
At(v, name) == {i \in DOMAIN v.names : v.names[i] = name}

LEMMA GetIs ==
    ASSUME NEW v, NEW name
    PROVE  /\ v.kind # BeginObject \/ At(v, name) = {} => Get(v, name) = None
           /\ v.kind = BeginObject /\ At(v, name) # {} =>
                  \E i \in At(v, name) : Get(v, name) = Some(v.items[i])
<1>1. BeginObject = "{"
  BY DEF BeginObject
<1> DEFINE i == CHOOSE i \in At(v, name) : TRUE
<1>2. v.kind # BeginObject \/ At(v, name) = {} => Get(v, name) = None
  BY <1>1, Zenon DEF Get, At
<1>3. v.kind = BeginObject /\ At(v, name) # {} => Get(v, name) = Some(v.items[i])
  BY <1>1, Zenon DEF Get, At
<1>4. At(v, name) # {} => i \in At(v, name)
  OBVIOUS
<1> HIDE DEF i
<1> QED
  BY <1>2, <1>3, <1>4

\* A value's kind says whether it is a container.
LEMMA KindIs ==
    ASSUME NEW v \in Value[Height]
    PROVE  /\ v.kind \in {BeginObject, BeginArray} <=> IsContainer(v)
           /\ IsContainer(v) => v.kind # "string"
<1>1. ~IsContainer(v) => v.kind \in Kinds
  BY ValueHas, LeafIs
<1>2. IsContainer(v) => v.kind \in {BeginObject, BeginArray}
  BY ValueHas, ContainersIs
<1>3. BeginObject \notin Kinds /\ BeginArray \notin Kinds /\ "string" \notin {BeginObject, BeginArray}
  BY DEF Kinds, BeginObject, BeginArray
<1> QED
  BY <1>1, <1>2, <1>3

\* A member of a value is one.
LEMMA GetType ==
    ASSUME NEW v \in Value[Height], NEW name, Get(v, name) # None
    PROVE  \E w \in Value[Height] : Get(v, name) = Some(w)
<1>1. v.kind = BeginObject
  BY GetIs
<1>2. PICK i \in At(v, name) : Get(v, name) = Some(v.items[i])
  BY GetIs
<1>3. IsContainer(v) /\ v \in Containers(Value[Height - 1])
  BY <1>1, KindIs, ValueHas
<1>4. i \in DOMAIN v.items
  BY <1>1, <1>2, <1>3, ContainersIs DEF At
<1>5. v.items[i] \in Value[Height]
  BY <1>3, <1>4, ValueHas
<1> QED
  BY <1>2, <1>5

\* So are the items of an array.
LEMMA ArrayType ==
    ASSUME NEW v \in Value[Height], AsArray(Some(v)) # None
    PROVE  /\ AsArray(Some(v)) = Some(v.items)
           /\ ToSet(v.items) \subseteq Value[Height]
<1>1. Some(v) # None /\ Some(v)[1] = v
  BY DEF Some, None
<1> DEFINE o == Some(v)
<1>2. AsArray(o) = IF o # None /\ o[1].kind = "[" THEN Some(o[1].items) ELSE None
  BY Zenon DEF AsArray
<1>3. v.kind = "[" /\ AsArray(o) = Some(v.items)
  BY <1>1, <1>2, Zenon
<1>4. v.kind = BeginArray
  BY <1>3 DEF BeginArray
<1>5. IsContainer(v)
  BY <1>4, KindIs
<1>6. \A i \in DOMAIN v.items : v.items[i] \in Value[Height]
  BY <1>5, ValueHas
<1>7. ToSet(v.items) \subseteq Value[Height]
  BY <1>6 DEF ToSet
<1> QED
  BY <1>3, <1>7

\* The tools of a result are values.
LEMMA ToolsAre ==
    ASSUME NEW result \in Value[Height], FromToolsList(result) # None
    PROVE  ToSet(FromToolsList(result)[1]) \subseteq Value[Height]
<1> DEFINE tools == Get(result, "tools")
           from == IF tools # None THEN tools ELSE Some(result)
<1>1. FromToolsList(result) = AsArray(from)
  BY Zenon DEF FromToolsList
<1>2. \E v \in Value[Height] : from = Some(v)
  <2>1. CASE tools # None
    BY <2>1, GetType
  <2>2. CASE tools = None
    BY <2>2
  <2> QED
    BY <2>1, <2>2
<1>3. PICK v \in Value[Height] : from = Some(v)
  BY <1>2
<1> HIDE DEF from
<1>4. AsArray(Some(v)) # None
  BY <1>1, <1>3
<1>5. FromToolsList(result) = Some(v.items) /\ ToSet(v.items) \subseteq Value[Height]
  BY <1>1, <1>3, <1>4, ArrayType
<1>6. Some(v.items)[1] = v.items
  BY DEF Some
<1> QED
  BY <1>5, <1>6

\* Reordered, a value is the same string or none.
LEMMA StrSame ==
    ASSUME NEW n \in 0..Height, NEW v \in Value[n], NEW w \in Orders[n][v]
    PROVE  AsStr(Some(w)) = AsStr(Some(v))
<1>1. CASE ~IsContainer(v)
  BY <1>1, OrdersHave
<1>2. CASE IsContainer(v)
  <2>1. w.kind = v.kind
    <3>1. PICK p \in Arrangements(v),
               c \in Picks([i \in DOMAIN v.items |-> Orders[n - 1][v.items[i]]]) :
                  w = Reordered(v, p, c)
      BY <1>2, OrdersHave
    <3> QED
      BY <3>1 DEF Reordered
  <2>2. v.kind # "string"
    BY <1>2, LevelIs, KindIs
  <2>3. ASSUME NEW z, z.kind # "string" PROVE AsStr(Some(z)) = None
    <3>1. Some(z)[1] = z
      BY DEF Some
    <3> QED
      BY <2>3, <3>1, Zenon DEF AsStr
  <2> QED
    BY <2>1, <2>2, <2>3
<1> QED
  BY <1>1, <1>2

\* Reordered, a value that has a canonical form has the same name.
LEMMA NameSame ==
    ASSUME NEW v \in Value[Height], WriteValue(v, 0) # Bad, NEW w \in Reorderings(v)
    PROVE  NameIn(w) = NameIn(v)
<1>1. Height \in 0..Height /\ MaxDepth \in 0..MaxDepth /\ MaxDepth - 0 = MaxDepth
  BY DepthAssumption
<1>2. w \in Orders[Height][v] /\ Write[MaxDepth][v] # Bad
  BY <1>1 DEF Reorderings, WriteValue
<1> DEFINE name == "name"
<1>3. NameIn(w) = AsStr(Get(w, name)) /\ NameIn(v) = AsStr(Get(v, name))
  BY DEF NameIn
<1> HIDE DEF name
<1>4. CASE ~IsContainer(v)
  BY <1>1, <1>2, <1>4, OrdersHave
<1>5. CASE IsContainer(v)
  <2> DEFINE of == [i \in DOMAIN v.items |-> Orders[Height - 1][v.items[i]]]
  <2>1. PICK p \in Arrangements(v), c \in Picks(of) : w = Reordered(v, p, c)
    BY <1>1, <1>2, <1>5, OrdersHave
  <2>2. \A i \in DOMAIN v.items : c[i] \in Orders[Height - 1][v.items[i]]
    <3>1. DOMAIN of = DOMAIN v.items /\ \A i \in DOMAIN of : c[i] \in of[i]
      BY <2>1 DEF Picks
    <3> QED
      BY <3>1
  <2>3. /\ w.kind = v.kind
        /\ w.names = [i \in DOMAIN v.names |-> v.names[p[i]]]
        /\ w.items = [i \in DOMAIN v.items |-> c[p[i]]]
    BY <2>1 DEF Reordered
  <2>4. CASE v.kind # BeginObject
    BY <1>3, <2>3, <2>4, GetIs
  <2>5. CASE v.kind = BeginObject
    <3>1. /\ Height - 1 \in 0..Height /\ v \in NoRepeats
          /\ \A i \in DOMAIN v.items : v.items[i] \in Value[Height - 1]
      BY <1>1, <1>2, <1>5, <2>5, WriteParts
    <3>2. DOMAIN v.names = DOMAIN v.items
      BY <1>5, <2>5, ValueHas, ContainersIs
    <3> DEFINE D == DOMAIN v.names
    <3>3. p \in Bijection(D, D)
      BY <2>1, <2>5 DEF Arrangements, Orderings
    <3>4. p \in [D -> D] /\ \A a \in D : \E b \in D : p[b] = a
      <4> HIDE DEF D
      <4>1. p \in [D -> D]
        BY <3>3, BijectionIs, Zenon
      <4>2. \A a \in D : \E b \in D : p[b] = a
        BY <3>3, BijectionIs, Zenon
      <4> QED
        BY <4>1, <4>2
    <3>5. \A i \in D : w.names[i] = v.names[p[i]] /\ w.items[i] = c[p[i]] /\ p[i] \in D
      BY <2>3, <3>2, <3>4
    <3>6. DOMAIN w.names = D
      BY <2>3
    <3>7. CASE At(v, name) = {}
      <4>1. At(w, name) = {}
        BY <3>5, <3>6, <3>7 DEF At
      <4>2. Get(w, name) = None /\ Get(v, name) = None
        BY <3>7, <4>1, GetIs
      <4> QED
        BY <1>3, <4>2
    <3>8. CASE At(v, name) # {}
      <4>1. PICK j \in At(v, name) : Get(v, name) = Some(v.items[j])
        BY <2>5, <3>8, GetIs
      <4>2. At(w, name) # {}
        BY <3>4, <3>5, <3>6, <4>1 DEF At
      <4>3. PICK i \in At(w, name) : Get(w, name) = Some(w.items[i])
        BY <2>3, <2>5, <4>2, GetIs
      <4>4. i \in D /\ j \in D /\ v.names[p[i]] = name /\ v.names[j] = name
        BY <3>5, <3>6, <4>1, <4>3 DEF At
      <4>5. p[i] = j
        BY <3>1, <3>5, <4>4 DEF NoRepeats
      <4>6. w.items[i] = c[j]
        BY <3>5, <4>4, <4>5
      <4>7. c[j] \in Orders[Height - 1][v.items[j]] /\ v.items[j] \in Value[Height - 1]
        BY <2>2, <3>1, <3>2, <4>4
      <4>8. AsStr(Some(c[j])) = AsStr(Some(v.items[j]))
        BY <3>1, <4>7, StrSame
      <4> QED
        BY <1>3, <4>1, <4>3, <4>6, <4>8
    <3> QED
      BY <3>7, <3>8
  <2> QED
    BY <2>4, <2>5
<1> QED
  BY <1>4, <1>5

-----------------------------------------------------------------------------
(* Values laid out in the order they have. *)

\* The items of v, laid out.
LaidItems(v, n) == [i \in DOMAIN v.items |-> Laid[n][v.items[i]]]

LEMMA LaidAre ==
    ASSUME NEW n \in 0..Height, NEW v \in Value[n]
    PROVE  /\ ~IsContainer(v) => Laid[n][v] = <<v.is>>
           /\ IsContainer(v) => Laid[n][v] = Bracketed(v, LaidItems(v, n - 1), InOrder(v))
<1> DEFINE body(w) ==
           IF ~IsContainer(w) THEN <<w.is>>
           ELSE Bracketed(w, [i \in DOMAIN w.items |-> Laid[n - 1][w.items[i]]], InOrder(w))
<1>1. Laid[n] = [w \in Value[n] |-> body(w)]
  BY LaidIs, Zenon
<1>2. Laid[n][v] = body(v)
  <2> HIDE DEF body
  <2> QED
    BY <1>1
<1> QED
  BY <1>2, Zenon DEF LaidItems

\* It is a text.
LEMMA LaidType ==
    \A n \in 0..Height : \A v \in Value[n] : Laid[n][v] \in Seq(Tokens) /\ Laid[n][v] # <<>>
<1> DEFINE Good(n) == \A v \in Value[n] : Laid[n][v] \in Seq(Tokens) /\ Laid[n][v] # <<>>
           T == {n \in Nat : n <= Height => Good(n)}
<1>1. Height \in Nat
  BY DepthAssumption
<1>2. ASSUME NEW n \in 0..Height, n > 0 => Good(n - 1) PROVE Good(n)
  <2> SUFFICES ASSUME NEW v \in Value[n] PROVE Laid[n][v] \in Seq(Tokens) /\ Laid[n][v] # <<>>
    OBVIOUS
  <2>1. CASE ~IsContainer(v)
    <3>1. Laid[n][v] = <<v.is>>
      BY <2>1, LaidAre
    <3>2. v.is \in Tokens
      BY <2>1, LevelIs, LeafIs, TokensAre
    <3> QED
      BY <3>1, <3>2
  <2>2. CASE IsContainer(v)
    <3> DEFINE x == LaidItems(v, n - 1)
               o == InOrder(v)
               Q == Seq(Tokens)
               m == Len(v.items)
    <3>1. n > 0 /\ n - 1 \in 0..Height /\ v \in Containers(Value[n - 1]) /\ v \in Value[Height]
      BY <2>2, LevelIs
    <3>2. m \in Nat /\ DOMAIN v.items = 1..m /\ \A i \in 1..m : v.items[i] \in Value[n - 1]
      BY <3>1, ContainersIs
    <3>3. x = [i \in 1..m |-> x[i]] /\ \A i \in 1..m : x[i] \in Q
      BY <1>2, <3>1, <3>2 DEF LaidItems
    <3>4. x \in Seq(Q) /\ Len(x) = m
      <4> HIDE DEF x, Q, m
      <4> QED
        BY <3>2, <3>3
    <3>5. o \in [DOMAIN v.items -> DOMAIN v.items]
      BY DEF InOrder
    <3>6. Laid[n][v] = Bracketed(v, x, o)
      BY <2>2, LaidAre
    <3> HIDE DEF x, o
    <3> QED
      BY <3>1, <3>4, <3>5, <3>6, BracketedType
  <2> QED
    BY <2>1, <2>2
<1> HIDE DEF Good
<1>3. 0 \in T
  BY <1>1, <1>2
<1>4. ASSUME NEW n \in Nat, n \in T PROVE n + 1 \in T
  <2> SUFFICES ASSUME n + 1 <= Height PROVE Good(n + 1)
    OBVIOUS
  <2>1. n + 1 \in 0..Height /\ n <= Height /\ (n + 1) - 1 = n
    BY <1>1
  <2>2. Good((n + 1) - 1)
    BY <1>4, <2>1
  <2> QED
    BY <1>2, <2>1, <2>2
<1> HIDE DEF T
<1>5. Nat \subseteq T
  BY <1>3, <1>4, NatInduct
<1>6. \A n \in 0..Height : Good(n)
  BY <1>1, <1>5 DEF T
<1> QED
  BY <1>6 DEF Good

\* A container that is laid out.
LEMMA LaidParts ==
    ASSUME NEW n \in 0..Height, NEW v \in Value[n], IsContainer(v)
    PROVE  /\ n > 0 /\ n - 1 \in 0..Height /\ v \in Containers(Value[n - 1])
           /\ LaidItems(v, n - 1) \in Seq(Seq(Tokens)) /\ Len(LaidItems(v, n - 1)) = Len(v.items)
           /\ \A i \in DOMAIN v.items :
                /\ LaidItems(v, n - 1)[i] = Laid[n - 1][v.items[i]]
                /\ v.items[i] \in Value[n - 1]
           /\ InOrder(v) \in [DOMAIN v.items -> DOMAIN v.items]
           /\ Laid[n][v] = Bracketed(v, LaidItems(v, n - 1), InOrder(v))
<1>1. n > 0 /\ n - 1 \in 0..Height /\ v \in Containers(Value[n - 1])
  BY LevelIs
<1>2. Laid[n][v] = Bracketed(v, LaidItems(v, n - 1), InOrder(v))
  BY LaidAre
<1>3. InOrder(v) \in [DOMAIN v.items -> DOMAIN v.items]
  BY DEF InOrder
<1> DEFINE x == LaidItems(v, n - 1)
           Q == Seq(Tokens)
           m == Len(v.items)
<1>4. m \in Nat /\ DOMAIN v.items = 1..m /\ \A i \in 1..m : v.items[i] \in Value[n - 1]
  BY <1>1, ContainersIs
<1>5. \A i \in 1..m : x[i] = Laid[n - 1][v.items[i]]
  BY <1>4 DEF LaidItems
<1>6. x = [i \in 1..m |-> x[i]] /\ \A i \in 1..m : x[i] \in Q
  BY <1>1, <1>4, <1>5, LaidType DEF LaidItems
<1>7. x \in Seq(Q) /\ Len(x) = m
  <2> HIDE DEF x, Q, m
  <2> QED
    BY <1>4, <1>6
<1> QED
  BY <1>1, <1>2, <1>3, <1>4, <1>5, <1>7

\* Where its parts are.
LEMMA LaidHead ==
    ASSUME NEW n \in 0..Height, NEW v \in Value[n], NEW u, NEW d \in Nat, Stands(Laid[n][v], u, d)
    PROVE  /\ ~IsContainer(v) => /\ u[d + 1] = v.is /\ v.is \in Lexemes /\ v \in Leaves
                                 /\ Len(Laid[n][v]) = 1
           /\ IsContainer(v) =>
                  /\ u[d + 1] = v.kind
                  /\ \E at : /\ Places(v, LaidItems(v, n - 1), InOrder(v), u, d, at)
                             /\ Len(Laid[n][v]) = at[Len(v.items)] + 1 - d
<1>1. v \in Value[Height] /\ (~IsContainer(v) => v \in Leaves)
  BY LevelIs
<1>2. CASE ~IsContainer(v)
  <2>1. v.is \in Lexemes
    BY <1>1, <1>2, LeafIs
  <2> DEFINE l == v.is
  <2>2. Laid[n][v] = <<l>>
    BY <1>1, <1>2, LaidAre
  <2>3. Stands(<<l>>, u, d) /\ Len(<<l>>) = 1
    BY <2>2
  <2> HIDE DEF l
  <2>4. u[d + 1] = l
    BY <2>3, OneStands
  <2> QED
    BY <1>1, <1>2, <2>1, <2>2, <2>4 DEF l
<1>3. CASE IsContainer(v)
  <2> DEFINE x == LaidItems(v, n - 1)
             o == InOrder(v)
             b == Bracketed(v, x, o)
  <2>1. /\ v \in Containers(Value[n - 1]) /\ x \in Seq(Seq(Tokens)) /\ Len(x) = Len(v.items)
        /\ o \in [DOMAIN v.items -> DOMAIN v.items] /\ Laid[n][v] = b
    BY <1>3, LaidParts
  <2> HIDE DEF x, o
  <2>2. PICK at : Places(v, x, o, u, d, at) /\ Len(b) = at[Len(v.items)] + 1 - d
    BY <2>1, BracketedAt
  <2>3. u[d + 1] = v.kind
    BY <2>2 DEF Places
  <2> HIDE DEF b
  <2> QED
    BY <1>3, <2>1, <2>2, <2>3 DEF x, o
<1> QED
  BY <1>2, <1>3

-----------------------------------------------------------------------------
(* A canonical form is a value laid out, its members in the order of their names. *)

\* A value within a bound is within a wider one.
LEMMA WithinGrows ==
    ASSUME NEW P, NEW Q, P \subseteq Q
    PROVE  \A n \in 0..Height : \A m \in 0..Height : \A v \in Value[Height] :
               n <= m /\ v \in Within(P, n) => v \in Within(Q, m)
<1> DEFINE Good(n) == \A m \in 0..Height : \A v \in Value[Height] :
                          n <= m /\ v \in Within(P, n) => v \in Within(Q, m)
           T == {n \in Nat : n <= Height => Good(n)}
<1>1. Height \in Nat
  BY DepthAssumption
<1>2. ASSUME NEW n \in 0..Height, n > 0 => Good(n - 1) PROVE Good(n)
  <2> SUFFICES ASSUME NEW m \in 0..Height, NEW v \in Value[Height], n <= m, v \in Within(P, n)
               PROVE  v \in Within(Q, m)
    OBVIOUS
  <2>1. CASE ~IsContainer(v)
    BY <2>1, WithinHas
  <2>2. CASE IsContainer(v)
    <3>1. n > 0 /\ v \in P /\ \A i \in DOMAIN v.items : v.items[i] \in Within(P, n - 1)
      BY <2>2, WithinHas
    <3>2. \A i \in DOMAIN v.items : v.items[i] \in Value[Height]
      BY <2>2, ValueHas
    <3>3. m > 0 /\ m - 1 \in 0..Height /\ n - 1 <= m - 1
      BY <1>1, <3>1
    <3>4. \A i \in DOMAIN v.items : v.items[i] \in Within(Q, m - 1)
      BY <1>2, <3>1, <3>2, <3>3
    <3> QED
      BY <3>1, <3>3, <3>4, WithinHas
  <2> QED
    BY <2>1, <2>2
<1> HIDE DEF Good
<1>3. 0 \in T
  BY <1>1, <1>2
<1>4. ASSUME NEW n \in Nat, n \in T PROVE n + 1 \in T
  <2> SUFFICES ASSUME n + 1 <= Height PROVE Good(n + 1)
    OBVIOUS
  <2>1. n + 1 \in 0..Height /\ n <= Height /\ (n + 1) - 1 = n
    BY <1>1
  <2>2. Good((n + 1) - 1)
    BY <1>4, <2>1
  <2> QED
    BY <1>2, <2>1, <2>2
<1> HIDE DEF T
<1>5. Nat \subseteq T
  BY <1>3, <1>4, NatInduct
<1>6. \A n \in 0..Height : Good(n)
  BY <1>1, <1>5 DEF T
<1> QED
  BY <1>6 DEF Good

\* Containers as canonicalization leaves them.
Canonic == Ascending \cap NoRepeats

\* s is v as it is written: its members in their order, at every level.
Arranges(s, v, n, k) ==
    s \in Orders[n][v] /\ Laid[n][s] = Write[k][v] /\ s \in Within(Canonic, k)

\* Members in the order of their names.
LEMMA SortedAscends ==
    ASSUME NEW v \in NoRepeats, v.kind = BeginObject, NEW w \in Value[Height], w.kind = v.kind,
           DOMAIN w.names = DOMAIN v.names,
           \A i \in DOMAIN v.names : w.names[i] = v.names[Sorted(v)[i]]
    PROVE  w \in Canonic
<1> DEFINE D == DOMAIN v.names
           s == Sorted(v)
<1>1. v \in Value[Height] /\ IsContainer(v) /\ IsContainer(w)
  BY DEF NoRepeats, IsContainer
<1>2. s \in Bijection(D, D)
  BY <1>1, SortedIs DEF Orderings
<1>3. \A i, j \in D : i < j => Precedes(v.names[s[i]], v.names[s[j]])
  BY <1>1, SortedStrict
<1>4. w \in NoRepeats
  BY <1>1, <1>2, ReorderedNames
<1>5. w.names \in Seq(Names)
  BY <1>1, ValueHas, ContainersIs
<1>6. ASSUME NEW i \in 2..Len(w.names)
      PROVE  LexLess(Utf16(Scalars(w.names[i - 1])), Utf16(Scalars(w.names[i])))
  <2>1. i - 1 \in D /\ i \in D /\ i - 1 < i
    <3> DEFINE m == Len(w.names)
    <3>1. m \in Nat /\ D = 1..m
      BY <1>5
    <3> HIDE DEF m, D
    <3>2. i \in 2..m
      BY DEF m
    <3> QED
      BY <3>1, <3>2
  <2> HIDE DEF s
  <2>2. Precedes(w.names[i - 1], w.names[i])
    BY <1>3, <2>1 DEF s
  <2> QED
    BY <2>2 DEF Precedes
<1> QED
  BY <1>4, <1>6 DEF Canonic, Ascending

\* A container, each of its items as it is written.
LEMMA ContainerArranged ==
    ASSUME NEW n \in 0..Height, NEW v \in Value[n], IsContainer(v),
           NEW k \in 0..MaxDepth, Write[k][v] # Bad,
           \A w \in Value[n - 1] : Write[k - 1][w] # Bad => \E s : Arranges(s, w, n - 1, k - 1)
    PROVE  \E s : Arranges(s, v, n, k)
<1> DEFINE x == Written(v, k)
           o == OrderOf(v)
           D == DOMAIN v.items
           c == [i \in D |-> CHOOSE s : Arranges(s, v.items[i], n - 1, k - 1)]
           of == [i \in D |-> Orders[n - 1][v.items[i]]]
           r == Reordered(v, o, c)
           L == Value[n - 1]
<1>1. /\ n > 0 /\ n - 1 \in 0..Height /\ v \in Containers(L) /\ k - 1 \in 0..MaxDepth
      /\ v.kind = BeginObject => v \in NoRepeats
      /\ \A i \in D : /\ x[i] = Write[k - 1][v.items[i]] /\ x[i] # Bad /\ v.items[i] \in L
      /\ o \in Bijection(D, D) /\ o \in [D -> D]
      /\ Write[k][v] = Bracketed(v, x, o)
  BY WriteParts
<1>2. \A i \in D : Arranges(c[i], v.items[i], n - 1, k - 1)
  BY <1>1
<1> HIDE DEF c, x
<1>3. \A i \in D : /\ c[i] \in of[i] /\ c[i] \in L
                   /\ Laid[n - 1][c[i]] = x[i] /\ c[i] \in Within(Canonic, k - 1)
  BY <1>1, <1>2, OrdersWrite DEF Arranges
<1>4. v.kind = BeginObject => DOMAIN v.names = D
  BY <1>1, ContainersIs
<1>5. o \in Arrangements(v)
  <2>1. v.kind = BeginObject => o \in Orderings(v)
    BY <1>1, <1>4 DEF Orderings
  <2>2. v.kind # BeginObject => o = InOrder(v)
    BY DEF OrderOf
  <2> HIDE DEF o
  <2> QED
    BY <2>1, <2>2 DEF Arrangements
<1>6. c = [i \in D |-> c[i]]
  BY DEF c
<1>7. c \in Picks(of) /\ c \in [D -> L]
  <2>1. \A i \in D : of[i] \subseteq L
    BY <1>1, OrdersWrite
  <2>2. of = [i \in D |-> of[i]]
    OBVIOUS
  <2> HIDE DEF D, L, of
  <2>3. c \in [D -> L]
    BY <1>3, <1>6
  <2> QED
    BY <1>3, <2>1, <2>2, <2>3, PicksAre
<1>8. r \in Orders[n][v]
  BY <1>5, <1>7, OrdersHave
<1> HIDE DEF o
<1>9. /\ r \in Containers(L) /\ r.kind = v.kind
      /\ DOMAIN r.items = D /\ DOMAIN r.names = DOMAIN v.names
      /\ \A i \in D : o[i] \in D /\ r.items[i] = c[o[i]]
      /\ \A i \in DOMAIN v.names : r.names[i] = v.names[o[i]]
  <2> HIDE DEF L
  <2> QED
    BY <1>1, <1>7, ReorderedIs
<1> HIDE DEF r, of
<1>10. r \in Value[n] /\ r \in Value[Height] /\ IsContainer(r)
  <2>1. r \in Value[n]
    BY <1>8, OrdersWrite
  <2> QED
    BY <1>9, <2>1, LevelIs, ContainersIs
<1>11. Laid[n][r] = Write[k][v]
  <2> DEFINE y == LaidItems(r, n - 1)
             q == InOrder(r)
  <2>1. Laid[n][r] = Bracketed(r, y, q)
    BY <1>10, LaidAre
  <2>2. DOMAIN q = D /\ \A i \in D : q[i] = i
    BY <1>9 DEF InOrder
  <2>3. \A i \in D : y[i] = x[o[i]]
    BY <1>3, <1>9 DEF LaidItems
  <2>4. DOMAIN o = D
    BY <1>1
  <2> HIDE DEF y, q
  <2>5. \A i \in D : y[q[i]] = x[o[i]]
    BY <2>2, <2>3
  <2>6. \A i \in D : r.kind = BeginObject => r.names[q[i]] = v.names[o[i]]
    BY <1>4, <1>9, <2>2
  <2>7. Bracketed(r, y, q) = Bracketed(v, x, o)
    BY <1>9, <2>2, <2>4, <2>5, <2>6, BracketedSame
  <2> QED
    BY <1>1, <2>1, <2>7
<1>12. r \in Canonic
  <2>1. CASE v.kind = BeginObject
    <3>1. o = Sorted(v) /\ v \in NoRepeats
      BY <1>1, <2>1 DEF o, OrderOf
    <3> QED
      BY <1>9, <1>10, <2>1, <3>1, SortedAscends
  <2>2. CASE v.kind # BeginObject
    <3>1. r.names = <<>> /\ DOMAIN r.names = {}
      BY <1>9, <2>2, ContainersIs
    <3>2. Len(r.names) = 0
      BY <3>1
    <3>3. \A i \in 2..Len(r.names) : FALSE
      BY <3>2
    <3> QED
      BY <1>10, <3>1, <3>3 DEF Canonic, Ascending, NoRepeats
  <2> QED
    BY <2>1, <2>2
<1>13. r \in Within(Canonic, k)
  <2>1. k \in 0..Height /\ k > 0
    BY <1>1, DepthAssumption, PathAssumption, PathsAssumption DEF Parsers
  <2>2. \A i \in DOMAIN r.items : r.items[i] \in Within(Canonic, k - 1)
    BY <1>3, <1>9
  <2> QED
    BY <1>10, <1>12, <2>1, <2>2, WithinHas
<1> QED
  BY <1>8, <1>11, <1>13 DEF Arranges

\* Of every value that is written.
LEMMA ArrangedExists ==
    \A n \in 0..Height : \A k \in 0..MaxDepth : \A v \in Value[n] :
        Write[k][v] # Bad => \E s : Arranges(s, v, n, k)
<1> DEFINE Good(n) == \A k \in 0..MaxDepth : \A v \in Value[n] :
                          Write[k][v] # Bad => \E s : Arranges(s, v, n, k)
           T == {n \in Nat : n <= Height => Good(n)}
<1>1. Height \in Nat
  BY DepthAssumption
<1>2. ASSUME NEW n \in 0..Height, n > 0 => Good(n - 1) PROVE Good(n)
  <2> SUFFICES ASSUME NEW k \in 0..MaxDepth, NEW v \in Value[n], Write[k][v] # Bad
               PROVE  \E s : Arranges(s, v, n, k)
    OBVIOUS
  <2>1. CASE ~IsContainer(v)
    <3>1. v \in Value[Height]
      BY LevelIs
    <3>2. Write[k][v] = Laid[n][v] /\ IsFinite(v)
      BY <2>1, <3>1, WrittenIs, LaidAre
    <3>3. k \in 0..Height
      BY DepthAssumption, PathAssumption, PathsAssumption DEF Parsers
    <3>4. v \in Within(Canonic, k)
      BY <2>1, <3>1, <3>2, <3>3, WithinHas
    <3>5. v \in Orders[n][v]
      BY <2>1, OrdersHave
    <3> QED
      BY <3>2, <3>4, <3>5 DEF Arranges
  <2>2. CASE IsContainer(v)
    <3>1. n > 0 /\ k - 1 \in 0..MaxDepth
      BY <2>2, WriteParts
    <3>2. \A w \in Value[n - 1] : Write[k - 1][w] # Bad => \E s : Arranges(s, w, n - 1, k - 1)
      BY <1>2, <3>1
    <3> QED
      BY <2>2, <3>2, ContainerArranged
  <2> QED
    BY <2>1, <2>2
<1> HIDE DEF Good
<1>3. 0 \in T
  BY <1>1, <1>2
<1>4. ASSUME NEW n \in Nat, n \in T PROVE n + 1 \in T
  <2> SUFFICES ASSUME n + 1 <= Height PROVE Good(n + 1)
    OBVIOUS
  <2>1. n + 1 \in 0..Height /\ n <= Height /\ (n + 1) - 1 = n
    BY <1>1
  <2>2. Good((n + 1) - 1)
    BY <1>4, <2>1
  <2> QED
    BY <1>2, <2>1, <2>2
<1> HIDE DEF T
<1>5. Nat \subseteq T
  BY <1>3, <1>4, NatInduct
<1>6. \A n \in 0..Height : Good(n)
  BY <1>1, <1>5 DEF T
<1> QED
  BY <1>6 DEF Good

\* A canonical form is a value laid out, whose own canonical form it is.
LEMMA FormIsLaid ==
    ASSUME NEW v \in Value[Height], Write[MaxDepth][v] # Bad
    PROVE  \E s \in Value[Height] :
               /\ Laid[Height][s] = Write[MaxDepth][v] /\ Write[MaxDepth][s] = Write[MaxDepth][v]
               /\ s \in Within(Canonic, MaxDepth)
<1>1. Height \in 0..Height /\ MaxDepth \in 0..MaxDepth
  BY DepthAssumption
<1>2. PICK s : Arranges(s, v, Height, MaxDepth)
  BY <1>1, ArrangedExists
<1>3. s \in Orders[Height][v]
  BY <1>2 DEF Arranges
<1>4. s \in Value[Height] /\ Write[MaxDepth][s] = Write[MaxDepth][v]
  BY <1>1, <1>3, OrdersWrite
<1> QED
  BY <1>2, <1>4 DEF Arranges

-----------------------------------------------------------------------------
(* Parser reads a canonical form back: each call under way is at work on a value    *)
(* that stands in the text.                                                       *)

\* A value whose items are of level n, and within b.
Target(v, n, b) ==
    /\ v = [kind |-> v.kind, names |-> v.names, items |-> v.items]
    /\ v.names \in Seq(Names) /\ v.items \in Seq(Value[n])
    /\ \A i \in 1..Len(v.items) : v.items[i] \in Within(Canonic, b)
    /\ v.kind = BeginObject => Len(v.names) = Len(v.items)
    /\ v.kind # BeginObject => v.names = <<>>
    /\ Distinct(v.names)

\* The entries of v stand in u, the i-th up to at[i].
Laying(v, n, u, at) ==
    /\ at \in [0..Len(v.items) -> Nat]
    /\ \A i \in 1..Len(v.items) :
        /\ i # 1 => u[at[i - 1] + 1] = ","
        /\ v.kind = BeginObject =>
            u[EntryAt(at, i) + 1] = v.names[i] /\ u[EntryAt(at, i) + 2] = ":"
        /\ Stands(Laid[n][v.items[i]], u, ItemAt(v, at, i))
        /\ at[i] = ItemAt(v, at, i) + Len(Laid[n][v.items[i]])
    /\ v.kind # "text" =>
        /\ at[Len(v.items)] + 1 \in 1..Len(u)
        /\ u[at[Len(v.items)] + 1] = Ending(v.kind)

\* The frame f has the beginning of v.
UpTo(f, v) ==
    /\ f.kind = v.kind
    /\ Len(f.items) <= Len(v.items) /\ \A i \in 1..Len(f.items) : f.items[i] = v.items[i]
    /\ Len(f.names) <= Len(v.names) /\ \A i \in 1..Len(f.names) : f.names[i] = v.names[i]

Course(f, v, at, n, b, u) == Target(v, n, b) /\ UpTo(f, v) /\ Laying(v, n, u, at)

\* A container is one.
LEMMA TargetIs ==
    ASSUME NEW n \in 0..Height, NEW v \in Value[n], IsContainer(v),
           NEW b \in 0..Height, v \in Within(Canonic, b)
    PROVE  n > 0 /\ n - 1 \in 0..Height /\ b > 0 /\ b - 1 \in 0..Height /\ Target(v, n - 1, b - 1)
<1>1. n > 0 /\ n - 1 \in 0..Height /\ v \in Containers(Value[n - 1]) /\ v \in Value[Height]
  BY LevelIs
<1>2. b > 0 /\ v \in Canonic /\ \A i \in DOMAIN v.items : v.items[i] \in Within(Canonic, b - 1)
  BY <1>1, WithinHas
<1>3. b - 1 \in 0..Height
  BY <1>2, DepthAssumption
<1>4. Distinct(v.names)
  BY <1>2 DEF Canonic, NoRepeats, Distinct
<1>5. v.kind = BeginObject => Len(v.names) = Len(v.items)
  <2> DEFINE a == v.names
             c == v.items
  <2>1. a \in Seq(Names) /\ c \in Seq(Value[n - 1])
    BY <1>1, ContainersIs
  <2>2. v.kind = BeginObject => DOMAIN a = DOMAIN c
    BY <1>1, ContainersIs
  <2> DEFINE L == Value[n - 1]
  <2> HIDE DEF a, c, L
  <2>3. v.kind = BeginObject => Len(a) = Len(c)
    BY <2>1, <2>2 DEF L
  <2> QED
    BY <2>3 DEF a, c
<1> QED
  BY <1>1, <1>2, <1>3, <1>4, <1>5, ContainersIs DEF Target

\* The container v, of level n, stands in u, its entries at these positions.
LaidAt(v, n, u, d, at) ==
    /\ Laying(v, n - 1, u, at) /\ at[0] = d + 1
    /\ at[Len(v.items)] + 1 = d + Len(Laid[n][v])

\* Where it stands, its entries do.
LEMMA LayingIs ==
    ASSUME NEW n \in 0..Height, NEW v \in Value[n], IsContainer(v),
           NEW u, NEW d \in Nat, Stands(Laid[n][v], u, d)
    PROVE  \E at : LaidAt(v, n, u, d, at)
<1> DEFINE x == LaidItems(v, n - 1)
           m == Len(v.items)
<1>1. PICK at : Places(v, x, InOrder(v), u, d, at) /\ Len(Laid[n][v]) = at[m] + 1 - d
  BY LaidHead
<1>2. /\ m \in Nat /\ DOMAIN v.items = 1..m
      /\ \A i \in 1..m : x[i] = Laid[n - 1][v.items[i]]
  BY LaidParts, ContainersIs
<1>3. \A i \in 1..m : InOrder(v)[i] = i
  BY <1>2 DEF InOrder
<1>4. at \in [0..m -> Nat] /\ at[0] = d + 1 /\ at[m] + 1 \in 1..Len(u) /\ u[at[m] + 1] = Ending(v.kind)
  BY <1>1 DEF Places
<1>5. \A i \in 1..m :
        /\ i # 1 => u[at[i - 1] + 1] = ","
        /\ v.kind = BeginObject =>
            u[EntryAt(at, i) + 1] = v.names[i] /\ u[EntryAt(at, i) + 2] = ":"
        /\ Stands(x[i], u, ItemAt(v, at, i))
        /\ at[i] = ItemAt(v, at, i) + Len(x[i])
  BY <1>1, <1>3 DEF Places
<1> HIDE DEF x
<1>6. Laying(v, n - 1, u, at)
  BY <1>2, <1>4, <1>5 DEF Laying
<1>7. at[m] + 1 = d + Len(Laid[n][v])
  <2> DEFINE l == Len(Laid[n][v])
             e == at[m]
  <2>1. e \in Nat /\ l = e + 1 - d
    BY <1>1, <1>2, <1>4
  <2> HIDE DEF l, e
  <2>2. e + 1 = d + l
    BY <2>1
  <2> QED
    BY <2>2 DEF l, e
<1>8. LaidAt(v, n, u, d, at)
  BY <1>4, <1>6, <1>7 DEF LaidAt
<1> QED
  BY <1>8, Zenon

\* What precedes the value of the i-th entry.
Precedent(u, v, at, i) ==
    /\ i # 1 => u[at[i - 1] + 1] = ","
    /\ v.kind = BeginObject =>
         u[EntryAt(at, i) + 1] = v.names[i] /\ u[EntryAt(at, i) + 2] = ":"

\* The i-th entry of v, of level n and within b, stands in u.
Ready(v, at, n, b, u, i) ==
    /\ v.items[i] \in Value[n] /\ v.items[i] \in Within(Canonic, b)
    /\ at[i - 1] \in Nat /\ EntryAt(at, i) \in Nat /\ ItemAt(v, at, i) \in Nat
    /\ Stands(Laid[n][v.items[i]], u, ItemAt(v, at, i))
    /\ ItemAt(v, at, i) + 1 <= Len(u)
    /\ at[i] = ItemAt(v, at, i) + Len(Laid[n][v.items[i]])
    /\ at[i] \in Nat
    /\ Precedent(u, v, at, i)
    /\ i # 1 => EntryAt(at, i) = at[i - 1] + 1
    /\ i = 1 => EntryAt(at, i) = at[i - 1]
    /\ v.kind = BeginObject => v.names[i] \in Names /\ ItemAt(v, at, i) = EntryAt(at, i) + 2
    /\ v.kind # BeginObject => ItemAt(v, at, i) = EntryAt(at, i)

\* So does the next entry of a call that has not got all of its value.
LEMMA NextEntry ==
    ASSUME NEW n \in 0..Height, NEW b, NEW u \in Seq(Tokens), NEW f, NEW v, NEW at,
           Course(f, v, at, n, b, u), NEW i \in Nat, i >= 1, i <= Len(v.items)
    PROVE  Ready(v, at, n, b, u, i)
<1> DEFINE m == Len(v.items)
           x == Laid[n][v.items[i]]
<1>1. /\ v.items \in Seq(Value[n]) /\ v.names \in Seq(Names)
      /\ \A j \in 1..m : v.items[j] \in Within(Canonic, b)
      /\ v.kind = BeginObject => Len(v.names) = m
      /\ at \in [0..m -> Nat]
  BY DEF Course, Target, Laying
<1>2. m \in Nat /\ v.items[i] \in Value[n]
  <2> DEFINE S == Value[n]
             s == v.items
  <2>1. s \in Seq(S) /\ i <= Len(s)
    BY <1>1
  <2> HIDE DEF S, s
  <2>2. Len(s) \in Nat /\ s[i] \in S
    BY <2>1
  <2> QED
    BY <2>2 DEF S, s
<1>3. v.kind = BeginObject => v.names[i] \in Names
  <2> DEFINE s == v.names
  <2>1. s \in Seq(Names) /\ (v.kind = BeginObject => i <= Len(s))
    BY <1>1
  <2> HIDE DEF s
  <2>2. v.kind = BeginObject => s[i] \in Names
    BY <2>1
  <2> QED
    BY <2>2 DEF s
<1>4. /\ i # 1 => u[at[i - 1] + 1] = ","
      /\ v.kind = BeginObject =>
            u[EntryAt(at, i) + 1] = v.names[i] /\ u[EntryAt(at, i) + 2] = ":"
      /\ Stands(x, u, ItemAt(v, at, i))
      /\ at[i] = ItemAt(v, at, i) + Len(x)
  <2>1. i \in 1..m
    BY <1>2
  <2> HIDE DEF m, x
  <2> QED
    BY <2>1 DEF Course, Laying, m, x
<1>5. x \in Seq(Tokens) /\ x # <<>>
  BY <1>2, LaidType
<1> HIDE DEF x, m
<1>6. i \in 0..m /\ i - 1 \in 0..m
  BY <1>2 DEF m
<1>7. at[i - 1] \in Nat /\ at[i] \in Nat
  BY <1>1, <1>6
<1> DEFINE e == EntryAt(at, i)
           d == ItemAt(v, at, i)
           c == at[i - 1]
<1>8. /\ e = c + (IF i = 1 THEN 0 ELSE 1)
      /\ d = e + (IF v.kind = BeginObject THEN 2 ELSE 0)
  BY Zenon DEF EntryAt, ItemAt
<1>9. Stands(x, u, d) /\ c \in Nat
  BY <1>4, <1>7
<1> HIDE DEF e, d, c
<1>10. /\ e \in Nat /\ (i # 1 => e = c + 1) /\ (i = 1 => e = c)
       /\ d \in Nat /\ (v.kind = BeginObject => d = e + 2) /\ (v.kind # BeginObject => d = e)
  BY <1>8, <1>9
<1>11. d + 1 <= Len(u)
  <2>1. 1 \in 1..Len(x)
    BY <1>5
  <2>2. d + 1 \in 1..Len(u)
    BY <1>9, <2>1 DEF Stands
  <2> QED
    BY <1>10, <2>2
<1>12. /\ EntryAt(at, i) \in Nat /\ ItemAt(v, at, i) \in Nat
       /\ ItemAt(v, at, i) + 1 <= Len(u)
       /\ i # 1 => EntryAt(at, i) = at[i - 1] + 1
       /\ i = 1 => EntryAt(at, i) = at[i - 1]
       /\ v.kind = BeginObject => ItemAt(v, at, i) = EntryAt(at, i) + 2
       /\ v.kind # BeginObject => ItemAt(v, at, i) = EntryAt(at, i)
  BY <1>10, <1>11, Zenon DEF e, d, c
<1>13. v.items[i] \in Within(Canonic, b)
  <2>1. i \in 1..m
    BY <1>2 DEF m
  <2> QED
    BY <1>1, <2>1 DEF m
<1>14. Precedent(u, v, at, i)
  BY <1>4 DEF Precedent
<1> QED
  BY <1>2, <1>3, <1>4, <1>7, <1>12, <1>13, <1>14, Zenon DEF x, Ready

\* A value arrives that is the next.
LEMMA Arrives ==
    ASSUME NEW n, NEW b, NEW u, NEW f, NEW v, NEW at, Course(f, v, at, n, b, u),
           FrameOK(f), Ahead(f), Distinct(f.names), Len(f.items) < Len(v.items),
           v.items \in Seq(Value[n])
    PROVE  LET g == Delivered(f, v.items[Len(f.items) + 1]) IN
           /\ Course(g, v, at, n, b, u)
           /\ Len(g.items) = Len(f.items) + 1
<1> DEFINE m == Len(f.items)
           w == v.items[m + 1]
           g == Delivered(f, w)
           l == Len(f.names)
           E == {i \in 1..(l - 1) : f.names[i] = f.names[l]}
<1>1. /\ f = [kind |-> f.kind, names |-> f.names, items |-> f.items]
      /\ Sequence(f.items) /\ Sequence(f.names)
  BY DEF FrameOK
<1>2. m \in Nat /\ l \in Nat /\ DOMAIN f.names = 1..l
  BY <1>1, SequenceLen
<1>3. E = {}
  <2> SUFFICES ASSUME NEW i \in 1..(l - 1), f.names[i] = f.names[l] PROVE FALSE
    OBVIOUS
  <2>1. i \in 1..l /\ l \in 1..l /\ i # l
    BY <1>2
  <2> HIDE DEF l
  <2> QED
    BY <1>2, <2>1 DEF Distinct
<1>4. g = [kind |-> f.kind, names |-> f.names, items |-> Append(f.items, w)]
  BY <1>1, <1>3 DEF Delivered
<1> HIDE DEF w
<1>5. /\ Len(Append(f.items, w)) = m + 1
      /\ \A i \in 1..m : Append(f.items, w)[i] = f.items[i]
      /\ Append(f.items, w)[m + 1] = w
  BY <1>1, Appended
<1>6. /\ f.kind = v.kind /\ \A i \in 1..m : f.items[i] = v.items[i]
      /\ Len(f.names) <= Len(v.names) /\ \A i \in 1..Len(f.names) : f.names[i] = v.names[i]
  BY DEF Course, UpTo
<1> DEFINE h == g.items
           c == v.items
<1>7. h = Append(f.items, w) /\ g.names = f.names /\ g.kind = f.kind
  BY <1>4
<1>8. Len(h) = m + 1 /\ Len(h) <= Len(c) /\ \A i \in 1..Len(h) : h[i] = c[i]
  <2> DEFINE q == Len(c)
             S == Value[n]
  <2>1. q \in Nat /\ m < q
    <3>1. c \in Seq(S)
      OBVIOUS
    <3> HIDE DEF S, c, m
    <3>2. Len(c) \in Nat
      BY <3>1
    <3> QED
      BY <3>2 DEF m, c
  <2>2. Len(h) = m + 1
    BY <1>5, <1>7
  <2>3. \A i \in 1..(m + 1) : h[i] = c[i]
    <3> SUFFICES ASSUME NEW i \in 1..(m + 1) PROVE h[i] = c[i]
      OBVIOUS
    <3>1. CASE i = m + 1
      BY <1>5, <1>7, <3>1 DEF w
    <3>2. CASE i # m + 1
      <4> HIDE DEF m, h
      <4>1. i \in 1..m
        BY <1>2, <3>2
      <4> QED
        BY <1>5, <1>6, <1>7, <4>1
    <3> QED
      BY <3>1, <3>2
  <2> HIDE DEF q, m
  <2>4. m + 1 <= q
    BY <1>2, <2>1
  <2> QED
    BY <2>2, <2>3, <2>4 DEF q
<1> HIDE DEF g
<1>9. UpTo(g, v)
  BY <1>6, <1>7, <1>8 DEF UpTo
<1> QED
  BY <1>8, <1>9 DEF Course, g, w, m

\* How far the frame f on top has come in v when p is due and j is the next position.
Here(f, v, at, p, j) ==
    LET i == Len(f.items) + 1 IN
    /\ p # "failed"
    /\ p = "first" => Len(f.items) = 0 /\ j = at[0] + 1
    /\ p \in {"after", "parsed"} => Len(f.items) # 0 /\ j = at[Len(f.items)] + 1
    /\ p \in {"name", "colon", "value"} => i <= Len(v.items)
    /\ p = "name" => j = EntryAt(at, i) + 1
    /\ p = "colon" => j = EntryAt(at, i) + 2
    /\ p = "value" => j = ItemAt(v, at, i) + 1

\* The frame f waits for w, which ends where the item it waits for does.
Waits(f, v, at, w, bt) ==
    LET i == Len(f.items) + 1 IN
    i <= Len(v.items) /\ w = v.items[i] /\ bt[Len(w.items)] + 1 = at[i]

Whole(s) == [kind |-> "text", names |-> <<>>, items |-> <<s>>]

\* Each frame is under way to a value that stands in u.
Along(s, of, at, u, j, p, o) ==
    /\ of[1] = Whole(s) /\ at[1][1] = Len(u)
    /\ \A k \in 1..Len(o) : Course(o[k], of[k], at[k], Height + 1 - k, MaxDepth + 1 - k, u)
    /\ \A k \in 1..(Len(o) - 1) : Waits(o[k], of[k], at[k], of[k + 1], at[k + 1])
    /\ Here(o[Len(o)], of[Len(o)], at[Len(o)], p, j)

\* What comes next.
ValueNext(f, v, at, p, j, l) ==
    LET i == Len(f.items) + 1 IN
    /\ p = "value" \/ (p = "first" /\ f.kind = BeginArray)
    /\ i <= Len(v.items) /\ j = ItemAt(v, at, i) + 1
    /\ IsContainer(v.items[i]) => l = v.items[i].kind
    /\ ~IsContainer(v.items[i]) => l = v.items[i].is
NameNext(f, v, at, p, j, l) ==
    LET i == Len(f.items) + 1 IN
    /\ p = "name" \/ (p = "first" /\ f.kind = BeginObject)
    /\ f.kind = BeginObject
    /\ i <= Len(v.items) /\ j = EntryAt(at, i) + 1 /\ l = v.names[i]
ColonNext(f, v, at, p, j, l) ==
    LET i == Len(f.items) + 1 IN
    /\ p = "colon" /\ f.kind = BeginObject
    /\ i <= Len(v.items) /\ j = EntryAt(at, i) + 2 /\ l = ":"
CommaNext(f, v, at, p, j, l) ==
    LET i == Len(f.items) + 1 IN
    /\ p = "after" /\ f.kind \in {BeginObject, BeginArray}
    /\ i <= Len(v.items) /\ i # 1 /\ j = EntryAt(at, i) /\ l = ","
CloseNext(f, v, at, p, j, l) ==
    /\ p \in {"first", "after"} /\ f.kind \in {BeginObject, BeginArray}
    /\ Len(f.items) = Len(v.items) /\ j = at[Len(v.items)] + 1 /\ l = Ending(v.kind)
EndNext(f, v, at, p, j, l) ==
    /\ p = "after" /\ f.kind = "text" /\ l = "end"

\* One of these comes next.
LEMMA SomeNext ==
    ASSUME NEW n \in 0..Height, NEW b, NEW u \in Seq(Tokens), NEW f, NEW v, NEW at,
           Course(f, v, at, n, b, u), FrameOK(f), NEW p, NEW j, Here(f, v, at, p, j),
           p \in Dues, p # "parsed",
           p \in {"name", "colon"} => f.kind = BeginObject,
           p = "first" => f.kind \in {BeginObject, BeginArray},
           f.kind # "text" => f.kind \in {BeginObject, BeginArray},
           f.kind = "text" => Len(v.items) = 1 /\ at[1] = Len(u),
           NEW l, l = IF j <= Len(u) THEN u[j] ELSE "end"
    PROVE  \/ ValueNext(f, v, at, p, j, l) \/ NameNext(f, v, at, p, j, l)
           \/ ColonNext(f, v, at, p, j, l) \/ CommaNext(f, v, at, p, j, l)
           \/ CloseNext(f, v, at, p, j, l) \/ EndNext(f, v, at, p, j, l)
<1> DEFINE m == Len(f.items)
           i == m + 1
           c == Len(v.items)
           e == EntryAt(at, i)
           d == ItemAt(v, at, i)
<1>1. m \in Nat /\ c \in Nat /\ m <= c /\ f.kind = v.kind /\ Len(u) \in Nat
  <2>1. m \in Nat
    BY SequenceLen DEF FrameOK
  <2>2. v.items \in Seq(Value[n]) /\ m <= c /\ f.kind = v.kind
    BY DEF Course, Target, UpTo
  <2>3. c \in Nat
    <3> DEFINE S == Value[n]
               s == v.items
    <3>1. s \in Seq(S)
      BY <2>2
    <3> HIDE DEF S, s
    <3>2. Len(s) \in Nat
      BY <3>1
    <3> QED
      BY <3>2 DEF s
  <2> QED
    BY <2>1, <2>2, <2>3
<1>2. /\ p # "failed"
      /\ p = "first" => m = 0 /\ j = at[0] + 1
      /\ p = "after" => m # 0 /\ j = at[m] + 1
      /\ p \in {"name", "colon", "value"} => i <= c
      /\ p = "name" => j = e + 1
      /\ p = "colon" => j = e + 2
      /\ p = "value" => j = d + 1
  BY DEF Here
<1>3. ASSUME i <= c
      PROVE  /\ e \in Nat /\ d \in Nat /\ d + 1 <= Len(u)
             /\ Precedent(u, v, at, i)
             /\ i # 1 => e = at[m] + 1
             /\ i = 1 => e = at[0]
             /\ v.kind = BeginObject => d = e + 2
             /\ v.kind # BeginObject => d = e
             /\ IsContainer(v.items[i]) => u[d + 1] = v.items[i].kind
             /\ ~IsContainer(v.items[i]) => u[d + 1] = v.items[i].is
  <2>1. i \in Nat /\ i >= 1 /\ i - 1 = m
    BY <1>1
  <2>2. /\ v.items[i] \in Value[n]
        /\ e \in Nat /\ d \in Nat
        /\ Stands(Laid[n][v.items[i]], u, d)
        /\ d + 1 <= Len(u)
        /\ Precedent(u, v, at, i)
        /\ i # 1 => e = at[i - 1] + 1
        /\ i = 1 => e = at[i - 1]
        /\ v.kind = BeginObject => d = e + 2
        /\ v.kind # BeginObject => d = e
    <3> HIDE DEF i
    <3>1. Ready(v, at, n, b, u, i)
      BY <1>3, <2>1, NextEntry
    <3> QED
      BY <3>1, Zenon DEF Ready
  <2>3. i = 1 => m = 0
    BY <1>1
  <2> HIDE DEF i, e, d
  <2>4. /\ IsContainer(v.items[i]) => u[d + 1] = v.items[i].kind
        /\ ~IsContainer(v.items[i]) => u[d + 1] = v.items[i].is
    BY <2>2, LaidHead
  <2> HIDE DEF m
  <2> QED
    BY <2>1, <2>2, <2>3, <2>4
<1>4. v.kind # "text" => at[c] + 1 \in 1..Len(u) /\ u[at[c] + 1] = Ending(v.kind)
  BY DEF Course, Laying
<1>11. ASSUME i <= c
       PROVE  /\ i # 1 => u[at[m] + 1] = ","
              /\ v.kind = BeginObject => u[e + 1] = v.names[i] /\ u[e + 2] = ":"
  <2>1. i - 1 = m
    BY <1>1
  <2> HIDE DEF i
  <2> QED
    BY <1>3, <1>11, <2>1 DEF Precedent
<1>5. BeginObject # "text" /\ BeginArray # "text"
  BY DEF BeginObject, BeginArray
<1> HIDE DEF e, d
<1>6. CASE p = "value"
  <2>1. i <= c /\ j = d + 1
    BY <1>2, <1>6
  <2>2. l = u[j]
    BY <1>3, <2>1
  <2>3. ValueNext(f, v, at, p, j, l)
    BY <1>3, <1>6, <2>1, <2>2 DEF ValueNext, d
  <2> QED
    BY <2>3
<1>7. CASE p = "name"
  <2>1. i <= c /\ j = e + 1 /\ f.kind = BeginObject
    BY <1>2, <1>7
  <2>2. e \in Nat /\ d = e + 2 /\ d + 1 <= Len(u)
    BY <1>1, <1>3, <2>1
  <2>5. l = u[j]
    BY <1>1, <2>1, <2>2
  <2>3. l = u[j] /\ u[e + 1] = v.names[i]
    BY <1>1, <1>11, <2>1, <2>5
  <2>4. NameNext(f, v, at, p, j, l)
    BY <1>7, <2>1, <2>2, <2>3 DEF NameNext, e
  <2> QED
    BY <2>4
<1>8. CASE p = "colon"
  <2>1. i <= c /\ j = e + 2 /\ f.kind = BeginObject
    BY <1>2, <1>8
  <2>2. e \in Nat /\ d = e + 2 /\ d + 1 <= Len(u)
    BY <1>1, <1>3, <2>1
  <2>5. l = u[j]
    BY <1>1, <2>1, <2>2
  <2>3. l = u[j] /\ u[e + 2] = ":"
    BY <1>1, <1>11, <2>1, <2>5
  <2>4. ColonNext(f, v, at, p, j, l)
    BY <1>8, <2>1, <2>2, <2>3 DEF ColonNext, e
  <2> QED
    BY <2>4
<1>9. CASE p = "first"
  <2>1. m = 0 /\ i = 1 /\ j = at[0] + 1 /\ f.kind \in {BeginObject, BeginArray}
    BY <1>2, <1>9
  <2>2. CASE c = 0
    <3>1. j = at[c] + 1 /\ f.kind # "text"
      BY <1>5, <2>1, <2>2
    <3>2. l = u[j] /\ u[j] = Ending(v.kind)
      BY <1>1, <1>4, <3>1
    <3>3. CloseNext(f, v, at, p, j, l)
      BY <1>9, <2>1, <2>2, <3>1, <3>2 DEF CloseNext
    <3> QED
      BY <3>3
  <2>3. CASE c # 0
    <3>1. i <= c
      BY <1>1, <2>1, <2>3
    <3>2. e = at[0] /\ j = e + 1 /\ e \in Nat
      BY <1>3, <2>1, <3>1
    <3>3. CASE f.kind = BeginObject
      <4>1. d = e + 2 /\ d + 1 <= Len(u)
        BY <1>1, <1>3, <3>1, <3>3
      <4>4. l = u[j]
        BY <1>1, <3>2, <4>1
      <4>2. l = u[j] /\ u[e + 1] = v.names[i]
        BY <1>1, <1>11, <3>1, <3>3, <4>4
      <4>3. NameNext(f, v, at, p, j, l)
        BY <1>9, <3>1, <3>2, <3>3, <4>1, <4>2 DEF NameNext, e
      <4> QED
        BY <4>3
    <3>4. CASE f.kind = BeginArray
      <4>1. d = e /\ d + 1 <= Len(u)
        BY <1>1, <1>3, <3>1, <3>4, TokenKinds
      <4>2. l = u[j] /\ j = d + 1
        BY <3>2, <4>1
      <4>3. ValueNext(f, v, at, p, j, l)
        BY <1>3, <1>9, <3>1, <3>4, <4>2 DEF ValueNext, d
      <4> QED
        BY <4>3
    <3> QED
      BY <2>1, <3>3, <3>4
  <2> QED
    BY <2>2, <2>3
<1>10. CASE p = "after"
  <2>1. m # 0 /\ j = at[m] + 1
    BY <1>2, <1>10
  <2>2. CASE f.kind = "text"
    <3>1. m = 1
      <4>1. c = 1
        BY <2>2
      <4> HIDE DEF m, c
      <4> QED
        BY <1>1, <2>1, <4>1
    <3>2. j = Len(u) + 1
      BY <2>1, <2>2, <3>1
    <3>3. ~(j <= Len(u))
      BY <1>1, <3>2
    <3> QED
      BY <1>10, <2>2, <3>3 DEF EndNext
  <2>3. CASE f.kind # "text" /\ m = c
    <3>1. l = u[j] /\ u[j] = Ending(v.kind) /\ j = at[c] + 1
      BY <1>1, <1>4, <2>1, <2>3
    <3>2. CloseNext(f, v, at, p, j, l)
      BY <1>10, <2>3, <3>1 DEF CloseNext
    <3> QED
      BY <3>2
  <2>4. CASE f.kind # "text" /\ m # c
    <3>1. i <= c /\ i # 1
      BY <1>1, <2>1, <2>4
    <3>2. e = at[m] + 1 /\ e \in Nat /\ d \in Nat /\ d + 1 <= Len(u) /\ (d = e + 2 \/ d = e)
      BY <1>3, <3>1
    <3>4. l = u[j] /\ j = e
      <4>1. j = e
        BY <2>1, <3>2
      <4>2. e <= Len(u)
        BY <1>1, <3>2
      <4> QED
        BY <4>1, <4>2
    <3>6. u[e] = ","
      BY <1>11, <3>1, <3>2
    <3>5. CommaNext(f, v, at, p, j, l)
      BY <1>10, <2>1, <2>4, <3>1, <3>4, <3>6 DEF CommaNext, e
    <3> QED
      BY <3>5
  <2> QED
    BY <2>2, <2>3, <2>4
<1> QED
  BY <1>2, <1>6, <1>7, <1>8, <1>9, <1>10 DEF Dues

LEMMA Guards ==
    /\ SkipWs => Lexeme = " "
    /\ Scalar => ValueDue /\ Kind \in Kinds
    /\ OpenContainer => ValueDue /\ Lexeme \in {BeginObject, BeginArray}
    /\ NoValue => /\ ValueDue /\ Kind \notin Kinds
                  /\ Lexeme \in {BeginObject, BeginArray} => TooDeep
                  /\ ~(pc = "first" /\ Lexeme = "]")
    /\ Name => NameDue /\ Kind = "string"
    /\ NoName => /\ NameDue /\ ~(pc = "first" /\ Lexeme = "}")
                 /\ Kind = "string" => Repeated(Read[path][Lexeme].is)
    /\ Colon => pc = "colon"
    /\ Comma => pc = "after" /\ Lexeme = ","
    /\ CloseContainer => pc \in {"first", "after"} /\ Lexeme = Ending(Top.kind)
    /\ EndOfText => pc = "after" /\ Depth = 0
    /\ NoComma => pc = "after" /\ Lexeme # "," /\ Lexeme # Ending(Top.kind)
<1>1. SkipWs => Lexeme = " "
  BY Zenon DEF SkipWs
<1>2. Scalar => ValueDue /\ Kind \in Kinds
  BY Zenon DEF Scalar
<1>3. OpenContainer => ValueDue /\ Lexeme \in {BeginObject, BeginArray}
  BY Zenon DEF OpenContainer
<1>4. NoValue => /\ ValueDue /\ Kind \notin Kinds
                 /\ Lexeme \in {BeginObject, BeginArray} => TooDeep
                 /\ ~(pc = "first" /\ Lexeme = "]")
  BY Zenon DEF NoValue
<1>5. Name => NameDue /\ Kind = "string"
  BY Zenon DEF Name
<1>6. NoName => /\ NameDue /\ ~(pc = "first" /\ Lexeme = "}")
                /\ Kind = "string" => Repeated(Read[path][Lexeme].is)
  BY Zenon DEF NoName
<1>7. Colon => pc = "colon"
  BY Zenon DEF Colon
<1>8. Comma => pc = "after" /\ Lexeme = ","
  BY Zenon DEF Comma
<1>9. CloseContainer => pc \in {"first", "after"} /\ Lexeme = Ending(Top.kind)
  BY Zenon DEF CloseContainer
<1>10. EndOfText => pc = "after" /\ Depth = 0
  BY Zenon DEF EndOfText
<1>11. NoComma => pc = "after" /\ Lexeme # "," /\ Lexeme # Ending(Top.kind)
  BY DEF NoComma
<1> QED
  BY <1>1, <1>2, <1>3, <1>4, <1>5, <1>6, <1>7, <1>8, <1>9, <1>10, <1>11, Zenon

\* What is punctuation and what is not.
LEMMA MarksAre ==
    /\ \A kind \in {BeginObject, BeginArray} :
         /\ kind \in Punctuation /\ kind \notin Kinds
         /\ Ending(kind) \in Punctuation /\ Ending(kind) \notin Kinds
         /\ Ending(kind) \notin {BeginObject, BeginArray}
         /\ Ending(kind) # "," /\ Ending(kind) # ":" /\ Ending(kind) # " " /\ kind # " "
    /\ "," \in Punctuation /\ ":" \in Punctuation /\ " " \in Punctuation /\ "end" \in Punctuation
    /\ Ending(BeginObject) = "}" /\ Ending(BeginArray) = "]"
    /\ Kinds \cap Punctuation = {} /\ "string" \in Kinds
<1>1. Ending(BeginObject) = "}" /\ Ending(BeginArray) = "]"
  BY TokenKinds, Zenon DEF Ending
<1>2. \A kind \in {BeginObject, BeginArray} : kind = BeginObject \/ kind = BeginArray
  OBVIOUS
<1>3. /\ "}" \in Punctuation /\ "}" \notin Kinds /\ "}" \notin {BeginObject, BeginArray}
      /\ "}" # "," /\ "}" # ":" /\ "}" # " "
      /\ "]" \in Punctuation /\ "]" \notin Kinds /\ "]" \notin {BeginObject, BeginArray}
      /\ "]" # "," /\ "]" # ":" /\ "]" # " "
      /\ BeginObject # " " /\ BeginArray # " "
      /\ BeginObject \in Punctuation /\ BeginObject \notin Kinds
      /\ BeginArray \in Punctuation /\ BeginArray \notin Kinds
  BY DEF Punctuation, Kinds, BeginObject, BeginArray
<1>4. /\ "," \in Punctuation /\ ":" \in Punctuation /\ " " \in Punctuation /\ "end" \in Punctuation
      /\ Kinds \cap Punctuation = {} /\ "string" \in Kinds
  BY DEF Punctuation, Kinds, BeginObject, BeginArray
<1>5. ASSUME NEW kind \in {BeginObject, BeginArray}
      PROVE  /\ kind \in Punctuation /\ kind \notin Kinds
             /\ Ending(kind) \in Punctuation /\ Ending(kind) \notin Kinds
             /\ Ending(kind) \notin {BeginObject, BeginArray}
             /\ Ending(kind) # "," /\ Ending(kind) # ":" /\ Ending(kind) # " " /\ kind # " "
  <2>1. CASE kind = BeginObject
    BY <1>1, <1>3, <2>1
  <2>2. CASE kind = BeginArray
    BY <1>1, <1>3, <2>2
  <2> QED
    BY <1>2, <2>1, <2>2
<1> QED
  BY <1>1, <1>4, <1>5

\* A canonical lexeme reads as itself.
LEMMA CanonicalLexeme ==
    ASSUME path = "again"
    PROVE  /\ \A w \in Leaves : IsFinite(w) /\ Lexeme = w.is =>
                /\ Lexeme \in Lexemes /\ Lexeme \notin Punctuation /\ Lexeme # " "
                /\ Kind \in Kinds /\ Leaf(Read[path][Lexeme]) = w
           /\ \A m \in Names : Lexeme = m =>
                /\ Lexeme \in Lexemes /\ Lexeme \notin Punctuation /\ Lexeme # " "
                /\ Kind = "string" /\ Read[path][Lexeme].is = m
           /\ Lexeme \in Punctuation => Kind = Lexeme /\ Kind \notin Kinds
<1>1. "again" \in Parsers
  BY PathAssumption DEF Parsers
<1>2. Read[path] = Read["raw"]
  BY <1>1, ReadAssumption
<1>3. Lexeme \in Punctuation => Kind = Lexeme
  BY Zenon DEF Kind
<1>4. Lexeme \notin Punctuation => Kind = Read["raw"][Lexeme].kind
  BY <1>2, Zenon DEF Kind
<1>5. ASSUME NEW w \in Leaves, IsFinite(w), Lexeme = w.is
      PROVE  /\ Lexeme \in Lexemes /\ Lexeme \notin Punctuation /\ Lexeme # " "
             /\ Kind = w.kind /\ w.kind \in Kinds
             /\ Leaf(Read[path][Lexeme]) = w /\ Read[path][Lexeme].is = Lexeme
  <2> DEFINE r == Read["raw"][Lexeme]
  <2>1. Leaf(r) = w /\ Lexeme \in Lexemes
    BY <1>5, ReadAssumption
  <2>2. Lexeme \notin Punctuation
    BY <2>1, ReadAssumption
  <2>3. r.kind = w.kind /\ r.is = w.is
    <3> HIDE DEF r
    <3>1. Leaf(r).kind = r.kind /\ Leaf(r).is = r.is
      BY DEF Leaf
    <3> QED
      BY <2>1, <3>1
  <2>4. w.kind \in Kinds
    BY LeafIs
  <2> QED
    BY <1>2, <1>4, <1>5, <2>1, <2>2, <2>3, <2>4, MarksAre
<1>6. ASSUME NEW m \in Names, Lexeme = m
      PROVE  /\ Lexeme \in Lexemes /\ Lexeme \notin Punctuation /\ Lexeme # " "
             /\ Kind = "string" /\ Read[path][Lexeme].is = m
  <2>1. PICK w \in Leaves : w.kind = "string" /\ m = w.is
    BY DEF Names
  <2>2. IsFinite(w)
    BY <2>1 DEF IsFinite
  <2> QED
    BY <1>5, <1>6, <2>1, <2>2
<1>7. Lexeme \in Punctuation => Kind \notin Kinds
  BY <1>3, MarksAre
<1> QED
  BY <1>3, <1>5, <1>6, <1>7

\* What Next does with a lexeme that is due.
LEMMA ScalarOnly ==
    ASSUME Next, ValueDue, Lexeme \notin Punctuation, Kind \in Kinds,
           Top.kind # "text" => Top.kind \in {BeginObject, BeginArray},
           pc = "first" => Top.kind # "text"
    PROVE  Scalar
<1>1. pc \in {"value", "first"} /\ ~NameDue
  BY TokenKinds DEF ValueDue, NameDue
<1>2. ~SkipWs /\ ~OpenContainer /\ ~NoValue /\ ~Name /\ ~NoName /\ ~Colon /\ ~Comma
  BY <1>1, Guards, MarksAre
<1>3. ~EndOfText /\ ~NoComma
  BY <1>1, Guards
<1>4. ~CloseContainer
  <2> SUFFICES ASSUME CloseContainer PROVE FALSE
    OBVIOUS
  <2>1. pc = "first" /\ Lexeme = Ending(Top.kind)
    BY <1>1, Guards
  <2>2. Top.kind \in {BeginObject, BeginArray}
    BY <2>1
  <2> QED
    BY <2>1, <2>2, MarksAre
<1> QED
  BY <1>2, <1>3, <1>4 DEF Next

LEMMA OpenOnly ==
    ASSUME Next, ValueDue, Lexeme \in {BeginObject, BeginArray}, Kind \notin Kinds, ~TooDeep,
           pc = "first" => Top.kind \in {BeginObject, BeginArray}
    PROVE  OpenContainer
<1>1. pc \in {"value", "first"} /\ ~NameDue
  BY TokenKinds DEF ValueDue, NameDue
<1>2. Lexeme # " " /\ Lexeme # ","
  BY DEF BeginObject, BeginArray
<1>3. ~SkipWs /\ ~Scalar /\ ~NoValue /\ ~Name /\ ~NoName /\ ~Colon /\ ~Comma
  BY <1>1, <1>2, Guards
<1>4. ~EndOfText /\ ~NoComma
  BY <1>1, Guards
<1>5. ~CloseContainer
  <2> SUFFICES ASSUME CloseContainer PROVE FALSE
    OBVIOUS
  <2>1. pc = "first" /\ Lexeme = Ending(Top.kind)
    BY <1>1, Guards
  <2> QED
    BY <2>1, MarksAre
<1> QED
  BY <1>3, <1>4, <1>5 DEF Next

LEMMA NameOnly ==
    ASSUME Next, pc \in {"first", "name"}, Top.kind = BeginObject, Lexeme \notin Punctuation,
           Kind = "string", ~Repeated(Read[path][Lexeme].is)
    PROVE  Name
<1>1. ~ValueDue
  BY TokenKinds DEF ValueDue
<1>2. ~SkipWs /\ ~Scalar /\ ~OpenContainer /\ ~NoValue /\ ~NoName /\ ~Colon /\ ~Comma
  BY <1>1, Guards, MarksAre
<1>3. ~EndOfText /\ ~NoComma
  BY Guards
<1>4. ~CloseContainer
  <2>1. Ending(Top.kind) \in Punctuation
    BY MarksAre
  <2> QED
    BY <2>1, Guards
<1> QED
  BY <1>2, <1>3, <1>4 DEF Next

LEMMA ColonOnly ==
    ASSUME Next, pc = "colon", Lexeme = ":"
    PROVE  Bump("value") /\ open' = open
<1>1. ~ValueDue /\ ~NameDue
  BY DEF ValueDue, NameDue
<1>2. ~SkipWs /\ ~Scalar /\ ~OpenContainer /\ ~NoValue /\ ~Name /\ ~NoName /\ ~Comma
  BY <1>1, Guards
<1>3. ~EndOfText /\ ~NoComma /\ ~CloseContainer
  BY Guards
<1>4. Colon
  BY <1>2, <1>3 DEF Next
<1> QED
  BY <1>4, Zenon DEF Colon

LEMMA CommaOnly ==
    ASSUME Next, pc = "after", Lexeme = ",", Top.kind \in {BeginObject, BeginArray}, Depth # 0
    PROVE  Comma
<1>1. ~ValueDue /\ ~NameDue
  BY DEF ValueDue, NameDue
<1>2. ~SkipWs /\ ~Scalar /\ ~OpenContainer /\ ~NoValue /\ ~Name /\ ~NoName /\ ~Colon
  BY <1>1, Guards
<1>3. ~EndOfText /\ ~NoComma /\ ~CloseContainer
  BY Guards, MarksAre
<1> QED
  BY <1>2, <1>3 DEF Next

LEMMA CloseOnly ==
    ASSUME Next, pc \in {"first", "after"}, Lexeme = Ending(Top.kind), Kind = Lexeme,
           Top.kind \in {BeginObject, BeginArray}, Depth # 0
    PROVE  CloseContainer
<1>1. /\ Lexeme # " " /\ Lexeme # "," /\ Lexeme \notin Kinds
      /\ Lexeme \notin {BeginObject, BeginArray}
  BY MarksAre
<1>2. "string" \in Kinds
  BY MarksAre
<1>3. ~SkipWs /\ ~Scalar /\ ~OpenContainer /\ ~Name /\ ~Colon /\ ~Comma
  BY <1>1, <1>2, Guards
<1>4. ~NoValue
  <2>1. ValueDue => pc = "first" /\ Top.kind = BeginArray
    BY DEF ValueDue
  <2> QED
    BY <2>1, Guards, MarksAre
<1>5. ~NoName
  <2>1. NameDue => pc = "first" /\ Top.kind = BeginObject
    BY DEF NameDue
  <2> QED
    BY <2>1, Guards, MarksAre
<1>6. ~EndOfText /\ ~NoComma
  BY Guards
<1> QED
  BY <1>3, <1>4, <1>5, <1>6 DEF Next

LEMMA EndOnly ==
    ASSUME Next, pc = "after", Lexeme = "end", Top.kind = "text", Depth = 0
    PROVE  pc' = "parsed" /\ UNCHANGED <<path, text, pos, open>>
<1>1. ~ValueDue /\ ~NameDue
  BY DEF ValueDue, NameDue
<1>2. ~SkipWs /\ ~Scalar /\ ~OpenContainer /\ ~NoValue /\ ~Name /\ ~NoName /\ ~Colon /\ ~Comma
  BY <1>1, Guards
<1>3. ~CloseContainer /\ ~NoComma
  <2>1. CloseContainer => Depth > 0
    BY Zenon DEF CloseContainer
  <2>2. NoComma => Depth > 0
    BY Zenon DEF NoComma
  <2> HIDE DEF Depth
  <2> QED
    BY <2>1, <2>2
<1>4. EndOfText
  BY <1>2, <1>3 DEF Next
<1> QED
  BY <1>4, Zenon DEF EndOfText

\* The frames stay.
LEMMA AlongSame ==
    ASSUME NEW s, NEW of, NEW at, NEW u, NEW j, NEW p, NEW o, Along(s, of, at, u, j, p, o),
           NEW i, NEW q, Here(o[Len(o)], of[Len(o)], at[Len(o)], q, i)
    PROVE  Along(s, of, at, u, i, q, o)
BY DEF Along

\* Another frame on top, of the same value.
LEMMA AlongTop ==
    ASSUME NEW s, NEW of, NEW at, NEW u, NEW j, NEW p, NEW o, Along(s, of, at, u, j, p, o),
           Sequence(o), Len(o) >= 1, NEW k, k = Len(o),
           NEW g, Course(g, of[k], at[k], Height + 1 - k, MaxDepth + 1 - k, u),
           NEW i, NEW q, Here(g, of[k], at[k], q, i)
    PROVE  Along(s, of, at, u, i, q, Append(SubSeq(o, 1, Len(o) - 1), g))
<1> DEFINE t == Append(SubSeq(o, 1, Len(o) - 1), g)
<1>1. Len(t) = k /\ (\A h \in 1..(k - 1) : t[h] = o[h]) /\ t[k] = g
  BY Replaced
<1>2. k \in Nat /\ k >= 1
  BY SequenceLen
<1>3. /\ of[1] = Whole(s) /\ at[1][1] = Len(u)
      /\ \A h \in 1..k : Course(o[h], of[h], at[h], Height + 1 - h, MaxDepth + 1 - h, u)
      /\ \A h \in 1..(k - 1) : Waits(o[h], of[h], at[h], of[h + 1], at[h + 1])
  BY DEF Along
<1> HIDE DEF t
<1>4. ASSUME NEW h \in 1..k
      PROVE  Course(t[h], of[h], at[h], Height + 1 - h, MaxDepth + 1 - h, u)
  <2>1. CASE h = k
    BY <1>1, <2>1
  <2>2. CASE h # k
    <3>1. h \in 1..(k - 1)
      BY <1>2, <2>2
    <3> QED
      BY <1>1, <1>3, <3>1
  <2> QED
    BY <2>1, <2>2
<1>5. \A h \in 1..(k - 1) : Waits(t[h], of[h], at[h], of[h + 1], at[h + 1])
  BY <1>1, <1>3
<1>6. Here(t[k], of[k], at[k], q, i)
  BY <1>1
<1>7. Along(s, of, at, u, i, q, t)
  BY <1>1, <1>3, <1>4, <1>5, <1>6 DEF Along
<1> QED
  BY <1>7 DEF t

\* A frame less: the one below, of its own value.
LEMMA AlongBelow ==
    ASSUME NEW s, NEW of, NEW at, NEW u, NEW j, NEW p, NEW o, Along(s, of, at, u, j, p, o),
           Sequence(o), Len(o) >= 2, NEW k, k = Len(o) - 1,
           NEW g, Course(g, of[k], at[k], Height + 1 - k, MaxDepth + 1 - k, u),
           NEW i, NEW q, Here(g, of[k], at[k], q, i)
    PROVE  Along(s, of, at, u, i, q, Append(SubSeq(o, 1, Len(o) - 2), g))
<1> DEFINE b == SubSeq(o, 1, Len(o) - 1)
           t == Append(SubSeq(b, 1, Len(b) - 1), g)
<1>1. Len(o) \in Nat /\ k \in Nat /\ k >= 1 /\ Len(o) = k + 1
  BY SequenceLen
<1>2. Sequence(b) /\ Len(b) = k /\ \A h \in 1..k : b[h] = o[h]
  BY <1>1, Prefix
<1>3. SubSeq(b, 1, Len(o) - 2) = SubSeq(o, 1, Len(o) - 2)
  BY PrefixOfPrefix
<1>4. Len(b) - 1 = Len(o) - 2
  BY <1>1, <1>2
<1> HIDE DEF b
<1>5. Len(t) = k /\ (\A h \in 1..(k - 1) : t[h] = b[h]) /\ t[k] = g
  BY <1>1, <1>2, Replaced
<1>6. /\ of[1] = Whole(s) /\ at[1][1] = Len(u)
      /\ \A h \in 1..(k + 1) : Course(o[h], of[h], at[h], Height + 1 - h, MaxDepth + 1 - h, u)
      /\ \A h \in 1..k : Waits(o[h], of[h], at[h], of[h + 1], at[h + 1])
  <2>1. Len(o) - 1 = k
    BY <1>1
  <2> QED
    BY <1>1, <2>1 DEF Along
<1>7. t = Append(SubSeq(o, 1, Len(o) - 2), g)
  BY <1>3, <1>4
<1> HIDE DEF t
<1>8. \A h \in 1..(k - 1) : h \in 1..k /\ h \in 1..(k + 1) /\ t[h] = o[h]
  BY <1>1, <1>2, <1>5
<1>9. ASSUME NEW h \in 1..k
      PROVE  Course(t[h], of[h], at[h], Height + 1 - h, MaxDepth + 1 - h, u)
  <2>1. CASE h = k
    BY <1>5, <2>1
  <2>2. CASE h # k
    <3>1. h \in 1..(k - 1)
      BY <1>1, <2>2
    <3> QED
      BY <1>6, <1>8, <3>1
  <2> QED
    BY <2>1, <2>2
<1>10. \A h \in 1..(k - 1) : Waits(t[h], of[h], at[h], of[h + 1], at[h + 1])
  BY <1>6, <1>8
<1>11. Along(s, of, at, u, i, q, t)
  BY <1>5, <1>6, <1>9, <1>10 DEF Along
<1> QED
  BY <1>7, <1>11

\* A frame more, of the value that the top waits for.
LEMMA AlongPush ==
    ASSUME NEW s, NEW of, NEW at, NEW u, NEW j, NEW p, NEW o, Along(s, of, at, u, j, p, o),
           Sequence(o), Len(o) >= 1, NEW k, k = Len(o), NEW g, NEW w, NEW bt,
           Course(g, w, bt, Height + 1 - (k + 1), MaxDepth + 1 - (k + 1), u),
           Waits(o[k], of[k], at[k], w, bt),
           NEW i, NEW q, Here(g, w, bt, q, i)
    PROVE  \E of2, at2 : Along(s, of2, at2, u, i, q, Append(o, g))
<1> DEFINE t == Append(o, g)
           of2 == [h \in 1..(k + 1) |-> IF h = k + 1 THEN w ELSE of[h]]
           at2 == [h \in 1..(k + 1) |-> IF h = k + 1 THEN bt ELSE at[h]]
<1>1. Len(t) = k + 1 /\ (\A h \in 1..k : t[h] = o[h]) /\ t[k + 1] = g
  BY Appended
<1>2. k \in Nat /\ k >= 1
  BY SequenceLen
<1>3. /\ of[1] = Whole(s) /\ at[1][1] = Len(u)
      /\ \A h \in 1..k : Course(o[h], of[h], at[h], Height + 1 - h, MaxDepth + 1 - h, u)
      /\ \A h \in 1..(k - 1) : Waits(o[h], of[h], at[h], of[h + 1], at[h + 1])
  BY DEF Along
<1>4. /\ \A h \in 1..k : of2[h] = of[h] /\ at2[h] = at[h]
      /\ of2[k + 1] = w /\ at2[k + 1] = bt
  BY <1>2
<1> HIDE DEF t, of2, at2
<1>5. ASSUME NEW h \in 1..(k + 1)
      PROVE  Course(t[h], of2[h], at2[h], Height + 1 - h, MaxDepth + 1 - h, u)
  <2>1. CASE h = k + 1
    BY <1>1, <1>4, <2>1
  <2>2. CASE h # k + 1
    <3>1. h \in 1..k
      BY <1>2, <2>2
    <3> QED
      BY <1>1, <1>3, <1>4, <3>1
  <2> QED
    BY <2>1, <2>2
<1>6. ASSUME NEW h \in 1..k
      PROVE  Waits(t[h], of2[h], at2[h], of2[h + 1], at2[h + 1])
  <2>1. CASE h = k
    BY <1>1, <1>4, <2>1
  <2>2. CASE h # k
    <3>1. h \in 1..(k - 1) /\ h + 1 \in 1..k
      BY <1>2, <2>2
    <3> QED
      BY <1>1, <1>3, <1>4, <3>1
  <2> QED
    BY <2>1, <2>2
<1>7. Here(t[k + 1], of2[k + 1], at2[k + 1], q, i)
  BY <1>1, <1>4
<1>8. of2[1] = Whole(s) /\ at2[1][1] = Len(u)
  BY <1>2, <1>3, <1>4
<1>9. (k + 1) - 1 = k
  BY <1>2
<1>10. Along(s, of2, at2, u, i, q, t)
  BY <1>1, <1>5, <1>6, <1>7, <1>8, <1>9 DEF Along
<1> QED
  BY <1>10 DEF t

\* The frame on top, and those below it.
OnTop(of, at, k) ==
    /\ k \in Nat /\ k >= 1 /\ k = Len(open) /\ Sequence(open) /\ Depth = k - 1
    /\ Height + 1 - k \in 0..Height /\ MaxDepth + 1 - k \in 0..Height
    /\ Top = open[k] /\ FrameOK(Top) /\ Distinct(Top.names)
    /\ k = 1 <=> Top.kind = "text"
    /\ k # 1 => Top.kind \in {BeginObject, BeginArray}
    /\ Course(Top, of[k], at[k], Height + 1 - k, MaxDepth + 1 - k, text)
    /\ Here(Top, of[k], at[k], pc, pos)
    /\ Due(open, pc) \/ pc = "colon" => Ahead(Top)
    /\ pc \in {"first", "name"} /\ Top.kind = BeginObject => Even(Top)

LEMMA TopOf ==
    ASSUME IInv, TInv, path = "again", ~Ended,
           NEW s, NEW of, NEW at, Along(s, of, at, text, pos, pc, open)
    PROVE  OnTop(of, at, Len(open))
<1> DEFINE k == Len(open)
<1>1. /\ k \in Nat /\ k >= 1 /\ Sequence(open) /\ Depth = k - 1
      /\ MaxDepth + 1 - k \in 0..Height
  <2>1. Limit["again"] = MaxDepth
    BY PathAssumption, DepthAssumption DEF Parsers
  <2>2. /\ Room = Limit[path] /\ k \in Nat /\ k >= 1 /\ Sequence(open)
        /\ \A h \in 1..k : Room + 1 - h \in 0..Height
        /\ Depth = k - 1
    BY RoomIs
  <2> HIDE DEF k
  <2>3. k \in 1..k
    BY <2>2
  <2> QED
    BY <2>1, <2>2, <2>3
<1>2. Top = open[k]
  BY DEF Top
<1>3. /\ StackOK(open, pc) /\ Unique(open)
  BY DEF IInv
<1>4. Course(open[k], of[k], at[k], Height + 1 - k, MaxDepth + 1 - k, text) /\ Here(open[k], of[k], at[k], pc, pos)
  <2>1. k \in 1..k
    BY <1>1
  <2> QED
    BY <2>1 DEF Along
<1> HIDE DEF k
<1>5. Height + 1 - k \in 0..Height
  <2>1. MaxDepth \in Nat /\ Height \in Nat /\ MaxDepth <= Height
    BY DepthAssumption, PathAssumption, PathsAssumption DEF Parsers
  <2> QED
    BY <1>1, <2>1
<1>6. FrameOK(open[k]) /\ Distinct(open[k].names)
  BY <1>1, <1>3 DEF StackOK, Unique, k
<1>7. /\ k = 1 => open[k].kind = "text"
      /\ k # 1 => open[k].kind \in {BeginObject, BeginArray}
  <2>1. k # 1 => k \in 2..k
    BY <1>1
  <2> QED
    BY <1>3, <2>1 DEF StackOK, k
<1>8. "text" \notin {BeginObject, BeginArray}
  BY DEF BeginObject, BeginArray
<1>9. Due(open, pc) => Ahead(open[k])
  BY <1>3, DueIsAhead DEF k
<1>10. pc = "colon" => Ahead(open[k])
  BY <1>3 DEF StackOK, k
<1>11. pc \in {"first", "name"} => Even(open[k])
  BY <1>3 DEF StackOK, k
<1> QED
  BY <1>1, <1>2, <1>4, <1>5, <1>6, <1>7, <1>8, <1>9, <1>10, <1>11 DEF OnTop, k

\* What holds of a call that is at work on a canonical form, whose text goes on.
AtWork(s, of, at) ==
    /\ IInv /\ TInv /\ path = "again" /\ ~Ended /\ Next
    /\ Along(s, of, at, text, pos, pc, open)
    /\ OnTop(of, at, Len(open))

\* The value that comes next, in its place.
Coming(f, v, at, n, b, w) ==
    LET i == Len(f.items) + 1 IN
    /\ i \in Nat /\ i >= 1 /\ Len(f.items) < Len(v.items) /\ w = v.items[i]
    /\ v.items \in Seq(Value[n]) /\ f.kind = v.kind
    /\ Ready(v, at, n, b, text, i)

LEMMA ComingIs ==
    ASSUME NEW s, NEW of, NEW at, AtWork(s, of, at), NEW k, k = Len(open),
           Len(Top.items) + 1 <= Len(of[k].items)
    PROVE  Coming(Top, of[k], at[k], Height + 1 - k, MaxDepth + 1 - k, of[k].items[Len(Top.items) + 1])
<1> DEFINE f == Top
           v == of[k]
           a == at[k]
           n == Height + 1 - k
           b == MaxDepth + 1 - k
           m == Len(f.items)
           c == Len(v.items)
<1>1. /\ n \in 0..Height /\ FrameOK(f) /\ Course(f, v, a, n, b, text)
      /\ text \in Seq(Tokens) /\ m + 1 <= c
  BY DEF AtWork, OnTop, TInv
<1>2. m \in Nat
  BY <1>1, SequenceLen DEF FrameOK
<1>3. v.items \in Seq(Value[n]) /\ f.kind = v.kind
  BY <1>1 DEF Course, Target, UpTo
<1>4. c \in Nat
  <2> DEFINE S == Value[n]
             t == v.items
  <2>1. t \in Seq(S)
    BY <1>3
  <2> HIDE DEF S, t
  <2>2. Len(t) \in Nat
    BY <2>1
  <2> QED
    BY <2>2 DEF t
<1>5. m + 1 \in Nat /\ m + 1 >= 1 /\ m < c
  <2> HIDE DEF m, c
  <2> QED
    BY <1>1, <1>2, <1>4
<1>6. Ready(v, a, n, b, text, m + 1)
  <2> DEFINE i == m + 1
  <2>1. i \in Nat /\ i >= 1 /\ i <= Len(v.items)
    BY <1>1, <1>5
  <2> HIDE DEF i, f, v, a, n, b
  <2>2. Ready(v, a, n, b, text, i)
    BY <1>1, <2>1, NextEntry
  <2> QED
    BY <2>2 DEF i
<1> HIDE DEF n, b
<1>7. Coming(f, v, a, n, b, v.items[m + 1])
  BY <1>3, <1>5, <1>6, Zenon DEF Coming
<1> QED
  BY <1>7 DEF n, b

\* A leaf comes next.
LEMMA LeafStep ==
    ASSUME NEW s, NEW of, NEW at, AtWork(s, of, at), NEW k, k = Len(open),
           NEW w, w = of[k].items[Len(Top.items) + 1], ~IsContainer(w),
           ValueNext(Top, of[k], at[k], pc, pos, Lexeme)
    PROVE  Along(s, of, at, text, pos', pc', open')
<1> DEFINE f == Top
           v == of[k]
           a == at[k]
           n == Height + 1 - k
           b == MaxDepth + 1 - k
           m == Len(f.items)
           i == m + 1
           d == ItemAt(v, a, i)
           g == Delivered(f, w)
<1>1. /\ pc = "value" \/ (pc = "first" /\ f.kind = BeginArray)
      /\ i <= Len(v.items) /\ pos = d + 1 /\ Lexeme = w.is
  BY DEF ValueNext
<1>2. Coming(f, v, a, n, b, w)
  BY <1>1, ComingIs
<1>3. /\ w \in Value[n] /\ d \in Nat /\ Stands(Laid[n][w], text, d)
      /\ a[i] = d + Len(Laid[n][w]) /\ m < Len(v.items) /\ v.items \in Seq(Value[n])
  BY <1>2, Zenon DEF Coming, Ready
<1>4. /\ n \in 0..Height /\ FrameOK(f) /\ Distinct(f.names) /\ Course(f, v, a, n, b, text)
      /\ Sequence(open) /\ Len(open) >= 1 /\ (Due(open, pc) => Ahead(f))
      /\ f.kind # "text" => f.kind \in {BeginObject, BeginArray}
      /\ Next /\ path = "again" /\ ~Ended /\ f = open[k]
      /\ Along(s, of, at, text, pos, pc, open)
  BY DEF AtWork, OnTop
<1>5. w \in Leaves /\ Len(Laid[n][w]) = 1 /\ IsFinite(w)
  <2>1. w \in Within(Canonic, b)
    BY <1>2, Zenon DEF Coming, Ready
  <2>3. b \in 0..Height
    BY DEF AtWork, OnTop
  <2>4. w \in Value[Height]
    <3> HIDE DEF n, d, b
    <3> QED
      BY <1>3, <1>4, LevelIs
  <2>2. IsFinite(w)
    <3> HIDE DEF b
    <3> QED
      BY <2>1, <2>3, <2>4, WithinHas
  <2> HIDE DEF n, d
  <2> QED
    BY <1>3, <1>4, <2>2, LaidHead
<1>6. Lexeme \notin Punctuation /\ Kind \in Kinds /\ Leaf(Read[path][Lexeme]) = w
  BY <1>1, <1>4, <1>5, CanonicalLexeme
<1>7. ValueDue
  BY <1>1 DEF ValueDue
<1>8. Due(open, pc)
  BY <1>1, <1>4 DEF Due
<1>9. pc = "first" => Top.kind # "text"
  BY <1>1 DEF BeginArray
<1>10. Scalar
  BY <1>4, <1>6, <1>7, <1>9, ScalarOnly
<1>11. open' = WithTop(Delivered(Top, Leaf(Read[path][Lexeme]))) /\ Bump("after")
  BY <1>10, Zenon DEF Scalar
<1>12. open' = Append(SubSeq(open, 1, Len(open) - 1), g) /\ pos' = pos + 1 /\ pc' = "after"
  BY <1>6, <1>11, Zenon DEF WithTop, Below, Bump
<1>13. Course(g, v, a, n, b, text) /\ Len(g.items) = i
  <2> HIDE DEF n, b, v, a, f
  <2>1. LET h == Delivered(f, v.items[Len(f.items) + 1]) IN
        /\ Course(h, v, a, n, b, text)
        /\ Len(h.items) = Len(f.items) + 1
    BY <1>3, <1>4, <1>8, Arrives
  <2>2. w = v.items[Len(f.items) + 1]
    BY DEF v, f
  <2> QED
    BY <2>1, <2>2
<1> HIDE DEF g
<1>14. pos' = a[i] + 1 /\ i # 0
  <2>1. a[i] = d + 1 /\ m \in Nat
    BY <1>3, <1>4, <1>5, SequenceLen DEF FrameOK
  <2>2. pos' = pos + 1 /\ pos = d + 1
    BY <1>1, <1>12
  <2> HIDE DEF d, m
  <2> QED
    BY <2>1, <2>2
<1>15. Here(g, v, a, "after", pos')
  BY <1>13, <1>14, Zenon DEF Here
<1> HIDE DEF n, b
<1>16. Course(g, of[k], at[k], Height + 1 - k, MaxDepth + 1 - k, text)
  BY <1>13 DEF n, b
<1> QED
  BY <1>4, <1>12, <1>15, <1>16, AlongTop

\* The call of a container that stands in u, right after its opening bracket.
Begun(w, n, b, u, d, bt) ==
    /\ b > 0
    /\ Course(Frame(w.kind), w, bt, n - 1, b - 1, u)
    /\ Here(Frame(w.kind), w, bt, "first", d + 2)
    /\ bt[Len(w.items)] + 1 = d + Len(Laid[n][w])

LEMMA FreshCourse ==
    ASSUME NEW n \in 0..Height, NEW w \in Value[n], IsContainer(w),
           NEW b \in 0..Height, w \in Within(Canonic, b),
           NEW u, NEW d \in Nat, Stands(Laid[n][w], u, d)
    PROVE  \E bt : Begun(w, n, b, u, d, bt)
<1> DEFINE f == Frame(w.kind)
<1>1. n > 0 /\ n - 1 \in 0..Height /\ b > 0 /\ Target(w, n - 1, b - 1)
  BY TargetIs
<1>2. PICK bt : LaidAt(w, n, u, d, bt)
  BY LayingIs
<1>10. /\ Laying(w, n - 1, u, bt) /\ bt[0] = d + 1
       /\ bt[Len(w.items)] + 1 = d + Len(Laid[n][w])
  BY <1>2, Zenon DEF LaidAt
<1>3. f.kind = w.kind /\ Len(f.items) = 0 /\ Len(f.names) = 0
  BY DEF Frame
<1>4. Len(w.items) \in Nat /\ Len(w.names) \in Nat
  <2>1. w.items \in Seq(Value[n - 1]) /\ w.names \in Seq(Names)
    BY <1>1 DEF Target
  <2> QED
    BY <2>1, LenProperties
<1> HIDE DEF f
<1>5. UpTo(f, w)
  BY <1>3, <1>4 DEF UpTo
<1>6. Course(f, w, bt, n - 1, b - 1, u)
  BY <1>1, <1>10, <1>5 DEF Course
<1>7. d + 2 = bt[0] + 1
  BY <1>10
<1>8. Here(f, w, bt, "first", d + 2)
  <2> DEFINE p == "first"
  <2>1. p # "failed" /\ p \notin {"after", "parsed", "name", "colon", "value"}
    OBVIOUS
  <2> HIDE DEF p
  <2>2. Here(f, w, bt, p, d + 2)
    BY <1>3, <1>7, <2>1 DEF Here
  <2> QED
    BY <2>2 DEF p
<1>9. Begun(w, n, b, u, d, bt)
  BY <1>1, <1>10, <1>6, <1>8 DEF f, Begun
<1> QED
  BY <1>9

\* A container comes next.
LEMMA OpenStep ==
    ASSUME NEW s, NEW of, NEW at, AtWork(s, of, at), NEW k, k = Len(open),
           NEW w, w = of[k].items[Len(Top.items) + 1], IsContainer(w),
           ValueNext(Top, of[k], at[k], pc, pos, Lexeme)
    PROVE  \E of2, at2 : Along(s, of2, at2, text, pos', pc', open')
<1> DEFINE f == Top
           v == of[k]
           a == at[k]
           n == Height + 1 - k
           b == MaxDepth + 1 - k
           m == Len(f.items)
           i == m + 1
           d == ItemAt(v, a, i)
           l == Len(Laid[n][w])
           g == Frame(w.kind)
<1>1. /\ pc = "value" \/ (pc = "first" /\ f.kind = BeginArray)
      /\ i <= Len(v.items) /\ pos = d + 1 /\ Lexeme = w.kind
  BY DEF ValueNext
<1>2. Coming(f, v, a, n, b, w)
  BY <1>1, ComingIs
<1>3. /\ w \in Value[n] /\ w \in Within(Canonic, b) /\ d \in Nat /\ Stands(Laid[n][w], text, d)
      /\ a[i] = d + l /\ w = v.items[i]
  BY <1>2, Zenon DEF Coming, Ready
<1>4. /\ n \in 0..Height /\ b \in 0..Height /\ Sequence(open) /\ Len(open) >= 1 /\ k \in Nat
      /\ Next /\ path = "again" /\ ~Ended /\ f = open[k] /\ Depth = k - 1
      /\ Along(s, of, at, text, pos, pc, open)
  BY DEF AtWork, OnTop
<1>5. PICK bt : Begun(w, n, b, text, d, bt)
  <2>1. /\ n \in 0..Height /\ w \in Value[n] /\ b \in 0..Height /\ w \in Within(Canonic, b)
        /\ d \in Nat /\ Stands(Laid[n][w], text, d)
    BY <1>3, <1>4
  <2> HIDE DEF n, b, d
  <2> QED
    BY <2>1, FreshCourse
<1>6. /\ b > 0
      /\ Course(g, w, bt, n - 1, b - 1, text)
      /\ Here(g, w, bt, "first", d + 2)
      /\ bt[Len(w.items)] + 1 = d + l
  BY <1>5, Zenon DEF Begun
<1>7. Limit[path] = MaxDepth /\ MaxDepth \in Nat
  BY <1>4, PathAssumption, DepthAssumption DEF Parsers
<1>8. ~TooDeep
  <2>2. k \in Nat /\ MaxDepth \in Nat /\ MaxDepth + 1 - k > 0
    BY <1>4, <1>6, <1>7
  <2>1. ~(k - 1 >= MaxDepth)
    BY <2>2
  <2> HIDE DEF Depth
  <2> QED
    BY <1>4, <1>7, <2>1 DEF TooDeep
<1>9. Lexeme \in {BeginObject, BeginArray}
  BY <1>1 DEF IsContainer
<1>10. Kind \notin Kinds
  BY <1>4, <1>9, MarksAre, CanonicalLexeme
<1>11. ValueDue /\ (pc = "first" => Top.kind \in {BeginObject, BeginArray})
  BY <1>1 DEF ValueDue
<1>12. OpenContainer
  BY <1>4, <1>8, <1>9, <1>10, <1>11, OpenOnly
<1>13. open' = Append(open, g) /\ pos' = pos + 1 /\ pc' = "first"
  BY <1>1, <1>12, Zenon DEF OpenContainer, Bump
<1> HIDE DEF g
<1>14. pos' = d + 2
  <2> HIDE DEF d
  <2> QED
    BY <1>1, <1>3, <1>13
<1>15. Waits(open[k], v, a, w, bt)
  <2>1. i <= Len(v.items) /\ w = v.items[i] /\ bt[Len(w.items)] + 1 = a[i]
    BY <1>1, <1>3, <1>6
  <2>2. Waits(f, v, a, w, bt)
    BY <2>1, Zenon DEF Waits
  <2> QED
    BY <1>4, <2>2
<1>16. Course(g, w, bt, Height + 1 - (k + 1), MaxDepth + 1 - (k + 1), text)
  <2>1. n - 1 = Height + 1 - (k + 1) /\ b - 1 = MaxDepth + 1 - (k + 1)
    BY <1>4, <1>7, DepthAssumption
  <2> HIDE DEF n, b
  <2> QED
    BY <1>6, <2>1
<1>17. Here(g, w, bt, "first", pos')
  BY <1>6, <1>14
<1> HIDE DEF f, a, n, b, d, l
<1>18. \E of2, at2 : Along(s, of2, at2, text, pos', "first", Append(open, g))
  BY <1>4, <1>15, <1>16, <1>17, AlongPush DEF v, a
<1> QED
  BY <1>13, <1>18

\* A name comes next.
LEMMA NameStep ==
    ASSUME NEW s, NEW of, NEW at, AtWork(s, of, at), NEW k, k = Len(open),
           NameNext(Top, of[k], at[k], pc, pos, Lexeme)
    PROVE  Along(s, of, at, text, pos', pc', open')
<1> DEFINE f == Top
           v == of[k]
           a == at[k]
           n == Height + 1 - k
           b == MaxDepth + 1 - k
           m == Len(f.items)
           i == m + 1
           e == EntryAt(a, i)
           x == v.names[i]
           N == Append(f.names, x)
           g == [f EXCEPT !.names = N]
<1>1. /\ pc = "name" \/ (pc = "first" /\ f.kind = BeginObject)
      /\ f.kind = BeginObject /\ i <= Len(v.items) /\ pos = e + 1 /\ Lexeme = x
  BY DEF NameNext
<1>2. Coming(f, v, a, n, b, v.items[i])
  BY <1>1, ComingIs
<1>3. x \in Names /\ e \in Nat /\ i \in Nat /\ i >= 1 /\ v.kind = BeginObject
  BY <1>1, <1>2, Zenon DEF Coming, Ready
<1>4. /\ FrameOK(f) /\ Course(f, v, a, n, b, text) /\ Even(f)
      /\ Sequence(open) /\ Len(open) >= 1
      /\ Next /\ path = "again" /\ f = open[k]
      /\ Along(s, of, at, text, pos, pc, open)
  BY <1>1 DEF AtWork, OnTop
<1>5. /\ f.kind = v.kind /\ Len(f.items) <= Len(v.items) /\ \A h \in 1..Len(f.items) : f.items[h] = v.items[h]
      /\ \A h \in 1..Len(f.names) : f.names[h] = v.names[h]
      /\ Distinct(v.names) /\ Len(v.names) = Len(v.items) /\ v.names \in Seq(Names)
      /\ Len(f.names) = m /\ m \in Nat
  BY <1>1, <1>3, <1>4, SequenceLen DEF Course, UpTo, Target, Even, FrameOK
<1>6. DOMAIN v.names = 1..Len(v.names) /\ Len(v.names) \in Nat /\ DOMAIN f.names = 1..m
  BY <1>4, <1>5, SeqIsSequence, SequenceLen DEF FrameOK
<1> HIDE DEF e
<1>7. ~ \E h \in DOMAIN f.names : f.names[h] = x
  <2> SUFFICES ASSUME NEW h \in DOMAIN f.names, f.names[h] = x PROVE FALSE
    OBVIOUS
  <2> HIDE DEF m
  <2>1. h \in 1..Len(v.names) /\ i \in 1..Len(v.names) /\ h # i /\ h \in 1..m
    BY <1>1, <1>5, <1>6
  <2>2. v.names[h] = v.names[i]
    BY <1>5, <2>1
  <2> QED
    BY <1>5, <1>6, <2>1, <2>2 DEF Distinct
<1> HIDE DEF x
<1>8. /\ Lexeme \notin Punctuation /\ Kind = "string" /\ Read[path][Lexeme].is = x
  BY <1>1, <1>3, <1>4, CanonicalLexeme
<1>9. ~Repeated(Read[path][Lexeme].is)
  BY <1>7, <1>8, Zenon DEF Repeated
<1>10. Name
  <2>1. pc \in {"first", "name"}
    BY <1>1
  <2> QED
    BY <1>1, <1>4, <1>8, <1>9, <2>1, NameOnly
<1>11. open' = WithTop([Top EXCEPT !.names = Append(@, Read[path][Lexeme].is)]) /\ Bump("colon")
  BY <1>10, Zenon DEF Name
<1>12. open' = Append(SubSeq(open, 1, Len(open) - 1), g) /\ pos' = pos + 1 /\ pc' = "colon"
  BY <1>8, <1>11, Zenon DEF WithTop, Below, Bump
<1>13. g.kind = f.kind /\ g.items = f.items /\ g.names = N
  BY <1>4 DEF FrameOK
<1>14. Len(N) = i /\ \A h \in 1..i : N[h] = v.names[h]
  <2>1. Len(N) = m + 1 /\ (\A h \in 1..m : N[h] = f.names[h]) /\ N[m + 1] = x
    BY <1>4, <1>5, Appended DEF FrameOK
  <2>2. ASSUME NEW h \in 1..i PROVE N[h] = v.names[h]
    <3>1. CASE h = i
      BY <2>1, <3>1 DEF x
    <3>2. CASE h # i
      <4> HIDE DEF m
      <4>1. h \in 1..m
        BY <1>5, <3>2
      <4> QED
        BY <1>5, <2>1, <4>1
    <3> QED
      BY <3>1, <3>2
  <2> QED
    BY <2>1, <2>2
<1> HIDE DEF N, g
<1>15. UpTo(g, v)
  <2>1. Len(g.names) <= Len(v.names) /\ \A h \in 1..Len(g.names) : g.names[h] = v.names[h]
    BY <1>1, <1>5, <1>13, <1>14
  <2> QED
    BY <1>5, <1>13, <2>1 DEF UpTo
<1>16. Course(g, v, a, n, b, text)
  BY <1>4, <1>15 DEF Course
<1>17. Len(g.items) + 1 = i /\ pos' = e + 2
  BY <1>1, <1>3, <1>12, <1>13
<1>18. Here(g, v, a, "colon", pos')
  <2> DEFINE p == "colon"
  <2>1. p # "failed" /\ p \notin {"after", "parsed", "name", "first", "value"}
    OBVIOUS
  <2> HIDE DEF p
  <2>2. pos' = EntryAt(a, Len(g.items) + 1) + 2 /\ Len(g.items) + 1 <= Len(v.items)
    BY <1>1, <1>17 DEF e
  <2>3. Here(g, v, a, p, pos')
    BY <2>1, <2>2, Zenon DEF Here
  <2> QED
    BY <2>3 DEF p
<1> HIDE DEF n, b
<1>19. Course(g, of[k], at[k], Height + 1 - k, MaxDepth + 1 - k, text)
  BY <1>16 DEF n, b
<1> QED
  BY <1>4, <1>12, <1>18, <1>19, AlongTop

\* A colon comes next.
LEMMA ColonStep ==
    ASSUME NEW s, NEW of, NEW at, AtWork(s, of, at), NEW k, k = Len(open),
           ColonNext(Top, of[k], at[k], pc, pos, Lexeme)
    PROVE  Along(s, of, at, text, pos', pc', open')
<1> DEFINE f == Top
           v == of[k]
           a == at[k]
           n == Height + 1 - k
           b == MaxDepth + 1 - k
           i == Len(f.items) + 1
           e == EntryAt(a, i)
           d == ItemAt(v, a, i)
<1>1. /\ pc = "colon" /\ f.kind = BeginObject
      /\ i <= Len(v.items) /\ pos = e + 2 /\ Lexeme = ":"
  BY DEF ColonNext
<1>2. Coming(f, v, a, n, b, v.items[i])
  BY <1>1, ComingIs
<1>3. e \in Nat /\ d = e + 2
  BY <1>1, <1>2, Zenon DEF Coming, Ready
<1>4. Next /\ f = open[k] /\ Along(s, of, at, text, pos, pc, open)
  BY DEF AtWork, OnTop
<1>5. Bump("value") /\ open' = open
  BY <1>1, <1>4, ColonOnly
<1>6. pos' = pos + 1 /\ pc' = "value"
  BY <1>5 DEF Bump
<1>7. pos' = d + 1
  <2> HIDE DEF e, d
  <2> QED
    BY <1>1, <1>3, <1>6
<1>8. Here(f, v, a, "value", pos')
  <2> DEFINE p == "value"
  <2>1. p # "failed" /\ p \notin {"after", "parsed", "name", "first", "colon"}
    OBVIOUS
  <2> HIDE DEF p
  <2>2. Here(f, v, a, p, pos')
    BY <1>1, <1>7, <2>1, Zenon DEF Here
  <2> QED
    BY <2>2 DEF p
<1> HIDE DEF f
<1> QED
  BY <1>4, <1>5, <1>6, <1>8, AlongSame

\* A comma comes next.
LEMMA CommaStep ==
    ASSUME NEW s, NEW of, NEW at, AtWork(s, of, at), NEW k, k = Len(open),
           CommaNext(Top, of[k], at[k], pc, pos, Lexeme)
    PROVE  Along(s, of, at, text, pos', pc', open')
<1> DEFINE f == Top
           v == of[k]
           a == at[k]
           n == Height + 1 - k
           b == MaxDepth + 1 - k
           i == Len(f.items) + 1
           e == EntryAt(a, i)
           d == ItemAt(v, a, i)
<1>1. /\ pc = "after" /\ f.kind \in {BeginObject, BeginArray}
      /\ i <= Len(v.items) /\ pos = e /\ Lexeme = ","
  BY DEF CommaNext
<1>2. Coming(f, v, a, n, b, v.items[i])
  BY <1>1, ComingIs
<1>3. e \in Nat /\ (f.kind # BeginObject => d = e)
  BY <1>2, Zenon DEF Coming, Ready
<1>4. /\ Next /\ f = open[k] /\ Along(s, of, at, text, pos, pc, open)
      /\ Depth = k - 1 /\ k \in Nat /\ (k = 1 => f.kind = "text")
  BY DEF AtWork, OnTop
<1>5. Depth # 0
  <2>1. k # 1
    BY <1>1, <1>4 DEF BeginObject, BeginArray
  <2> HIDE DEF Depth
  <2> QED
    BY <1>4, <2>1
<1>6. Comma
  BY <1>1, <1>4, <1>5, CommaOnly
<1> DEFINE q == IF f.kind = BeginObject THEN "name" ELSE "value"
<1>7. open' = open /\ pos' = pos + 1 /\ pc' = q
  BY <1>6, CommaMoves DEF Bump
<1>8. pos' = e + 1 /\ (f.kind # BeginObject => pos' = d + 1)
  <2> HIDE DEF e, d
  <2> QED
    BY <1>1, <1>3, <1>7
<1>9. Here(f, v, a, q, pos')
  <2>1. CASE f.kind = BeginObject
    <3> DEFINE p == "name"
    <3>1. p # "failed" /\ p \notin {"after", "parsed", "first", "colon", "value"}
      OBVIOUS
    <3> HIDE DEF p
    <3>2. Here(f, v, a, p, pos')
      BY <1>1, <1>8, <3>1, Zenon DEF Here
    <3> QED
      BY <2>1, <3>2 DEF p
  <2>2. CASE f.kind # BeginObject
    <3> DEFINE p == "value"
    <3>1. p # "failed" /\ p \notin {"after", "parsed", "name", "first", "colon"}
      OBVIOUS
    <3> HIDE DEF p
    <3>2. Here(f, v, a, p, pos')
      BY <1>1, <1>8, <2>2, <3>1, Zenon DEF Here
    <3> QED
      BY <2>2, <3>2 DEF p
  <2> QED
    BY <2>1, <2>2
<1> HIDE DEF f, q
<1> QED
  BY <1>4, <1>7, <1>9, AlongSame

\* The end of the text comes next.
LEMMA EndStep ==
    ASSUME NEW s, NEW of, NEW at, AtWork(s, of, at), NEW k, k = Len(open),
           EndNext(Top, of[k], at[k], pc, pos, Lexeme)
    PROVE  Along(s, of, at, text, pos', pc', open')
<1> DEFINE f == Top
           v == of[k]
           a == at[k]
<1>1. pc = "after" /\ f.kind = "text" /\ Lexeme = "end"
  BY DEF EndNext
<1>2. /\ Next /\ f = open[k] /\ Along(s, of, at, text, pos, pc, open)
      /\ Depth = k - 1 /\ (f.kind = "text" => k = 1) /\ Here(f, v, a, pc, pos)
  BY DEF AtWork, OnTop
<1>3. Depth = 0
  <2>1. k = 1 /\ Depth = k - 1
    BY <1>1, <1>2
  <2> HIDE DEF Depth
  <2> QED
    BY <2>1
<1>4. pc' = "parsed" /\ pos' = pos /\ open' = open
  BY <1>1, <1>2, <1>3, EndOnly
<1>5. Here(f, v, a, "parsed", pos')
  <2> DEFINE p == "parsed"
  <2>1. p # "failed" /\ p \notin {"value", "name", "first", "colon"}
    OBVIOUS
  <2>2. Len(f.items) # 0 /\ pos' = a[Len(f.items)] + 1
    BY <1>1, <1>2, <1>4 DEF Here
  <2> HIDE DEF p
  <2>3. Here(f, v, a, p, pos')
    BY <2>1, <2>2, Zenon DEF Here
  <2> QED
    BY <2>3 DEF p
<1> HIDE DEF f
<1> QED
  BY <1>2, <1>4, <1>5, AlongSame

\* Two sequences of one length with the same elements.
LEMMA SameElements ==
    ASSUME NEW s, Sequence(s), NEW S, NEW t \in Seq(S), Len(s) = Len(t),
           \A i \in 1..Len(s) : s[i] = t[i]
    PROVE  s = t
<1>1. Len(s) \in Nat /\ DOMAIN s = 1..Len(s) /\ s = [i \in DOMAIN s |-> s[i]]
  BY LenProperties DEF Sequence
<1>2. DOMAIN t = 1..Len(t) /\ t = [i \in DOMAIN t |-> t[i]]
  BY LenProperties
<1> QED
  BY <1>1, <1>2

\* A frame that has all of its value is that value.
LEMMA WholeFrame ==
    ASSUME NEW f, NEW v, NEW at, NEW n, NEW b, NEW u, Course(f, v, at, n, b, u), FrameOK(f),
           Even(f), Len(f.items) = Len(v.items)
    PROVE  f = v
<1>1. /\ v = [kind |-> v.kind, names |-> v.names, items |-> v.items]
      /\ v.names \in Seq(Names) /\ v.items \in Seq(Value[n])
      /\ v.kind = BeginObject => Len(v.names) = Len(v.items)
      /\ v.kind # BeginObject => v.names = <<>>
  BY DEF Course, Target
<1>2. /\ f.kind = v.kind
      /\ \A i \in 1..Len(f.items) : f.items[i] = v.items[i]
      /\ \A i \in 1..Len(f.names) : f.names[i] = v.names[i]
  BY DEF Course, UpTo
<1>3. /\ f = [kind |-> f.kind, names |-> f.names, items |-> f.items]
      /\ Sequence(f.names) /\ Sequence(f.items)
      /\ f.kind # BeginObject => f.names = <<>>
  BY DEF FrameOK
<1>4. f.items = v.items
  BY <1>1, <1>2, <1>3, SameElements
<1>5. f.names = v.names
  <2>1. CASE f.kind = BeginObject
    <3>1. Len(f.names) = Len(v.names)
      BY <1>1, <1>2, <2>1 DEF Even
    <3> QED
      BY <1>1, <1>2, <1>3, <3>1, SameElements
  <2>2. CASE f.kind # BeginObject
    BY <1>1, <1>2, <1>3, <2>2
  <2> QED
    BY <2>1, <2>2
<1> QED
  BY <1>1, <1>2, <1>3, <1>4, <1>5

\* The frame below, and what it waits for.
LEMMA BelowOf ==
    ASSUME IInv, pc # "failed", NEW s, NEW of, NEW at, Along(s, of, at, text, pos, pc, open),
           NEW k, k = Len(open), k \in Nat, k >= 2, NEW j, j = k - 1
    PROVE  /\ j \in Nat /\ j >= 1
           /\ FrameOK(open[j]) /\ Ahead(open[j]) /\ (path = "again" => Distinct(open[j].names))
           /\ Course(open[j], of[j], at[j], Height + 1 - j, MaxDepth + 1 - j, text)
           /\ Waits(open[j], of[j], at[j], of[k], at[k])
<1>1. j \in Nat /\ j >= 1 /\ j \in 1..k /\ j \in 1..(k - 1) /\ j + 1 = k
  OBVIOUS
<1>2. FrameOK(open[j]) /\ Ahead(open[j])
  BY <1>1 DEF IInv, StackOK
<1>3. path = "again" => Distinct(open[j].names)
  BY <1>1 DEF IInv, Unique
<1>4. Course(open[j], of[j], at[j], Height + 1 - j, MaxDepth + 1 - j, text)
  BY <1>1 DEF Along
<1>5. Waits(open[j], of[j], at[j], of[k], at[k])
  <2>1. Waits(open[j], of[j], at[j], of[j + 1], at[j + 1])
    BY <1>1 DEF Along
  <2> QED
    BY <1>1, <2>1
<1> QED
  BY <1>1, <1>2, <1>3, <1>4, <1>5

\* The end of a container comes next.
LEMMA CloseStep ==
    ASSUME NEW s, NEW of, NEW at, AtWork(s, of, at), NEW k, k = Len(open),
           CloseNext(Top, of[k], at[k], pc, pos, Lexeme)
    PROVE  Along(s, of, at, text, pos', pc', open')
<1> DEFINE f == Top
           v == of[k]
           a == at[k]
           j == k - 1
           x == of[j]
           y == at[j]
           n == Height + 1 - j
           b == MaxDepth + 1 - j
           h == Len(open[j].items) + 1
           g == Delivered(open[j], f)
           c == Len(v.items)
<1>1. /\ pc \in {"first", "after"} /\ f.kind \in {BeginObject, BeginArray}
      /\ Len(f.items) = c /\ pos = a[c] + 1 /\ Lexeme = Ending(v.kind)
  BY DEF CloseNext
<1>2. /\ Next /\ path = "again" /\ f = open[k] /\ Along(s, of, at, text, pos, pc, open)
      /\ Depth = k - 1 /\ k \in Nat /\ k >= 1 /\ (k = 1 => f.kind = "text")
      /\ FrameOK(f) /\ Sequence(open) /\ IInv
      /\ Course(f, v, a, Height + 1 - k, MaxDepth + 1 - k, text)
  BY DEF AtWork, OnTop
<1>3. k >= 2
  <2>1. k # 1
    BY <1>1, <1>2 DEF BeginObject, BeginArray
  <2>2. k \in Nat /\ k >= 1
    BY <1>2
  <2> QED
    BY <2>1, <2>2
<1>4. f.kind = v.kind /\ Even(f) /\ pc # "failed"
  BY <1>1, <1>2 DEF Course, UpTo, IInv, StackOK
<1>5. f = v
  BY <1>1, <1>2, <1>4, WholeFrame
<1>6. CloseContainer
  <2>1. Depth # 0
    <3>1. Depth = k - 1 /\ k \in Nat /\ k >= 2
      BY <1>2, <1>3
    <3> HIDE DEF Depth
    <3> QED
      BY <3>1
  <2>2. Lexeme = Ending(Top.kind)
    BY <1>1, <1>4
  <2>3. Kind = Lexeme
    BY <1>1, <1>2, <2>2, MarksAre, CanonicalLexeme
  <2> QED
    BY <1>1, <1>2, <2>1, <2>2, <2>3, CloseOnly
<1>7. /\ open' = Append(SubSeq(open, 1, Len(open) - 2), Delivered(open[Len(open) - 1], Top))
      /\ pos' = pos + 1 /\ pc' = "after"
  BY <1>6, CloseMoves DEF Bump
<1>8. open' = Append(SubSeq(open, 1, Len(open) - 2), g)
  BY <1>7
<1>9. /\ j \in Nat /\ j >= 1
      /\ FrameOK(open[j]) /\ Ahead(open[j]) /\ Distinct(open[j].names)
      /\ Course(open[j], x, y, n, b, text)
      /\ Waits(open[j], x, y, v, a)
  <2> DEFINE jj == k - 1
  <2>1. jj = k - 1
    OBVIOUS
  <2> HIDE DEF jj
  <2>2. /\ jj \in Nat /\ jj >= 1
        /\ FrameOK(open[jj]) /\ Ahead(open[jj]) /\ (path = "again" => Distinct(open[jj].names))
        /\ Course(open[jj], of[jj], at[jj], Height + 1 - jj, MaxDepth + 1 - jj, text)
        /\ Waits(open[jj], of[jj], at[jj], of[k], at[k])
    BY <1>2, <1>3, <1>4, <2>1, BelowOf
  <2> QED
    BY <1>2, <2>2 DEF jj
<1>10. h <= Len(x.items) /\ v = x.items[h] /\ a[c] + 1 = y[h]
  BY <1>9, Zenon DEF Waits
<1>11. x.items \in Seq(Value[n])
  BY <1>9 DEF Course, Target
<1>12. Len(open[j].items) \in Nat /\ Len(x.items) \in Nat
  BY <1>9, <1>11, SequenceLen, LenProperties DEF FrameOK
<1>13. Course(g, x, y, n, b, text) /\ Len(g.items) = h
  <2> DEFINE r == open[j]
  <2>1. Len(r.items) < Len(x.items)
    BY <1>10, <1>12
  <2>2. f = x.items[Len(r.items) + 1]
    BY <1>5, <1>10
  <2>3. FrameOK(r) /\ Ahead(r) /\ Distinct(r.names) /\ Course(r, x, y, n, b, text)
    BY <1>9
  <2>4. g = Delivered(r, x.items[Len(r.items) + 1])
    BY <2>2
  <2> HIDE DEF r, x, y, n, b, g
  <2>5. LET t == Delivered(r, x.items[Len(r.items) + 1]) IN
        /\ Course(t, x, y, n, b, text)
        /\ Len(t.items) = Len(r.items) + 1
    BY <1>11, <2>1, <2>3, Arrives
  <2> QED
    BY <2>4, <2>5 DEF r
<1>14. pos' = y[h] + 1
  <2>1. pos' = pos + 1 /\ pos = a[c] + 1 /\ a[c] + 1 = y[h]
    BY <1>1, <1>7, <1>10
  <2> HIDE DEF a, c, y, h
  <2> QED
    BY <2>1
<1> HIDE DEF g
<1>15. Here(g, x, y, "after", pos')
  <2> DEFINE p == "after"
  <2>1. p # "failed" /\ p \notin {"value", "name", "first", "colon"}
    OBVIOUS
  <2>2. h # 0
    BY <1>12
  <2> HIDE DEF p, h
  <2>3. Here(g, x, y, p, pos')
    BY <1>13, <1>14, <2>1, <2>2, Zenon DEF Here
  <2> QED
    BY <2>3 DEF p
<1> HIDE DEF n, b
<1>16. Course(g, of[j], at[j], Height + 1 - j, MaxDepth + 1 - j, text)
  BY <1>13 DEF n, b
<1>17. Len(open) >= 2 /\ j = Len(open) - 1 /\ Here(g, of[j], at[j], "after", pos')
  BY <1>3, <1>15
<1> HIDE DEF j
<1>18. Along(s, of, at, text, pos', "after", Append(SubSeq(open, 1, Len(open) - 2), g))
  BY <1>2, <1>16, <1>17, AlongBelow
<1> QED
  BY <1>7, <1>8, <1>18

\* The parser goes on reading the value back.
LEMMA AlongNext ==
    ASSUME IInv, TInv, path = "again", ~Ended, Next,
           NEW s, NEW of, NEW at, Along(s, of, at, text, pos, pc, open)
    PROVE  \E of2, at2 : Along(s, of2, at2, text, pos', pc', open')
<1> DEFINE k == Len(open)
           f == Top
           v == of[k]
           a == at[k]
           n == Height + 1 - k
           b == MaxDepth + 1 - k
<1>1. OnTop(of, at, k)
  BY TopOf
<1>2. AtWork(s, of, at)
  BY <1>1 DEF AtWork
<1>3. /\ n \in 0..Height /\ FrameOK(f) /\ Course(f, v, a, n, b, text) /\ Here(f, v, a, pc, pos)
      /\ (k = 1 <=> f.kind = "text") /\ (k # 1 => f.kind \in {BeginObject, BeginArray})
      /\ f = open[k]
  BY <1>1 DEF OnTop
<1>4. text \in Seq(Tokens) /\ pc \in Dues /\ pc # "parsed"
  BY DEF TInv, IInv, Ended
<1>5. /\ pc \in {"name", "colon"} => f.kind = BeginObject
      /\ pc = "first" => f.kind \in {BeginObject, BeginArray}
  BY <1>3 DEF IInv, StackOK
<1>6. f.kind = "text" => Len(v.items) = 1 /\ a[1] = Len(text)
  <2> SUFFICES ASSUME f.kind = "text" PROVE Len(v.items) = 1 /\ a[1] = Len(text)
    OBVIOUS
  <2>1. k = 1
    BY <1>3
  <2>2. of[1] = Whole(s) /\ at[1][1] = Len(text)
    BY DEF Along
  <2> QED
    BY <2>1, <2>2 DEF Whole
<1>7. \/ ValueNext(f, v, a, pc, pos, Lexeme) \/ NameNext(f, v, a, pc, pos, Lexeme)
      \/ ColonNext(f, v, a, pc, pos, Lexeme) \/ CommaNext(f, v, a, pc, pos, Lexeme)
      \/ CloseNext(f, v, a, pc, pos, Lexeme) \/ EndNext(f, v, a, pc, pos, Lexeme)
  <2>1. Lexeme = IF pos <= Len(text) THEN text[pos] ELSE "end"
    BY DEF Lexeme
  <2>2. f.kind # "text" => f.kind \in {BeginObject, BeginArray}
    BY <1>3
  <2> HIDE DEF f, v, a, n, b
  <2> QED
    BY <1>3, <1>4, <1>5, <1>6, <2>1, <2>2, SomeNext
<1> DEFINE w == v.items[Len(f.items) + 1]
<1>8. CASE ValueNext(f, v, a, pc, pos, Lexeme) /\ ~IsContainer(w)
  BY <1>2, <1>8, LeafStep
<1>9. CASE ValueNext(f, v, a, pc, pos, Lexeme) /\ IsContainer(w)
  BY <1>2, <1>9, OpenStep
<1>10. CASE NameNext(f, v, a, pc, pos, Lexeme)
  BY <1>2, <1>10, NameStep
<1>11. CASE ColonNext(f, v, a, pc, pos, Lexeme)
  BY <1>2, <1>11, ColonStep
<1>12. CASE CommaNext(f, v, a, pc, pos, Lexeme)
  BY <1>2, <1>12, CommaStep
<1>13. CASE CloseNext(f, v, a, pc, pos, Lexeme)
  BY <1>2, <1>13, CloseStep
<1>14. CASE EndNext(f, v, a, pc, pos, Lexeme)
  BY <1>2, <1>14, EndStep
<1> QED
  BY <1>7, <1>8, <1>9, <1>10, <1>11, <1>12, <1>13, <1>14

\* Where the parser starts on the text of s.
LEMMA AlongStart ==
    ASSUME NEW s \in Value[Height], s \in Within(Canonic, MaxDepth), NEW u, u = Laid[Height][s]
    PROVE  \E of, at : Along(s, of, at, u, 1, "value", <<Frame("text")>>)
<1> DEFINE f == Frame("text")
           o == <<f>>
           v == Whole(s)
           a == [i \in 0..1 |-> IF i = 0 THEN 0 ELSE Len(u)]
           of == <<v>>
           at == <<a>>
<1>1. /\ Height \in Nat /\ Height + 1 - 1 = Height /\ Height \in 0..Height
      /\ MaxDepth \in Nat /\ MaxDepth + 1 - 1 = MaxDepth
  BY DepthAssumption
<1>2. u \in Seq(Tokens) /\ Len(u) \in Nat
  BY <1>1, LaidType, LenProperties
<1>3. v = [kind |-> "text", names |-> <<>>, items |-> <<s>>]
  BY DEF Whole
<1>4. /\ v = [kind |-> v.kind, names |-> v.names, items |-> v.items]
      /\ v.kind = "text" /\ v.names = <<>> /\ v.items = <<s>>
  BY <1>3
<1>5. /\ f.kind = "text" /\ f.names = <<>> /\ f.items = <<>> /\ "text" # BeginObject
  BY TokenKinds DEF Frame
<1>6. a[0] = 0 /\ a[1] = Len(u) /\ a \in [0..1 -> Nat]
  BY <1>2
<1> HIDE DEF v, f, a
<1>7. Target(v, Height, MaxDepth)
  <2> DEFINE L == Value[Height]
             w == v.items
  <2>1. s \in L
    OBVIOUS
  <2> HIDE DEF L
  <2>2. <<s>> \in Seq(L) /\ Len(<<s>>) = 1 /\ <<s>>[1] = s
    BY <2>1
  <2>3. \A i \in 1..Len(w) : w[i] \in Within(Canonic, MaxDepth)
    BY <1>4, <2>2
  <2>4. <<>> \in Seq(Names) /\ Distinct(<<>>)
    BY DEF Distinct
  <2> QED
    BY <1>4, <1>5, <2>2, <2>3, <2>4 DEF Target, L
<1>8. UpTo(f, v)
  <2>1. Len(f.items) = 0 /\ Len(f.names) = 0 /\ Len(v.items) = 1 /\ Len(v.names) = 0
    BY <1>4, <1>5
  <2> QED
    BY <1>4, <1>5, <2>1 DEF UpTo
<1>9. ItemAt(v, a, 1) = 0 /\ EntryAt(a, 1) = 0
  BY <1>4, <1>5, <1>6 DEF ItemAt, EntryAt
<1>10. Laying(v, Height, u, a)
  <2>1. Len(v.items) = 1 /\ v.items[1] = s
    BY <1>4
  <2>2. Stands(u, u, 0)
    BY <1>2 DEF Stands
  <2>3. ASSUME NEW i \in 1..1
        PROVE  /\ i # 1 => u[a[i - 1] + 1] = ","
               /\ v.kind = BeginObject =>
                    u[EntryAt(a, i) + 1] = v.names[i] /\ u[EntryAt(a, i) + 2] = ":"
               /\ Stands(Laid[Height][v.items[i]], u, ItemAt(v, a, i))
               /\ a[i] = ItemAt(v, a, i) + Len(Laid[Height][v.items[i]])
    <3>1. i = 1
      OBVIOUS
    <3>2. v.kind # BeginObject /\ Laid[Height][v.items[1]] = u
      BY <1>4, <1>5, <2>1
    <3>3. Stands(Laid[Height][v.items[1]], u, ItemAt(v, a, 1))
      BY <1>9, <2>2, <3>2
    <3>4. a[1] = ItemAt(v, a, 1) + Len(Laid[Height][v.items[1]])
      <4> DEFINE m == Len(u)
      <4>1. m \in Nat /\ a[1] = m /\ Len(Laid[Height][v.items[1]]) = m
        BY <1>2, <1>6, <3>2
      <4> HIDE DEF m
      <4> QED
        BY <1>9, <4>1
    <3> QED
      BY <3>1, <3>2, <3>3, <3>4
  <2>4. 1..Len(v.items) = 1..1 /\ 0..Len(v.items) = 0..1
    BY <2>1
  <2> QED
    BY <1>4, <1>6, <2>3, <2>4 DEF Laying
<1>11. Course(f, v, a, Height, MaxDepth, u)
  BY <1>7, <1>8, <1>10 DEF Course
<1>12. Here(f, v, a, "value", 1)
  <2> DEFINE p == "value"
  <2>1. p # "failed" /\ p \notin {"after", "parsed", "name", "first", "colon"}
    OBVIOUS
  <2>2. Len(f.items) + 1 = 1 /\ 1 <= Len(v.items) /\ 1 = ItemAt(v, a, 1) + 1
    BY <1>4, <1>5, <1>9
  <2> HIDE DEF p
  <2>3. Here(f, v, a, p, 1)
    BY <2>1, <2>2, Zenon DEF Here
  <2> QED
    BY <2>3 DEF p
<1>13. Len(o) = 1 /\ o[1] = f /\ of[1] = v /\ at[1] = a
  OBVIOUS
<1> HIDE DEF o, of, at
<1>14. ASSUME NEW k \in 1..Len(o)
       PROVE  Course(o[k], of[k], at[k], Height + 1 - k, MaxDepth + 1 - k, u)
  <2>1. k = 1
    BY <1>13
  <2> QED
    BY <1>1, <1>11, <1>13, <2>1
<1>15. 1..(Len(o) - 1) = {}
  BY <1>13
<1>16. of[1] = Whole(s) /\ at[1][1] = Len(u)
  BY <1>6, <1>13 DEF v
<1>17. Along(s, of, at, u, 1, "value", o)
  BY <1>12, <1>13, <1>14, <1>15, <1>16 DEF Along
<1> QED
  BY <1>17 DEF o, f

\* The texts that are read back.
Formed(t) == \E r \in Value[Height] : t = Write[MaxDepth][r]
Back(t) == \E s \in Value[Height] : \E of, at :
    /\ t = Write[MaxDepth][s] /\ s \in Within(Canonic, MaxDepth)
    /\ Along(s, of, at, t, pos, pc, open)

AInv ==
    /\ "raw" \in DOMAIN forms => forms["raw"] = Bad \/ Formed(forms["raw"])
    /\ path = "again" => Back(text)

\* A value that Parser reads back.
LEMMA Readable ==
    ASSUME NEW t, t # Bad, Formed(t), Restart("again", t)
    PROVE  Back(text)'
<1>1. PICK r \in Value[Height] : t = Write[MaxDepth][r]
  BY DEF Formed
<1>2. PICK s \in Value[Height] :
        /\ Laid[Height][s] = t /\ Write[MaxDepth][s] = t
        /\ s \in Within(Canonic, MaxDepth)
  BY <1>1, FormIsLaid
<1>3. PICK of, at : Along(s, of, at, t, 1, "value", <<Frame("text")>>)
  BY <1>2, AlongStart
<1>4. text' = t /\ pos' = 1 /\ pc' = "value" /\ open' = <<Frame("text")>>
  BY DEF Restart
<1>5. Along(s, of, at, text', pos', pc', open')
  BY <1>3, <1>4
<1> QED
  BY <1>2, <1>4, <1>5 DEF Back

\* What a path comes to is a canonical form.
LEMMA FormFormed == CInv => Form = Bad \/ Formed(Form)
<1> SUFFICES ASSUME CInv, Form # Bad PROVE Formed(Form)
  OBVIOUS
<1>1. pc = "parsed" /\ Form = WriteValue(Result, 0)
  BY Zenon DEF Form
<1>2. Result \in Value[Height] /\ MaxDepth - 0 = MaxDepth
  BY <1>1, ResultIs, DepthAssumption
<1>3. Form = Write[MaxDepth][Result]
  BY <1>1, <1>2 DEF WriteValue
<1> HIDE DEF Form, Result
<1> QED
  BY <1>2, <1>3 DEF Formed

LEMMA NextGoesOn == Next => ~Ended
<1>1. ValueDue => ~Ended
  BY DEF ValueDue, Ended
<1>2. NameDue => ~Ended
  BY DEF NameDue, Ended
<1>3. pc \in {"colon", "after", "first"} => ~Ended
  BY DEF Ended
<1> QED
  BY <1>1, <1>2, <1>3, Guards, SkipWsMoves DEF Next

LEMMA AInit == CanonicalInit => AInv
<1> SUFFICES ASSUME CanonicalInit PROVE AInv
  OBVIOUS
<1>1. DOMAIN forms = {}
  BY DEF CanonicalInit
<1>2. path # "again"
  BY DEF CanonicalInit, Init, BuiltInit
<1> QED
  BY <1>1, <1>2 DEF AInv

\* Each step keeps it.
LEMMA ANext == CInv /\ AInv /\ [CanonicalNext]_allVars => AInv'
<1> SUFFICES ASSUME CInv, AInv, [CanonicalNext]_allVars PROVE AInv'
  OBVIOUS
<1>1. /\ IInv /\ TInv
      /\ "raw" \in DOMAIN forms => forms["raw"] = Bad \/ Formed(forms["raw"])
      /\ path = "again" => Back(text)
      /\ path = "serde" => "raw" \in DOMAIN forms
  BY DEF CInv, FormsOK, AInv
<1>2. ASSUME forms' = forms PROVE ("raw" \in DOMAIN forms => forms["raw"] = Bad \/ Formed(forms["raw"]))'
  BY <1>1, <1>2 DEF Formed
<1>3. ASSUME forms' = Recorded PROVE ("raw" \in DOMAIN forms => forms["raw"] = Bad \/ Formed(forms["raw"]))'
  <2> SUFFICES ASSUME "raw" \in DOMAIN forms' PROVE forms'["raw"] = Bad \/ Formed(forms'["raw"])
    BY DEF Formed
  <2>1. "raw" \in DOMAIN forms \cup {path} /\ forms'["raw"] = IF "raw" = path THEN Form ELSE forms["raw"]
    BY <1>3 DEF Recorded
  <2>2. CASE path = "raw"
    <3>1. forms'["raw"] = Form
      BY <2>1, <2>2
    <3> QED
      BY <3>1, FormFormed
  <2>3. CASE path # "raw"
    <3>1. forms'["raw"] = forms["raw"] /\ "raw" \in DOMAIN forms
      BY <2>1, <2>3
    <3> QED
      BY <1>1, <3>1
  <2> QED
    BY <2>2, <2>3
<1>4. CASE Parse
  <2>1. Next /\ forms' = forms /\ path' = path /\ text' = text
    BY <1>4, NextStays DEF Parse
  <2>2. ASSUME path = "again" PROVE Back(text)'
    <3>1. PICK s \in Value[Height] : \E of, at :
            /\ text = Write[MaxDepth][s] /\ s \in Within(Canonic, MaxDepth)
            /\ Along(s, of, at, text, pos, pc, open)
      BY <1>1, <2>2 DEF Back
    <3>2. PICK of, at : Along(s, of, at, text, pos, pc, open)
      BY <3>1
    <3>3. PICK of2, at2 : Along(s, of2, at2, text, pos', pc', open')
      BY <1>1, <2>1, <2>2, <3>2, AlongNext, NextGoesOn
    <3>4. Along(s, of2, at2, text', pos', pc', open')
      BY <2>1, <3>3
    <3> QED
      BY <2>1, <3>1, <3>4 DEF Back
  <2> QED
    BY <1>2, <2>1, <2>2 DEF AInv
<1>5. CASE OtherEntry
  <2>1. forms' = Recorded /\ path' = "serde"
    BY <1>5 DEF OtherEntry, Restart
  <2> QED
    BY <1>3, <2>1 DEF AInv
<1>6. CASE Again
  <2> DEFINE form == IF path = "built" THEN Form ELSE forms["raw"]
  <2>1. /\ path \in {"serde", "built"} /\ forms' = Recorded
        /\ IF form = Bad THEN UNCHANGED vars ELSE Restart("again", form)
    BY <1>6 DEF Again
  <2>2. form = Bad \/ Formed(form)
    BY <1>1, <2>1, FormFormed
  <2> HIDE DEF form
  <2>3. CASE form = Bad
    <3>1. path' = path /\ path # "again"
      BY <2>1, <2>3 DEF vars
    <3> QED
      BY <1>3, <2>1, <3>1 DEF AInv
  <2>4. CASE form # Bad
    <3>1. Back(text)'
      BY <2>1, <2>2, <2>4, Readable
    <3> QED
      BY <1>3, <2>1, <3>1 DEF AInv
  <2> QED
    BY <2>3, <2>4
<1>7. CASE UNCHANGED allVars
  <2>1. path' = path /\ text' = text /\ pos' = pos /\ pc' = pc /\ open' = open /\ forms' = forms
    BY <1>7 DEF allVars, vars
  <2>2. Back(text)' <=> Back(text)
    BY <2>1 DEF Back
  <2> QED
    BY <1>1, <1>2, <2>1, <2>2 DEF AInv
<1> QED
  BY <1>4, <1>5, <1>6, <1>7 DEF CanonicalNext

\* What is read back.
LEMMA BackIs ==
    ASSUME IInv, TInv, Back(text)
    PROVE  /\ pc # "failed"
           /\ pc = "parsed" => /\ text = Write[MaxDepth][Result]
                               /\ Result \in Within(Canonic, MaxDepth) /\ Result \in Value[Height]
<1>1. PICK s \in Value[Height] : \E of, at :
        /\ text = Write[MaxDepth][s] /\ s \in Within(Canonic, MaxDepth)
        /\ Along(s, of, at, text, pos, pc, open)
  BY DEF Back
<1>2. PICK of, at : Along(s, of, at, text, pos, pc, open)
  BY <1>1
<1>3. pc # "failed"
  BY <1>2 DEF Along, Here
<1>4. ASSUME pc = "parsed" PROVE Result = s
  <2>1. Len(open) = 1 /\ Len(open[1].items) = 1
    BY <1>4 DEF TInv, Bottom
  <2>2. Course(open[1], of[1], at[1], Height + 1 - 1, MaxDepth + 1 - 1, text) /\ of[1] = Whole(s)
    BY <1>2, <2>1 DEF Along
  <2>3. open[1].items[1] = of[1].items[1]
    BY <2>1, <2>2 DEF Course, UpTo
  <2>4. of[1].items[1] = s
    BY <2>2 DEF Whole
  <2> QED
    BY <2>3, <2>4 DEF Result
<1> QED
  BY <1>1, <1>3, <1>4

-----------------------------------------------------------------------------
(* What has been read of the text, laid out. *)

\* One more to be joined.
LEMMA FlattenAppend ==
    ASSUME NEW S, NEW s \in Seq(Seq(S)), NEW x \in Seq(S)
    PROVE  FlattenSeq(Append(s, x)) = FlattenSeq(s) \o x
<1> DEFINE t == Append(s, x)
           n == Len(s)
<1>1. /\ n \in Nat /\ t \in Seq(Seq(S)) /\ Len(t) = n + 1 /\ t[n + 1] = x
      /\ \A i \in 1..n : s[i] = t[i]
  BY AppendProperties, LenProperties
<1> HIDE DEF t
<1>5. n \in 0..(Len(t) - 1) /\ n <= Len(t) /\ n \in 0..n
  <2> HIDE DEF n
  <2> QED
    BY <1>1
<1>2. Joined(t, n + 1) = Joined(t, n) \o x
  BY <1>1, <1>5, JoinedNext, Zenon
<1>3. Joined(s, n) = Joined(t, n)
  BY <1>1, <1>5, JoinedSame, Zenon
<1> HIDE DEF n
<1>4. Joined(s, n) = FlattenSeq(s) /\ Joined(t, n + 1) = FlattenSeq(t)
  BY <1>1, JoinedAll DEF n
<1> QED
  BY <1>2, <1>3, <1>4 DEF t

\* Sequences of one and of two.
LEMMA OneIs ==
    ASSUME NEW S, NEW c \in S
    PROVE  <<c>> \in Seq(S)
  OBVIOUS

LEMMA TwoAre ==
    ASSUME NEW S, NEW c \in S, NEW d \in S
    PROVE  <<c, d>> \in Seq(S) /\ <<c, d>> = <<c>> \o <<d>>
<1> DEFINE s == <<c, d>>
           t == <<c>> \o <<d>>
<1>1. s \in Seq(S) /\ Len(s) = 2 /\ s[1] = c /\ s[2] = d
  OBVIOUS
<1>2. t \in Seq(S) /\ Len(t) = 2 /\ t[1] = c /\ t[2] = d
  OBVIOUS
<1>3. \A i \in 1..Len(s) : i = 1 \/ i = 2
  BY <1>1
<1> HIDE DEF s, t
<1>4. s = t
  BY <1>1, <1>2, <1>3, SeqEqual
<1> QED
  BY <1>1, <1>4 DEF s, t

LEMMA FlattenNone ==
    ASSUME NEW S
    PROVE  FlattenSeq(<<>>) = <<>>
<1> DEFINE s == <<>>
<1>1. s \in Seq(Seq(S)) /\ Len(s) = 0
  OBVIOUS
<1>2. Joined(s, 0) = FlattenSeq(s) /\ Joined(s, 0) = <<>>
  BY <1>1, JoinedAll, JoinedZero
<1> QED
  BY <1>2

\* One piece more, behind a comma unless it is the first.
LEMMA SeparatedNext ==
    ASSUME NEW ls \in Seq(Seq(Tokens)), NEW l \in Seq(Tokens)
    PROVE  /\ Separated(Append(ls, l)) =
                Separated(ls) \o (IF ls = <<>> THEN l ELSE <<",">> \o l)
           /\ Separated(ls) \in Seq(Tokens)
<1> DEFINE n == Len(ls)
           ms == Append(ls, l)
           x == IF ls = <<>> THEN l ELSE <<",">> \o l
<1>1. /\ n \in Nat /\ ms \in Seq(Seq(Tokens)) /\ Len(ms) = n + 1 /\ ms[n + 1] = l
      /\ \A i \in 1..n : ms[i] = ls[i]
      /\ n = 0 <=> ls = <<>>
  BY AppendProperties, LenProperties, EmptySeq
<1>2. x \in Seq(Tokens)
  <2>1. <<",">> \in Seq(Tokens)
    BY TokensAre, OneIs
  <2> QED
    BY <2>1, ConcatProperties
<1>3. /\ Pieces(ls) \in Seq(Seq(Tokens)) /\ Len(Pieces(ls)) = n
      /\ \A i \in 1..n : Pieces(ls)[i] = (IF i = 1 THEN ls[i] ELSE <<",">> \o ls[i])
  BY PiecesAre
<1>4. /\ Pieces(ms) \in Seq(Seq(Tokens)) /\ Len(Pieces(ms)) = n + 1
      /\ \A i \in 1..(n + 1) : Pieces(ms)[i] = (IF i = 1 THEN ms[i] ELSE <<",">> \o ms[i])
  BY <1>1, PiecesAre
<1> HIDE DEF n, ms
<1>5. Pieces(ms)[n + 1] = x
  <2>1. n + 1 = 1 <=> n = 0
    BY <1>1
  <2>2. n + 1 \in 1..(n + 1)
    BY <1>1
  <2> QED
    BY <1>1, <1>4, <2>1, <2>2
<1> HIDE DEF x
<1>6. Pieces(ms) = Append(Pieces(ls), x)
  <2> DEFINE a == Pieces(ms)
             Q == Seq(Tokens)
             ps == Pieces(ls)
             b == Append(ps, x)
  <2>1. /\ b \in Seq(Q) /\ Len(b) = n + 1 /\ b[n + 1] = x
        /\ \A i \in 1..n : b[i] = ps[i]
    <3>1. ps \in Seq(Q) /\ Len(ps) = n /\ x \in Q
      BY <1>2, <1>3
    <3>2. n \in Nat
      BY <1>1
    <3> HIDE DEF Q, ps
    <3> QED
      BY <3>1, <3>2, AppendProperties DEF b
  <2>2. a \in Seq(Seq(Tokens)) /\ Len(a) = n + 1 /\ a[n + 1] = x
    BY <1>4, <1>5
  <2>3. ASSUME NEW i \in 1..n PROVE a[i] = b[i]
    <3>1. i \in 1..(n + 1)
      BY <1>1
    <3>2. /\ a[i] = IF i = 1 THEN ms[i] ELSE <<",">> \o ms[i]
          /\ b[i] = IF i = 1 THEN ls[i] ELSE <<",">> \o ls[i]
      BY <1>3, <1>4, <2>1, <3>1, Zenon
    <3>3. ms[i] = ls[i]
      BY <1>1
    <3> HIDE DEF a, b
    <3> QED
      BY <3>2, <3>3, Zenon
  <2> HIDE DEF a, b
  <2>4. \A i \in 1..(n + 1) : a[i] = b[i]
    <3>1. ASSUME NEW i \in 1..(n + 1) PROVE i \in 1..n \/ i = n + 1
      BY <1>1
    <3> QED
      BY <2>1, <2>2, <2>3, <3>1
  <2>5. a = b
    BY <2>1, <2>2, <2>4, SeqEqual
  <2> QED
    BY <2>5 DEF a, b
<1>7. FlattenSeq(Append(Pieces(ls), x)) = FlattenSeq(Pieces(ls)) \o x
  BY <1>2, <1>3, FlattenAppend
<1>8. Separated(ms) = Separated(ls) \o x
  BY <1>6, <1>7 DEF Separated
<1> QED
  BY <1>8, SeparatedType DEF x, ms

\* The value laid out, whatever its level.
Lay(v) == Laid[Height][v]

LEMMA LaidSame == \A n \in 0..Height : \A v \in Value[n] : Laid[n][v] = Lay(v)
<1> DEFINE Q == {n \in Nat : n \in 0..Height =>
                    \A m \in n..Height : \A v \in Value[n] : Laid[n][v] = Laid[m][v]}
<1>1. ASSUME NEW n \in 0..Height, NEW m \in n..Height, NEW v \in Value[n]
      PROVE  m \in 0..Height /\ v \in Value[m]
  <2>1. m \in 0..Height /\ n <= m
    BY DepthAssumption
  <2> QED
    BY <2>1, ValueGrows
<1>2. ASSUME NEW n \in 0..Height, NEW m \in n..Height, NEW v \in Value[n], ~IsContainer(v)
      PROVE  Laid[n][v] = Laid[m][v]
  BY <1>1, <1>2, LaidAre
<1>3. 0 \in Q
  <2>1. ASSUME 0 \in 0..Height, NEW m \in 0..Height, NEW v \in Value[0] PROVE Laid[0][v] = Laid[m][v]
    BY <1>2, <2>1, LevelZero
  <2> QED
    BY <2>1
<1>4. \A n \in Nat : n \in Q => n + 1 \in Q
  <2> SUFFICES ASSUME NEW n \in Nat, n \in Q, n + 1 \in 0..Height,
                      NEW m \in (n + 1)..Height, NEW v \in Value[n + 1], IsContainer(v)
               PROVE  Laid[n + 1][v] = Laid[m][v]
    BY <1>2
  <2>1. n \in 0..Height /\ m - 1 \in n..Height /\ (n + 1) - 1 = n
    BY DepthAssumption
  <2>2. m \in 0..Height /\ v \in Value[m]
    BY <1>1
  <2>3. /\ Laid[n + 1][v] = Bracketed(v, LaidItems(v, n), InOrder(v))
        /\ LaidItems(v, n) = [i \in DOMAIN v.items |-> Laid[n][v.items[i]]]
        /\ \A i \in DOMAIN v.items : v.items[i] \in Value[n]
    <3> DEFINE k == n + 1
    <3>1. k \in 0..Height /\ v \in Value[k] /\ k - 1 = n
      BY <2>1
    <3> HIDE DEF k
    <3>2. /\ Laid[k][v] = Bracketed(v, LaidItems(v, k - 1), InOrder(v))
          /\ \A i \in DOMAIN v.items : v.items[i] \in Value[k - 1]
      BY <3>1, LaidParts
    <3> QED
      BY <3>1, <3>2 DEF k, LaidItems
  <2>4. /\ Laid[m][v] = Bracketed(v, LaidItems(v, m - 1), InOrder(v))
        /\ LaidItems(v, m - 1) = [i \in DOMAIN v.items |-> Laid[m - 1][v.items[i]]]
    BY <2>2, LaidParts DEF LaidItems
  <2>5. \A i \in DOMAIN v.items : Laid[n][v.items[i]] = Laid[m - 1][v.items[i]]
    BY <2>1, <2>3
  <2>6. LaidItems(v, n) = LaidItems(v, m - 1)
    BY <2>3, <2>4, <2>5, Zenon
  <2> QED
    BY <2>3, <2>4, <2>6
<1> HIDE DEF Q
<1>5. Nat \subseteq Q
  BY <1>3, <1>4, NatInduct
<1> SUFFICES ASSUME NEW n \in 0..Height, NEW v \in Value[n] PROVE Laid[n][v] = Laid[Height][v]
  BY DEF Lay
<1>6. n \in Q /\ Height \in n..Height
  BY <1>5, DepthAssumption
<1> QED
  BY <1>6 DEF Q

-----------------------------------------------------------------------------
(* A call under way, laid out. *)

EntryOf(f, i) == IF f.kind = BeginObject THEN <<f.names[i], ":">> \o Lay(f.items[i]) ELSE Lay(f.items[i])
EntriesOf(f) == [i \in DOMAIN f.items |-> EntryOf(f, i)]
Filled(f) == <<f.kind>> \o Separated(EntriesOf(f))

\* What stands before the next value, when p is due.
Mark(f, p) == IF f.items = <<>> \/ p \in {"first", "after"} THEN <<>> ELSE <<",">>
Named(f, p) ==
    LET name == f.names[Len(f.names)] IN
    IF f.kind # BeginObject \/ p \notin {"colon", "value"} THEN <<>>
    ELSE IF p = "colon" THEN <<name>> ELSE <<name, ":">>

Shown(f, p) ==
    IF f.kind = "text" THEN (IF f.items = <<>> THEN <<>> ELSE Lay(f.items[1]))
    ELSE Filled(f) \o (Mark(f, p) \o Named(f, p))

\* A frame with names and values in it, as many as there are when p is due.
Fit(f, p) ==
    /\ f = [kind |-> f.kind, names |-> f.names, items |-> f.items]
    /\ f.kind \in {"text", BeginObject, BeginArray}
    /\ f.names \in Seq(Names) /\ f.items \in Seq(Value[Height])
    /\ f.kind # BeginObject => f.names = <<>>
    /\ f.kind = BeginObject =>
          Len(f.names) = Len(f.items) + IF p \in {"colon", "value"} THEN 1 ELSE 0

LEMMA EntriesAre ==
    ASSUME NEW f, NEW p, Fit(f, p)
    PROVE  /\ EntriesOf(f) \in Seq(Seq(Tokens)) /\ Len(EntriesOf(f)) = Len(f.items)
           /\ \A i \in 1..Len(f.items) : EntriesOf(f)[i] = EntryOf(f, i) /\ EntryOf(f, i) \in Seq(Tokens)
           /\ Separated(EntriesOf(f)) \in Seq(Tokens)
<1> DEFINE n == Len(f.items)
           s == EntriesOf(f)
           Q == Seq(Tokens)
<1>1. n \in Nat /\ DOMAIN f.items = 1..n /\ \A i \in 1..n : f.items[i] \in Value[Height]
  BY LenProperties, ElementOfSeq DEF Fit
<1>2. Height \in 0..Height
  BY DepthAssumption
<1>3. ASSUME NEW i \in 1..n PROVE EntryOf(f, i) \in Q
  <2>1. Lay(f.items[i]) \in Q
    BY <1>1, <1>2, LaidType DEF Lay
  <2>2. CASE f.kind = BeginObject
    <3> DEFINE c == ":"
               m == f.names[i]
               x == Lay(f.items[i])
    <3>1. i \in 1..Len(f.names)
      <4>1. Len(f.names) = n + IF p \in {"colon", "value"} THEN 1 ELSE 0
        BY <2>2 DEF Fit
      <4> DEFINE k == Len(f.names)
                 e == IF p \in {"colon", "value"} THEN 1 ELSE 0
      <4>4. e = 0 \/ e = 1
        OBVIOUS
      <4>5. k = n + e
        BY <4>1
      <4> HIDE DEF n, k, e
      <4>2. k = n \/ k = n + 1
        BY <4>4, <4>5, <1>1
      <4>3. i \in 1..k
        BY <1>1, <4>2
      <4> QED
        BY <4>3 DEF k
    <3>2. m \in Names
      BY <3>1, ElementOfSeq DEF Fit
    <3>3. c \in Tokens /\ m \in Tokens
      BY <3>2, TokensAre
    <3>4. EntryOf(f, i) = <<m, c>> \o x
      BY <2>2, Zenon DEF EntryOf
    <3> HIDE DEF c, m, x
    <3>5. <<m, c>> \in Seq(Tokens)
      BY <3>3, TwoAre
    <3> QED
      BY <2>1, <3>4, <3>5, ConcatProperties DEF x
  <2>3. CASE f.kind # BeginObject
    BY <2>1, <2>3 DEF EntryOf
  <2> QED
    BY <2>2, <2>3
<1>4. s = [i \in 1..n |-> EntryOf(f, i)]
  BY <1>1, Zenon DEF EntriesOf
<1> HIDE DEF s, Q
<1>5. s \in Seq(Q) /\ Len(s) = n /\ \A i \in 1..n : s[i] = EntryOf(f, i)
  <2> HIDE DEF n
  <2>1. s \in [1..n -> Q]
    BY <1>3, <1>4
  <2> QED
    BY <1>1, <1>4, <2>1
<1>6. Separated(s) \in Seq(Tokens)
  BY <1>5, SeparatedType DEF Q
<1> QED
  BY <1>3, <1>5, <1>6 DEF s, Q

LEMMA NoneSeparated == Separated(<<>>) = <<>>
<1>1. Pieces(<<>>) = <<>>
  BY DEF Pieces
<1>2. FlattenSeq(<<>>) = <<>>
  BY FlattenNone
<1> QED
  BY <1>1, <1>2 DEF Separated

\* Sequences joined, whichever first.
Cat(x, y) == x \o y

LEMMA Joining ==
    ASSUME NEW S
    PROVE  /\ \A x, y \in Seq(S) : Cat(x, y) \in Seq(S)
           /\ \A x, y, z \in Seq(S) : Cat(Cat(x, y), z) = Cat(x, Cat(y, z))
  BY ConcatProperties, ConcatAssociative DEF Cat

LEMMA FiveJoined ==
    ASSUME NEW S, NEW a \in Seq(S), NEW b \in Seq(S), NEW c \in Seq(S), NEW d \in Seq(S), NEW e \in Seq(S)
    PROVE  Cat(a, Cat(b, Cat(c, Cat(d, e)))) = Cat(Cat(Cat(a, b), Cat(c, d)), e)
<1>1. Cat(c, Cat(d, e)) = Cat(Cat(c, d), e) /\ Cat(c, d) \in Seq(S) /\ Cat(a, b) \in Seq(S)
  BY Joining
<1>2. Cat(a, Cat(b, Cat(Cat(c, d), e))) = Cat(Cat(a, b), Cat(Cat(c, d), e))
  BY <1>1, Joining
<1>3. Cat(Cat(Cat(a, b), Cat(c, d)), e) = Cat(Cat(a, b), Cat(Cat(c, d), e))
  BY <1>1, Joining
<1> QED
  BY <1>1, <1>2, <1>3

\* The laid-out text of a call under way is in lexemes.
LEMMA NamedType ==
    ASSUME NEW f, NEW p, Fit(f, p)
    PROVE  Mark(f, p) \in Seq(Tokens) /\ Named(f, p) \in Seq(Tokens)
<1>1. Mark(f, p) \in Seq(Tokens)
  <2>1. <<",">> \in Seq(Tokens) /\ <<>> \in Seq(Tokens)
    BY TokensAre, OneIs, EmptySeq
  <2> QED
    BY <2>1, Zenon DEF Mark
<1>2. CASE f.kind # BeginObject \/ p \notin {"colon", "value"}
  <2>1. Named(f, p) = <<>>
    BY <1>2, Zenon DEF Named
  <2> QED
    BY <1>1, <2>1, EmptySeq
<1>3. CASE f.kind = BeginObject /\ p \in {"colon", "value"}
  <2> DEFINE n == Len(f.names)
             m == f.names[n]
             c == ":"
  <2>1. n = Len(f.items) + 1 /\ f.names \in Seq(Names) /\ Len(f.items) \in Nat
    BY <1>3, LenProperties DEF Fit
  <2>2. m \in Names
    <3>1. n \in 1..n
      BY <2>1
    <3> QED
      BY <2>1, <3>1, ElementOfSeq
  <2>3. m \in Tokens /\ c \in Tokens
    BY <2>2, TokensAre
  <2>4. Named(f, p) = <<m>> \/ Named(f, p) = <<m, c>>
    BY <1>3, Zenon DEF Named
  <2> HIDE DEF m, c
  <2>5. <<m>> \in Seq(Tokens)
    BY <2>3, OneIs
  <2>6. <<m, c>> \in Seq(Tokens)
    BY <2>3, TwoAre
  <2> QED
    BY <1>1, <2>4, <2>5, <2>6
<1> QED
  BY <1>1, <1>2, <1>3

LEMMA FilledType ==
    ASSUME NEW f, NEW p, Fit(f, p), f.kind # "text"
    PROVE  /\ <<f.kind>> \in Seq(Tokens) /\ Separated(EntriesOf(f)) \in Seq(Tokens)
           /\ Filled(f) \in Seq(Tokens)
<1>1. f.kind \in Tokens
  BY TokensAre, Zenon DEF Fit
<1>2. <<f.kind>> \in Seq(Tokens)
  BY <1>1, OneIs
<1> QED
  BY <1>2, EntriesAre, ConcatProperties DEF Filled

LEMMA ShownType ==
    ASSUME NEW f, NEW p, Fit(f, p)
    PROVE  Shown(f, p) \in Seq(Tokens)
<1>1. CASE f.kind = "text"
  <2>1. CASE f.items = <<>>
    BY <1>1, <2>1, EmptySeq DEF Shown
  <2>2. CASE f.items # <<>>
    <3>1. 1 \in 1..Len(f.items) /\ f.items \in Seq(Value[Height])
      BY <2>2, EmptySeq DEF Fit
    <3>2. f.items[1] \in Value[Height] /\ Height \in 0..Height
      BY <3>1, ElementOfSeq, DepthAssumption
    <3>3. Lay(f.items[1]) \in Seq(Tokens)
      BY <3>2, LaidType DEF Lay
    <3> QED
      BY <1>1, <2>2, <3>3 DEF Shown
  <2> QED
    BY <2>1, <2>2
<1>2. CASE f.kind # "text"
  <2>1. Shown(f, p) = Filled(f) \o (Mark(f, p) \o Named(f, p))
    BY <1>2, Zenon DEF Shown
  <2> QED
    BY <1>2, <2>1, FilledType, NamedType, ConcatProperties
<1> QED
  BY <1>1, <1>2

\* A value is laid out.
LEMMA LayLeaf == \A v \in Leaves : v \in Value[Height] /\ Lay(v) = <<v.is>>
<1> SUFFICES ASSUME NEW v \in Leaves PROVE v \in Value[Height] /\ Lay(v) = <<v.is>>
  OBVIOUS
<1>1. Height \in 0..Height
  BY DepthAssumption
<1>2. Value[Height] = IF Height = 0 THEN Leaves ELSE Leaves \cup Containers(Value[Height - 1])
  BY <1>1, ValueIs
<1>3. v \in Value[Height] /\ ~IsContainer(v)
  BY <1>2, LeafIs
<1> QED
  BY <1>1, <1>3, LaidAre DEF Lay

LEMMA LayContainer ==
    ASSUME NEW v \in Value[Height], IsContainer(v)
    PROVE  Lay(v) = Filled(v) \o <<Ending(v.kind)>>
<1> DEFINE x == LaidItems(v, Height - 1)
           o == InOrder(v)
           entry(i) == IF v.kind = BeginObject THEN <<v.names[i], ":">> \o x[i] ELSE x[i]
           n == DOMAIN v.items
<1>1. Height \in 0..Height
  BY DepthAssumption
<1>2. /\ Lay(v) = Bracketed(v, x, o)
      /\ \A i \in n : x[i] = Laid[Height - 1][v.items[i]] /\ v.items[i] \in Value[Height - 1]
      /\ Height - 1 \in 0..Height
  BY <1>1, LaidParts DEF Lay
<1>3. \A i \in n : x[i] = Lay(v.items[i])
  BY <1>2, LaidSame
<1>4. DOMAIN o = n /\ \A i \in n : o[i] = i
  BY DEF InOrder
<1> HIDE DEF x, o
<1>5. \A i \in n : entry(o[i]) = EntryOf(v, i)
  BY <1>3, <1>4, Zenon DEF EntryOf
<1>6. [k \in DOMAIN o |-> entry(o[k])] = EntriesOf(v)
  BY <1>4, <1>5, Zenon DEF EntriesOf
<1>7. Bracketed(v, x, o) = <<v.kind>> \o Separated([k \in DOMAIN o |-> entry(o[k])]) \o <<Ending(v.kind)>>
  BY Zenon DEF Bracketed
<1> QED
  BY <1>2, <1>6, <1>7 DEF Filled

\* What a value is delivered to when names do not repeat.
LEMMA DeliveredIs ==
    ASSUME NEW f, NEW v, f.names \in Seq(Names), Distinct(f.names)
    PROVE  Delivered(f, v) = [f EXCEPT !.items = Append(@, v)]
<1> DEFINE n == Len(f.names)
           earlier == {i \in 1..(n - 1) : f.names[i] = f.names[n]}
<1>1. n \in Nat /\ DOMAIN f.names = 1..n
  BY LenProperties
<1>2. earlier = {}
  <2> SUFFICES ASSUME NEW i \in 1..(n - 1), f.names[i] = f.names[n] PROVE FALSE
    OBVIOUS
  <2> HIDE DEF n
  <2>1. i \in 1..n /\ n \in 1..n /\ i # n
    BY <1>1
  <2> QED
    BY <1>1, <2>1 DEF Distinct
<1> QED
  BY <1>2, Zenon DEF Delivered

\* A frame that waits for a value.
Waiting(f, p) ==
    /\ Fit(f, p) /\ Distinct(f.names)
    /\ p \in {"value", "first"}
    /\ p = "first" => f.kind = BeginArray /\ f.items = <<>>
    /\ f.kind = "text" => f.items = <<>>

\* The value is there.
LEMMA ArrivesFit ==
    ASSUME NEW f, NEW p, Waiting(f, p), NEW v \in Value[Height]
    PROVE  LET g == Delivered(f, v) IN
           /\ Fit(g, "after") /\ g.items = Append(f.items, v) /\ g.items # <<>>
           /\ g.kind = f.kind /\ g.names = f.names
<1> DEFINE g == Delivered(f, v)
           n == Len(f.items)
           m == Len(f.names)
<1>1. /\ f = [kind |-> f.kind, names |-> f.names, items |-> f.items]
      /\ f.kind \in {"text", BeginObject, BeginArray}
      /\ f.names \in Seq(Names) /\ f.items \in Seq(Value[Height])
      /\ f.kind # BeginObject => f.names = <<>>
  BY DEF Waiting, Fit
<1>2. g = [f EXCEPT !.items = Append(@, v)]
  BY <1>1, DeliveredIs DEF Waiting
<1>3. g = [kind |-> f.kind, names |-> f.names, items |-> Append(f.items, v)]
  BY <1>1, <1>2
<1> HIDE DEF g
<1>4. g.kind = f.kind /\ g.names = f.names /\ g.items = Append(f.items, v)
  BY <1>3
<1>5. g = [kind |-> g.kind, names |-> g.names, items |-> g.items]
  BY <1>3, <1>4
<1>6. g.items \in Seq(Value[Height]) /\ Len(g.items) = n + 1 /\ n \in Nat
  BY <1>1, <1>4, AppendProperties, LenProperties
<1>7. g.items # <<>>
  <2>1. Len(g.items) # 0
    BY <1>6
  <2> QED
    BY <2>1
<1>8. f.kind = BeginObject => m = n + 1
  <2>1. f.kind = BeginObject => p \in {"colon", "value"}
    <3>1. p = "first" => f.kind # BeginObject
      BY TokenKinds DEF Waiting
    <3> QED
      BY <3>1 DEF Waiting
  <2>2. f.kind = BeginObject => m = n + IF p \in {"colon", "value"} THEN 1 ELSE 0
    BY DEF Waiting, Fit
  <2> HIDE DEF m, n
  <2> QED
    BY <2>1, <2>2
<1>9. g.kind = BeginObject => Len(g.names) = Len(g.items) + 0
  <2> HIDE DEF m, n
  <2>1. g.kind = BeginObject => m = n + 1
    BY <1>4, <1>8
  <2>2. Len(g.items) + 0 = n + 1
    BY <1>6
  <2> QED
    BY <1>4, <2>1, <2>2 DEF m
<1>10. Fit(g, "after")
  <2> DEFINE q == "after"
  <2>1. q \notin {"colon", "value"}
    OBVIOUS
  <2> HIDE DEF q
  <2>2. Fit(g, q)
    BY <1>1, <1>4, <1>5, <1>6, <1>9, <2>1, Zenon DEF Fit
  <2> QED
    BY <2>2 DEF q
<1> QED
  BY <1>4, <1>7, <1>10 DEF g

\* It is laid out behind what the frame has.
LEMMA ArrivesShown ==
    ASSUME NEW f, NEW p, Waiting(f, p), NEW v \in Value[Height]
    PROVE  Shown(Delivered(f, v), "after") = Shown(f, p) \o Lay(v)
<1> DEFINE g == Delivered(f, v)
           n == Len(f.items)
           l == Lay(v)
<1>1. /\ Fit(g, "after") /\ g.items = Append(f.items, v) /\ g.items # <<>>
      /\ g.kind = f.kind /\ g.names = f.names
  BY ArrivesFit
<1>2. l \in Seq(Tokens)
  BY LaidType, DepthAssumption DEF Lay
<1>3. /\ n \in Nat /\ DOMAIN f.items = 1..n /\ DOMAIN g.items = 1..(n + 1)
      /\ Len(g.items) = n + 1
      /\ \A i \in 1..n : g.items[i] = f.items[i]
      /\ g.items[n + 1] = v
  <2>1. f.items \in Seq(Value[Height])
    BY DEF Waiting, Fit
  <2> QED
    BY <1>1, <2>1, AppendProperties, LenProperties
<1> HIDE DEF g, l
<1>4. CASE f.kind = "text"
  <2>1. f.items = <<>>
    BY <1>4 DEF Waiting
  <2>2. Shown(f, p) = <<>>
    BY <1>4, <2>1, Zenon DEF Shown
  <2>3. n + 1 = 1
    BY <2>1
  <2>4. g.items[1] = v
    BY <1>3, <2>3
  <2>5. Shown(g, "after") = l
    BY <1>1, <1>4, <2>4, Zenon DEF Shown, l
  <2> QED
    BY <1>2, <2>2, <2>5, ConcatEmptySeq DEF g, l
<1>5. CASE f.kind # "text"
  <2> DEFINE a == <<f.kind>>
             b == Separated(EntriesOf(f))
             c == Mark(f, p)
             d == Named(f, p)
             e == EntryOf(g, n + 1)
  <2>1. Fit(f, p)
    BY DEF Waiting
  <2>2. /\ a \in Seq(Tokens) /\ b \in Seq(Tokens) /\ c \in Seq(Tokens) /\ d \in Seq(Tokens)
        /\ Shown(f, p) = (a \o b) \o (c \o d)
    BY <1>5, <2>1, FilledType, NamedType DEF Shown, Filled
  <2>3. e = d \o l /\ e \in Seq(Tokens)
    <3>1. CASE f.kind = BeginObject
      <4>1. p = "value"
        BY <3>1, TokenKinds DEF Waiting
      <4>2. Len(f.names) = n + 1
        BY <2>1, <3>1, <4>1 DEF Fit
      <4> DEFINE m == f.names[n + 1]
                 x == <<m, ":">>
      <4>3. d = x
        BY <3>1, <4>1, <4>2, Zenon DEF Named
      <4>4. e = x \o l
        BY <1>1, <1>3, <3>1, Zenon DEF EntryOf, l
      <4> QED
        <5> HIDE DEF d, e, x
        <5>1. x \in Seq(Tokens)
          BY <2>2, <4>3
        <5>2. x \o l \in Seq(Tokens)
          BY <1>2, <5>1, ConcatProperties
        <5> QED
          BY <4>3, <4>4, <5>2
    <3>2. CASE f.kind # BeginObject
      <4>1. Named(f, p) = <<>>
        BY <3>2, Zenon DEF Named
      <4>2. e = l
        BY <1>1, <1>3, <3>2, Zenon DEF EntryOf, l
      <4> QED
        BY <1>2, <4>1, <4>2, ConcatEmptySeq
    <3> QED
      BY <3>1, <3>2
  <2>4. Separated(EntriesOf(g)) = b \o (c \o e)
    <3> DEFINE s == EntriesOf(f)
               t == EntriesOf(g)
               Q == Seq(Tokens)
    <3>1. s \in Seq(Q) /\ Len(s) = n /\ \A i \in 1..n : s[i] = EntryOf(f, i)
      BY <2>1, EntriesAre
    <3>2. t \in Seq(Q) /\ Len(t) = n + 1 /\ \A i \in 1..(n + 1) : t[i] = EntryOf(g, i)
      BY <1>1, <1>3, EntriesAre
    <3>3. \A i \in 1..n : EntryOf(g, i) = EntryOf(f, i)
      BY <1>1, <1>3, Zenon DEF EntryOf
    <3> HIDE DEF s, t, n, e
    <3>4. t = Append(s, e)
      <4> HIDE DEF Q
      <4> DEFINE z == Append(s, e)
      <4>1. e \in Q
        BY <2>3 DEF Q
      <4>2. z \in Seq(Q) /\ Len(z) = n + 1 /\ z[n + 1] = e /\ \A i \in 1..n : z[i] = s[i]
        BY <1>3, <3>1, <4>1, AppendProperties
      <4>3. ASSUME NEW i \in 1..(n + 1) PROVE t[i] = z[i]
        <5>1. i \in 1..n \/ i = n + 1
          BY <1>3
        <5>2. CASE i \in 1..n
          BY <3>1, <3>2, <3>3, <4>2, <5>2, Zenon
        <5>3. CASE i = n + 1
          BY <3>2, <4>2, <5>3, Zenon DEF e
        <5> QED
          BY <5>1, <5>2, <5>3
      <4> HIDE DEF z
      <4>4. t = z
        BY <3>2, <4>2, <4>3, SeqEqual
      <4> QED
        BY <4>4 DEF z
    <3>5. Separated(Append(s, e)) = Separated(s) \o (IF s = <<>> THEN e ELSE <<",">> \o e)
      BY <2>3, <3>1, SeparatedNext DEF Q
    <3>6. (IF s = <<>> THEN e ELSE <<",">> \o e) = c \o e
      <4>1. s = <<>> <=> f.items = <<>>
        <5>1. s = <<>> <=> n = 0
          BY <3>1, EmptySeq
        <5>2. f.items \in Seq(Value[Height])
          BY <2>1 DEF Fit
        <5>3. f.items = <<>> <=> n = 0
          BY <5>2, EmptySeq DEF n
        <5> QED
          BY <5>1, <5>3
      <4>2. p = "first" => f.items = <<>>
        BY DEF Waiting
      <4>3. p # "after"
        BY DEF Waiting
      <4>4. c = IF f.items = <<>> THEN <<>> ELSE <<",">>
        BY <4>2, <4>3, Zenon DEF Mark
      <4> HIDE DEF c
      <4>5. <<>> \o e = e
        BY <2>3, ConcatEmptySeq
      <4> QED
        BY <4>1, <4>4, <4>5
    <3> QED
      BY <3>4, <3>5, <3>6 DEF s, t
  <2>5. Shown(g, "after") = a \o (b \o (c \o e))
    <3> DEFINE q == "after"
    <3>1. Mark(g, q) = <<>> /\ Named(g, q) = <<>>
      BY Zenon DEF Mark, Named
    <3>2. Shown(g, q) = Filled(g) \o (Mark(g, q) \o Named(g, q))
      BY <1>1, <1>5, Zenon DEF Shown
    <3>3. Filled(g) \in Seq(Tokens) /\ <<>> \in Seq(Tokens)
      BY <1>1, <1>5, FilledType, EmptySeq
    <3>4. Filled(g) \o (<<>> \o <<>>) = Filled(g)
      BY <3>3, ConcatEmptySeq
    <3>5. Filled(g) = a \o (b \o (c \o e))
      BY <1>1, <2>4 DEF Filled
    <3> QED
      BY <3>1, <3>2, <3>4, <3>5
  <2>6. a \in Seq(Tokens) /\ b \in Seq(Tokens) /\ c \in Seq(Tokens) /\ d \in Seq(Tokens) /\ l \in Seq(Tokens)
    BY <1>2, <2>2
  <2> HIDE DEF a, b, c, d, e
  <2>7. Cat(a, Cat(b, Cat(c, Cat(d, l)))) = Cat(Cat(Cat(a, b), Cat(c, d)), l)
    BY <2>6, FiveJoined
  <2>8. /\ Shown(g, "after") = Cat(a, Cat(b, Cat(c, e))) /\ e = Cat(d, l)
        /\ Shown(f, p) = Cat(Cat(a, b), Cat(c, d))
    BY <2>2, <2>3, <2>5, Zenon DEF Cat
  <2>9. Shown(g, "after") = Cat(Shown(f, p), l)
    BY <2>7, <2>8, Zenon
  <2> QED
    BY <2>9, Zenon DEF g, l, Cat
<1> QED
  BY <1>4, <1>5 DEF g, l

\* The calls o under way, laid out as far as they are, when p is due.
Showns(o) == [k \in 1..(Len(o) - 1) |-> Shown(o[k], "value")]
Shows(o, p) == Cat(FlattenSeq(Showns(o)), Shown(o[Len(o)], p))

FitAll(o, p) ==
    /\ Sequence(o) /\ Len(o) >= 1
    /\ \A k \in 1..(Len(o) - 1) : Fit(o[k], "value")
    /\ Fit(o[Len(o)], p)

LEMMA ShownsAre ==
    ASSUME NEW o, NEW p, FitAll(o, p)
    PROVE  /\ Showns(o) \in Seq(Seq(Tokens)) /\ Len(Showns(o)) = Len(o) - 1
           /\ \A k \in 1..(Len(o) - 1) : Showns(o)[k] = Shown(o[k], "value")
           /\ FlattenSeq(Showns(o)) \in Seq(Tokens)
           /\ Shown(o[Len(o)], p) \in Seq(Tokens)
           /\ Shows(o, p) \in Seq(Tokens)
<1> DEFINE n == Len(o) - 1
           s == Showns(o)
           Q == Seq(Tokens)
<1>1. n \in Nat
  BY SequenceLen DEF FitAll
<1>2. \A k \in 1..n : Shown(o[k], "value") \in Q
  BY ShownType DEF FitAll
<1> HIDE DEF Q
<1>3. s \in Seq(Q) /\ Len(s) = n /\ \A k \in 1..n : s[k] = Shown(o[k], "value")
  <2>1. s = [k \in 1..n |-> Shown(o[k], "value")]
    BY DEF Showns
  <2> HIDE DEF n, s
  <2>2. s \in [1..n -> Q]
    BY <1>2, <2>1
  <2> QED
    BY <1>1, <2>1, <2>2
<1> HIDE DEF s, n
<1>4. FlattenSeq(s) \in Seq(Tokens)
  <2>1. Len(s) \in 0..Len(s)
    BY <1>1, <1>3
  <2>2. Joined(s, Len(s)) \in Seq(Tokens) /\ Joined(s, Len(s)) = FlattenSeq(s)
    BY <1>3, <2>1, JoinedType, JoinedAll DEF Q
  <2> QED
    BY <2>2
<1>5. Shown(o[Len(o)], p) \in Seq(Tokens)
  BY ShownType DEF FitAll
<1>6. Shows(o, p) \in Seq(Tokens)
  BY <1>4, <1>5, Joining DEF Shows, s
<1> QED
  BY <1>3, <1>4, <1>5, <1>6 DEF s, n, Q

\* Those below the last call do not change.
LEMMA ShownsSame ==
    ASSUME NEW o, NEW t, Len(o) \in Nat, Len(t) = Len(o), \A k \in 1..(Len(o) - 1) : t[k] = o[k]
    PROVE  Showns(t) = Showns(o)
<1>1. \A k \in 1..(Len(o) - 1) : Shown(t[k], "value") = Shown(o[k], "value")
  BY Zenon
<1> QED
  BY <1>1, Zenon DEF Showns

\* The last call goes on.
LEMMA TopShows ==
    ASSUME NEW o, NEW p, FitAll(o, p), NEW g, NEW q, NEW x \in Seq(Tokens),
           Shown(g, q) = Cat(Shown(o[Len(o)], p), x),
           NEW t, Sequence(t), Len(t) = Len(o), \A k \in 1..(Len(o) - 1) : t[k] = o[k], t[Len(t)] = g
    PROVE  Shows(t, q) = Cat(Shows(o, p), x)
<1> DEFINE a == FlattenSeq(Showns(o))
           b == Shown(o[Len(o)], p)
<1>1. a \in Seq(Tokens) /\ b \in Seq(Tokens)
  BY ShownsAre
<1>2. Len(o) \in Nat
  BY SequenceLen DEF FitAll
<1>3. Showns(t) = Showns(o)
  BY <1>2, ShownsSame
<1>4. Shows(t, q) = Cat(a, Cat(b, x)) /\ Shows(o, p) = Cat(a, b)
  BY <1>3, Zenon DEF Shows
<1> HIDE DEF a, b
<1>5. Cat(a, Cat(b, x)) = Cat(Cat(a, b), x)
  BY <1>1, Joining
<1> QED
  BY <1>4, <1>5

\* A call is made.
LEMMA PushShows ==
    ASSUME NEW o, FitAll(o, "value"),
           NEW t, Sequence(t), Len(t) = Len(o) + 1, \A k \in 1..Len(o) : t[k] = o[k]
    PROVE  FlattenSeq(Showns(t)) = Shows(o, "value")
<1> DEFINE n == Len(o)
           s == Showns(o)
           r == Showns(t)
           x == Shown(o[n], "value")
           Q == Seq(Tokens)
<1>1. n \in Nat /\ n >= 1 /\ n - 1 \in Nat
  BY SequenceLen DEF FitAll
<1>2. /\ s \in Seq(Q) /\ Len(s) = n - 1 /\ x \in Q
      /\ \A k \in 1..(n - 1) : s[k] = Shown(o[k], "value")
  BY ShownsAre
<1>3. r = [k \in 1..n |-> Shown(t[k], "value")]
  <2>1. Len(t) - 1 = n
    BY <1>1
  <2> QED
    BY <2>1 DEF Showns
<1>4. \A k \in 1..n : t[k] = o[k]
  OBVIOUS
<1> HIDE DEF s, r
<1>5. r = Append(s, x)
  <2> DEFINE z == Append(s, x)
  <2> HIDE DEF Q, x, n
  <2>1. z \in Seq(Q) /\ Len(z) = n /\ z[n] = x /\ \A k \in 1..(n - 1) : z[k] = s[k]
    <3>1. Len(s) + 1 = n
      BY <1>1, <1>2
    <3> QED
      BY <1>1, <1>2, <3>1, AppendProperties
  <2>2. ASSUME NEW k \in 1..n PROVE r[k] = z[k]
    <3>1. r[k] = Shown(o[k], "value")
      BY <1>3, <1>4, Zenon
    <3>2. k \in 1..(n - 1) \/ k = n
      BY <1>1
    <3>3. CASE k \in 1..(n - 1)
      BY <1>2, <2>1, <3>1, <3>3, Zenon
    <3>4. CASE k = n
      BY <2>1, <3>1, <3>4, Zenon DEF x
    <3> QED
      BY <3>2, <3>3, <3>4
  <2> HIDE DEF z
  <2>3. r = [k \in 1..n |-> z[k]]
    BY <1>3, <2>2, Zenon
  <2>4. z = [k \in 1..n |-> z[k]]
    BY <1>1, <2>1
  <2> QED
    BY <2>3, <2>4 DEF z
<1>6. FlattenSeq(Append(s, x)) = FlattenSeq(s) \o x
  BY <1>2, FlattenAppend
<1> QED
  BY <1>5, <1>6 DEF s, r, Shows, Cat

-----------------------------------------------------------------------------
(* What has been read of the text. *)

\* A lexeme as it would be written, white space not at all.
Bit(l) == IF l = " " THEN <<>> ELSE <<Plain(l)>>
Bits(t) == [i \in DOMAIN t |-> Bit(t[i])]

LEMMA PlainType == \A l \in Tokens : Plain(l) \in Tokens
<1> SUFFICES ASSUME NEW l \in Tokens PROVE Plain(l) \in Tokens
  OBVIOUS
<1> DEFINE r == Read["raw"][l]
<1>1. CASE l \in Punctuation \/ r.kind \notin Kinds
  BY <1>1, Zenon DEF Plain
<1>2. CASE l \notin Punctuation /\ r.kind \in Kinds
  <2>1. l \in Lexemes
    BY <1>2 DEF Tokens
  <2>2. "raw" \in Paths
    BY PathAssumption
  <2>3. Leaf(r) \in Leaves
    BY <1>2, <2>1, <2>2, LeafRead
  <2>4. Leaf(r).is \in Lexemes /\ Leaf(r).is = r.is
    BY <2>3, LeafIs DEF Leaf
  <2>5. Plain(l) = r.is
    BY <1>2, Zenon DEF Plain
  <2> QED
    BY <2>4, <2>5, TokensAre
<1> QED
  BY <1>1, <1>2

LEMMA BitsAre ==
    ASSUME NEW t \in Seq(Tokens)
    PROVE  /\ Bits(t) \in Seq(Seq(Tokens)) /\ Len(Bits(t)) = Len(t)
           /\ \A i \in 1..Len(t) : Bits(t)[i] = Bit(t[i])
           /\ Plainly(t) = FlattenSeq(Bits(t))
<1> DEFINE n == Len(t)
           s == Bits(t)
           Q == Seq(Tokens)
<1>1. n \in Nat /\ DOMAIN t = 1..n
  BY LenProperties
<1>2. \A i \in 1..n : Bit(t[i]) \in Q
  <2> SUFFICES ASSUME NEW i \in 1..n PROVE Bit(t[i]) \in Q
    OBVIOUS
  <2> DEFINE m == Plain(t[i])
  <2>1. m \in Tokens
    BY PlainType, ElementOfSeq
  <2>2. Bit(t[i]) = <<>> \/ Bit(t[i]) = <<m>>
    BY Zenon DEF Bit
  <2> HIDE DEF m
  <2>3. <<m>> \in Q /\ <<>> \in Q
    BY <2>1, OneIs, EmptySeq
  <2> HIDE DEF Q
  <2> QED
    BY <2>2, <2>3
<1>3. s = [i \in 1..n |-> Bit(t[i])]
  BY <1>1 DEF Bits
<1>4. Plainly(t) = FlattenSeq(s)
  BY Zenon DEF Plainly, Bits, Bit
<1> HIDE DEF s, n, Q
<1>5. s \in [1..n -> Q]
  BY <1>2, <1>3
<1>6. s \in Seq(Q) /\ Len(s) = n /\ \A i \in 1..n : s[i] = Bit(t[i])
  BY <1>1, <1>3, <1>5
<1> QED
  BY <1>4, <1>6 DEF s, n, Q

\* So much of t.
Taken(t, j) == Plainly(SubSeq(t, 1, j))

LEMMA TakenIs ==
    ASSUME NEW t \in Seq(Tokens), NEW j \in 0..Len(t)
    PROVE  Taken(t, j) = Joined(Bits(t), j)
<1> DEFINE s == SubSeq(t, 1, j)
           a == Bits(s)
           b == Bits(t)
           Q == Seq(Tokens)
<1>1. s \in Seq(Tokens) /\ Len(s) = j /\ \A i \in 1..j : s[i] = t[i]
  BY SubSeqProperties
<1> HIDE DEF s
<1>2. a \in Seq(Q) /\ Len(a) = j /\ (\A i \in 1..j : a[i] = Bit(s[i])) /\ Plainly(s) = FlattenSeq(a)
  BY <1>1, BitsAre
<1>3. b \in Seq(Q) /\ Len(b) = Len(t) /\ (\A i \in 1..Len(t) : b[i] = Bit(t[i]))
  BY BitsAre
<1>4. j \in Nat /\ j <= Len(t) /\ j \in 0..j /\ \A i \in 1..j : i \in 1..Len(t)
  BY LenProperties
<1>5. \A i \in 1..j : a[i] = b[i]
  BY <1>1, <1>2, <1>3, <1>4, Zenon
<1> HIDE DEF a, b
<1>6. Joined(a, j) = Joined(b, j)
  <2>1. j \in 0..Len(a) /\ j <= Len(b)
    BY <1>2, <1>3, <1>4
  <2> QED
    BY <1>2, <1>3, <1>5, <2>1, JoinedSame
<1>7. Joined(a, j) = FlattenSeq(a)
  BY <1>2, JoinedAll
<1> QED
  BY <1>2, <1>6, <1>7 DEF Taken, s, b

LEMMA TakenNext ==
    ASSUME NEW t \in Seq(Tokens), NEW j \in 1..Len(t)
    PROVE  Taken(t, j) = Cat(Taken(t, j - 1), Bit(t[j]))
<1> DEFINE s == Bits(t)
           k == j - 1
<1>1. s \in Seq(Seq(Tokens)) /\ Len(s) = Len(t) /\ s[j] = Bit(t[j])
  BY BitsAre
<1>2. k + 1 = j /\ k \in 0..Len(t) /\ j \in 0..Len(t) /\ k \in 0..(Len(t) - 1)
  BY LenProperties
<1> HIDE DEF s, k
<1>3. Joined(s, k + 1) = Joined(s, k) \o s[k + 1]
  BY <1>1, <1>2, JoinedNext
<1>4. Taken(t, k) = Joined(s, k) /\ Taken(t, j) = Joined(s, j)
  BY <1>2, TakenIs DEF s
<1> QED
  BY <1>1, <1>2, <1>3, <1>4 DEF Cat, k

LEMMA TakenNone ==
    ASSUME NEW t \in Seq(Tokens)
    PROVE  Taken(t, 0) = <<>>
<1>1. 0 \in 0..Len(t)
  BY LenProperties
<1>2. Joined(Bits(t), 0) = <<>>
  BY BitsAre, JoinedZero
<1> QED
  BY <1>1, <1>2, TakenIs

LEMMA TakenAll ==
    ASSUME NEW t \in Seq(Tokens)
    PROVE  Taken(t, Len(t)) = Plainly(t)
<1>1. Len(t) \in 0..Len(t)
  BY LenProperties
<1>2. Joined(Bits(t), Len(t)) = FlattenSeq(Bits(t)) /\ Plainly(t) = FlattenSeq(Bits(t))
  BY BitsAre, JoinedAll
<1> QED
  BY <1>1, <1>2, TakenIs

\* What Parser has read is what the calls under way have, laid out.
XInv ==
    (path \in {"raw", "again"} /\ pc # "failed") =>
        /\ Shows(open, pc) = Taken(text, pos - 1)
        /\ pc = "first" => Top.items = <<>>
        /\ pc = "after" => Top.items # <<>>
        /\ pc = "parsed" => pos = Len(text) + 1

\* Parser at work.
AtText == IInv /\ TInv /\ ~Ended /\ path \in {"raw", "again"} /\ XInv

\* The frames have what they must.
LEMMA OpenFits ==
    ASSUME IInv, TInv, ~Ended
    PROVE  FitAll(open, pc) /\ Sequence(open) /\ Len(open) \in Nat /\ Len(open) >= 1
<1>1. /\ Len(open) \in Nat /\ Len(open) >= 1 /\ Sequence(open)
      /\ \A k \in 1..Len(open) : Room + 1 - k \in 0..Height
  BY RoomIs
<1>2. pc # "failed" /\ StackOK(open, pc)
  BY DEF IInv, Ended
<1>3. ASSUME NEW k \in 1..Len(open)
      PROVE  /\ open[k] = [kind |-> open[k].kind, names |-> open[k].names, items |-> open[k].items]
             /\ open[k].kind \in {"text", BeginObject, BeginArray}
             /\ open[k].names \in Seq(Names) /\ open[k].items \in Seq(Value[Height])
             /\ open[k].kind # BeginObject => open[k].names = <<>>
             /\ Len(open[k].items) \in Nat
  <2>1. FrameOK(open[k])
    BY <1>2 DEF StackOK
  <2>2. k = 1 \/ k \in 2..Len(open)
    BY <1>1
  <2>3. open[k].kind \in {"text", BeginObject, BeginArray}
    BY <1>2, <2>2 DEF StackOK
  <2>4. FrameTyped(open[k], Room + 1 - k)
    BY DEF TInv, Typed
  <2> DEFINE n == Room + 1 - k
             s == open[k].items
  <2>5. n \in 0..Height /\ s \in Seq(Value[n])
    BY <1>1, <2>4 DEF FrameTyped
  <2> HIDE DEF n, s
  <2>6. Value[n] \subseteq Value[Height]
    <3>1. Height \in 0..Height /\ n <= Height
      BY <2>5, DepthAssumption
    <3> QED
      BY <2>5, <3>1, ValueGrows
  <2>7. s \in Seq(Value[Height]) /\ Len(s) \in Nat
    BY <2>5, <2>6
  <2> QED
    BY <2>1, <2>3, <2>4, <2>7 DEF s, FrameOK, FrameTyped
<1>4. ASSUME NEW k \in 1..(Len(open) - 1) PROVE Fit(open[k], "value")
  <2> DEFINE f == open[k]
             q == "value"
  <2>1. k \in 1..Len(open)
    BY <1>1
  <2>2. f.kind = BeginObject => Len(f.names) = Len(f.items) + 1
    BY <1>2 DEF StackOK, Ahead
  <2>3. q \in {"colon", "value"}
    OBVIOUS
  <2>4. /\ f = [kind |-> f.kind, names |-> f.names, items |-> f.items]
        /\ f.kind \in {"text", BeginObject, BeginArray}
        /\ f.names \in Seq(Names) /\ f.items \in Seq(Value[Height])
        /\ f.kind # BeginObject => f.names = <<>>
    BY <1>3, <2>1
  <2> HIDE DEF f, q
  <2>5. Fit(f, q)
    BY <2>2, <2>3, <2>4, Zenon DEF Fit
  <2> QED
    BY <2>5 DEF f, q
<1>5. Fit(open[Len(open)], pc)
  <2> DEFINE k == Len(open)
             f == open[k]
             e == IF pc \in {"colon", "value"} THEN 1 ELSE 0
  <2>1. k \in 1..Len(open)
    BY <1>1
  <2>2. f.kind = BeginObject => Len(f.names) = Len(f.items) + e
    <3>1. CASE pc \in {"colon", "value"}
      BY <1>2, <3>1 DEF StackOK, Ahead
    <3>2. CASE pc \notin {"colon", "value"}
      <4>1. e = 0 /\ (f.kind = BeginObject => Len(f.names) = Len(f.items))
        BY <1>2, <3>2 DEF StackOK, Even
      <4>2. Len(f.items) \in Nat
        BY <1>3, <2>1
      <4> HIDE DEF f, e
      <4> QED
        BY <4>1, <4>2
    <3> QED
      BY <3>1, <3>2
  <2>4. /\ f = [kind |-> f.kind, names |-> f.names, items |-> f.items]
        /\ f.kind \in {"text", BeginObject, BeginArray}
        /\ f.names \in Seq(Names) /\ f.items \in Seq(Value[Height])
        /\ f.kind # BeginObject => f.names = <<>>
    BY <1>3, <2>1
  <2> HIDE DEF f
  <2>5. Fit(f, pc)
    BY <2>2, <2>4, Zenon DEF Fit
  <2> QED
    BY <2>5 DEF f
<1> QED
  BY <1>1, <1>4, <1>5 DEF FitAll

\* The call at work.
LEMMA TopFits ==
    ASSUME AtText
    PROVE  /\ FitAll(open, pc) /\ Sequence(open) /\ Len(open) \in Nat /\ Len(open) >= 1
           /\ Top = open[Len(open)] /\ Fit(Top, pc) /\ Distinct(Top.names)
           /\ Len(open) = 1 => Top.kind = "text"
           /\ Len(open) # 1 => Top.kind \in {BeginObject, BeginArray}
           /\ Shows(open, pc) = Taken(text, pos - 1)
           /\ pc = "first" => Top.items = <<>>
           /\ pc = "after" => Top.items # <<>>
           /\ text \in Seq(Tokens) /\ pos \in 1..(Len(text) + 1) /\ Len(text) \in Nat /\ path \in Paths
<1>1. FitAll(open, pc) /\ Sequence(open) /\ Len(open) \in Nat /\ Len(open) >= 1
  BY OpenFits DEF AtText
<1>2. StackOK(open, pc) /\ Unique(open) /\ pc # "failed"
  BY DEF AtText, IInv, Ended
<1>3. Len(open) \in 1..Len(open) /\ (Len(open) # 1 => Len(open) \in 2..Len(open))
  <2> DEFINE n == Len(open)
  <2>1. n \in Nat /\ n >= 1
    BY <1>1
  <2> HIDE DEF n
  <2>2. n \in 1..n /\ (n # 1 => n \in 2..n)
    BY <2>1
  <2> QED
    BY <2>2 DEF n
<1>4. Top = open[Len(open)]
  BY DEF Top
<1>5. /\ Len(open) = 1 => Top.kind = "text"
      /\ Len(open) # 1 => Top.kind \in {BeginObject, BeginArray}
  BY <1>2, <1>3, <1>4 DEF StackOK
<1>6. Distinct(Top.names)
  BY <1>2, <1>3, <1>4 DEF Unique
<1>7. Fit(Top, pc)
  BY <1>1, <1>4 DEF FitAll
<1> QED
  BY <1>1, <1>2, <1>4, <1>5, <1>6, <1>7 DEF AtText, XInv, IInv, TInv

\* A lexeme is read.
LEMMA TakeNext ==
    ASSUME AtText, Lexeme # "end", NEW due, Bump(due), Shows(open', due) = Cat(Shows(open, pc), Bit(Lexeme)),
           due # "parsed", due = "first" => Top'.items = <<>>, due = "after" => Top'.items # <<>>
    PROVE  XInv'
<1>1. /\ text \in Seq(Tokens) /\ pos \in 1..(Len(text) + 1) /\ Len(text) \in Nat
      /\ Shows(open, pc) = Taken(text, pos - 1)
  BY TopFits
<1>2. pos \in 1..Len(text) /\ pos' = pos + 1 /\ pc' = due /\ path' = path /\ text' = text
  BY <1>1, InText DEF Moves
<1>3. Lexeme = text[pos]
  <2>1. pos <= Len(text)
    BY <1>2
  <2> QED
    BY <2>1, Zenon DEF Lexeme
<1>4. Taken(text, pos) = Cat(Taken(text, pos - 1), Bit(text[pos]))
  BY <1>1, <1>2, TakenNext
<1>5. pos' - 1 = pos
  BY <1>2
<1>6. Shows(open', pc') = Taken(text', pos' - 1)
  BY <1>1, <1>2, <1>3, <1>4, <1>5, Zenon
<1>7. pc' # "parsed" /\ (pc' = "first" => Top'.items = <<>>) /\ (pc' = "after" => Top'.items # <<>>)
  BY <1>2
<1> QED
  BY <1>6, <1>7, Zenon DEF XInv

\* Due of the invariant of types is the parser's.
LEMMA DueIs ==
    ASSUME AtText, ValueDue
    PROVE  /\ Waiting(Top, pc)
           /\ FitAll(open, "value") /\ Shows(open, "value") = Shows(open, pc)
<1>1. /\ FitAll(open, pc) /\ Len(open) \in Nat /\ Len(open) >= 1
      /\ Top = open[Len(open)] /\ Fit(Top, pc) /\ Distinct(Top.names)
      /\ Len(open) # 1 => Top.kind \in {BeginObject, BeginArray}
      /\ pc = "first" => Top.items = <<>>
  BY TopFits
<1>2. pc = "value" \/ (pc = "first" /\ Top.kind = BeginArray)
  BY DEF ValueDue
<1>3. Top.kind = "text" => Top.items = <<>>
  <2> SUFFICES ASSUME Top.kind = "text" PROVE Top.items = <<>>
    OBVIOUS
  <2>1. Len(open) = 1
    BY <1>1, TokenKinds DEF BeginArray, BeginObject
  <2>2. pc # "failed" /\ pc \notin {"after", "parsed"}
    BY <1>2
  <2>3. Bottom(open, pc)
    BY DEF AtText, TInv
  <2>4. Len(open[1].items) = 0
    BY <2>1, <2>2, <2>3, Zenon DEF Bottom
  <2>5. Top.items \in Seq(Value[Height])
    BY <1>1 DEF Fit
  <2> QED
    BY <1>1, <2>1, <2>4, <2>5, EmptySeq
<1>4. Waiting(Top, pc)
  BY <1>1, <1>2, <1>3 DEF Waiting
<1>5. CASE pc = "value"
  BY <1>1, <1>4, <1>5
<1>6. CASE pc = "first" /\ Top.kind = BeginArray
  <2>1. Top.items = <<>> /\ Top.kind # BeginObject
    BY <1>1, <1>6, TokenKinds
  <2>2. Fit(Top, "value")
    BY <1>1, <2>1, Zenon DEF Fit
  <2>3. FitAll(open, "value")
    BY <1>1, <2>2 DEF FitAll
  <2>4. Shown(Top, "value") = Shown(Top, pc)
    <3>1. Mark(Top, "value") = <<>> /\ Mark(Top, pc) = <<>>
      BY <2>1, Zenon DEF Mark
    <3>2. Named(Top, "value") = <<>> /\ Named(Top, pc) = <<>>
      BY <2>1, Zenon DEF Named
    <3> QED
      BY <3>1, <3>2, Zenon DEF Shown
  <2>5. Shows(open, "value") = Shows(open, pc)
    BY <1>1, <2>4, Zenon DEF Shows
  <2> QED
    BY <1>4, <2>3, <2>5
<1> QED
  BY <1>2, <1>5, <1>6

\* The frame at work is replaced.
LEMMA Replacing ==
    ASSUME AtText, NEW g, NEW q, NEW x \in Seq(Tokens), Shown(g, q) = Cat(Shown(Top, pc), x),
           open' = WithTop(g)
    PROVE  Shows(open', q) = Cat(Shows(open, pc), x) /\ Top' = g
<1>1. FitAll(open, pc) /\ Sequence(open) /\ Len(open) >= 1 /\ Top = open[Len(open)] /\ Len(open) \in Nat
  BY TopFits
<1> DEFINE t == Append(SubSeq(open, 1, Len(open) - 1), g)
<1>2. open' = t
  BY Zenon DEF WithTop, Below
<1>3. /\ Sequence(t) /\ Len(t) = Len(open)
      /\ \A k \in 1..(Len(open) - 1) : t[k] = open[k]
      /\ t[Len(open)] = g
  BY <1>1, Replaced
<1> HIDE DEF t
<1>4. Shows(t, q) = Cat(Shows(open, pc), x)
  BY <1>1, <1>3, TopShows
<1>5. Top' = t[Len(t)]
  BY <1>2 DEF Top
<1> QED
  BY <1>2, <1>3, <1>4, <1>5

LEMMA CatNone == \A x \in Seq(Tokens) : Cat(x, <<>>) = x /\ Cat(<<>>, x) = x
  BY ConcatEmptySeq DEF Cat

\* White space is read.
LEMMA SpaceRead == AtText /\ SkipWs => XInv'
<1> SUFFICES ASSUME AtText, SkipWs PROVE XInv'
  OBVIOUS
<1>1. Lexeme = " " /\ Bump(pc) /\ open' = open
  BY Zenon DEF SkipWs
<1>2. Lexeme # "end"
  BY SkipWsMoves
<1>3. Bit(Lexeme) = <<>>
  BY <1>1, Zenon DEF Bit
<1>4. Shows(open, pc) \in Seq(Tokens)
  BY TopFits, ShownsAre
<1>5. Shows(open', pc) = Cat(Shows(open, pc), Bit(Lexeme))
  BY <1>1, <1>3, <1>4, CatNone
<1>6. Top' = Top
  BY <1>1 DEF Top
<1>7. /\ pc = "first" => Top'.items = <<>>
      /\ pc = "after" => Top'.items # <<>>
      /\ pc # "parsed"
  BY <1>6, TopFits DEF AtText, Ended
<1> QED
  BY <1>1, <1>2, <1>5, <1>7, TakeNext

\* A string, a number or a literal is written as what it reads as.
LEMMA LexemeBit ==
    ASSUME AtText, Kind \in Kinds
    PROVE  /\ Lexeme # "end" /\ Leaf(Read[path][Lexeme]) \in Leaves
           /\ Kind = "string" => Read[path][Lexeme].is \in Names
           /\ Bit(Lexeme) = <<Read[path][Lexeme].is>> /\ Bit(Lexeme) \in Seq(Tokens)
<1> DEFINE r == Read[path][Lexeme]
<1>1. /\ text \in Seq(Tokens) /\ pos \in 1..(Len(text) + 1) /\ path \in Paths
      /\ path \in {"raw", "again"}
  BY TopFits DEF AtText
<1>2. /\ Lexeme \in Lexemes /\ Leaf(r) \in Leaves /\ Kind = r.kind
      /\ Kind = "string" => r.is \in Names
  BY <1>1, LexemeIs
<1>3. Read[path] = Read["raw"]
  <2>1. path \in Parsers
    BY <1>1 DEF Parsers
  <2> QED
    BY <2>1, ReadAssumption
<1>4. Lexeme \notin Punctuation /\ Lexeme # " " /\ Lexeme # "end"
  <2>1. Lexeme \notin Punctuation
    BY <1>2, ReadAssumption
  <2>2. " " \in Punctuation /\ "end" \in Punctuation
    BY DEF Punctuation
  <2> QED
    BY <2>1, <2>2
<1>5. Plain(Lexeme) = r.is
  <2>1. r.kind \in Kinds
    BY <1>2
  <2>2. r = Read["raw"][Lexeme]
    BY <1>3
  <2> HIDE DEF r
  <2> QED
    BY <1>4, <2>1, <2>2, Zenon DEF Plain
<1>6. Bit(Lexeme) = <<r.is>>
  BY <1>4, <1>5, Zenon DEF Bit
<1>7. <<r.is>> \in Seq(Tokens)
  <2>1. Plain(Lexeme) \in Tokens
    BY <1>2, PlainType, TokensAre
  <2> DEFINE c == r.is
  <2>2. c \in Tokens
    BY <1>5, <2>1
  <2> HIDE DEF c
  <2>3. <<c>> \in Seq(Tokens)
    BY <2>2, OneIs
  <2> QED
    BY <2>3 DEF c
<1> QED
  BY <1>2, <1>4, <1>6, <1>7

\* A string, a number or a literal is read.
LEMMA ScalarRead == AtText /\ Scalar => XInv'
<1> SUFFICES ASSUME AtText, Scalar PROVE XInv'
  OBVIOUS
<1> DEFINE v == Leaf(Read[path][Lexeme])
           g == Delivered(Top, v)
<1>1. ValueDue /\ Kind \in Kinds /\ open' = WithTop(g) /\ Bump("after")
  BY Zenon DEF Scalar
<1>2. /\ Lexeme # "end" /\ v \in Leaves /\ Bit(Lexeme) = <<v.is>>
      /\ Bit(Lexeme) \in Seq(Tokens)
  BY <1>1, LexemeBit DEF Leaf
<1> HIDE DEF v
<1>3. Bit(Lexeme) = Lay(v) /\ v \in Value[Height]
  BY <1>2, LayLeaf
<1>4. Waiting(Top, pc)
  BY <1>1, DueIs
<1>5. g.items # <<>> /\ Shown(g, "after") = Cat(Shown(Top, pc), Bit(Lexeme))
  BY <1>3, <1>4, ArrivesFit, ArrivesShown DEF Cat
<1> HIDE DEF g
<1>6. Shows(open', "after") = Cat(Shows(open, pc), Bit(Lexeme)) /\ Top' = g
  BY <1>1, <1>2, <1>5, Replacing
<1> QED
  BY <1>1, <1>2, <1>5, <1>6, TakeNext

\* Punctuation is written as it is.
LEMMA MarkBit ==
    ASSUME NEW l \in Punctuation, l # " ", l # "end"
    PROVE  Bit(l) = <<l>> /\ <<l>> \in Seq(Tokens)
<1>1. Plain(l) = l
  BY Zenon DEF Plain
<1>2. l \in Tokens
  BY DEF Tokens
<1>3. <<l>> \in Seq(Tokens)
  BY <1>2, OneIs
<1> QED
  BY <1>1, <1>3, Zenon DEF Bit

LEMMA MarksIn ==
    /\ {BeginObject, BeginArray, "}", "]", ",", ":"} \subseteq Punctuation
    /\ \A l \in {BeginObject, BeginArray, "}", "]", ",", ":"} : l # " " /\ l # "end"
  BY DEF Punctuation, BeginObject, BeginArray

\* A call is made.
LEMMA OpenRead == AtText /\ OpenContainer => XInv'
<1> SUFFICES ASSUME AtText, OpenContainer PROVE XInv'
  OBVIOUS
<1> DEFINE l == Lexeme
           f == Frame(l)
           q == "first"
           t == Append(open, f)
<1>1. /\ ValueDue /\ l \in {BeginObject, BeginArray} /\ open' = t /\ Bump(q)
  BY Zenon DEF OpenContainer
<1>2. l \in Punctuation /\ l # " " /\ l # "end"
  BY <1>1, MarksIn
<1>3. /\ FitAll(open, "value") /\ Shows(open, "value") = Shows(open, pc)
      /\ Sequence(open) /\ Len(open) \in Nat /\ Len(open) >= 1
  BY <1>1, DueIs, TopFits
<1>4. Bit(l) = <<l>> /\ <<l>> \in Seq(Tokens)
  BY <1>2, MarkBit
<1>5. f.kind = l /\ f.items = <<>> /\ f.names = <<>> /\ l # "text"
  <2>1. l # "text"
    BY <1>1, TokenKinds DEF BeginArray
  <2> QED
    BY <2>1 DEF Frame
<1>6. Shown(f, q) = <<l>>
  <2> HIDE DEF f
  <2>1. EntriesOf(f) = <<>>
    BY <1>5 DEF EntriesOf
  <2>2. Filled(f) = <<l>> \o <<>>
    BY <1>5, <2>1, NoneSeparated, Zenon DEF Filled
  <2>3. Mark(f, q) = <<>> /\ Named(f, q) = <<>>
    BY <1>5, Zenon DEF Mark, Named
  <2>4. Shown(f, q) = Cat(Cat(<<l>>, <<>>), Cat(<<>>, <<>>))
    BY <1>5, <2>2, <2>3, Zenon DEF Shown, Cat
  <2>5. <<>> \in Seq(Tokens)
    BY EmptySeq
  <2> QED
    BY <1>4, <2>4, <2>5, CatNone
<1> HIDE DEF f, q
<1>7. /\ Sequence(t) /\ Len(t) = Len(open) + 1 /\ \A k \in 1..Len(open) : t[k] = open[k]
      /\ t[Len(t)] = f
  BY <1>3, Appended
<1> HIDE DEF t
<1>8. FlattenSeq(Showns(t)) = Shows(open, "value")
  BY <1>3, <1>7, PushShows
<1>9. Shows(t, q) = Cat(Shows(open, pc), Bit(l))
  BY <1>3, <1>4, <1>6, <1>7, <1>8, Zenon DEF Shows
<1>10. Top'.items = <<>>
  BY <1>1, <1>5, <1>7 DEF Top
<1>11. q # "parsed" /\ q # "after"
  BY DEF q
<1> HIDE DEF l
<1> QED
  BY <1>1, <1>2, <1>9, <1>10, <1>11, TakeNext DEF l

\* A comma is read.
LEMMA CommaRead == AtText /\ Comma => XInv'
<1> SUFFICES ASSUME AtText, Comma PROVE XInv'
  OBVIOUS
<1> DEFINE f == Top
           q == IF f.kind = BeginObject THEN "name" ELSE "value"
           c == <<",">>
<1>1. pc = "after" /\ Lexeme = "," /\ open' = open /\ Bump(q) /\ Depth > 0
  BY Zenon DEF Comma
<1>2. /\ FitAll(open, pc) /\ Len(open) \in Nat /\ Len(open) >= 1
      /\ f = open[Len(open)] /\ Fit(f, pc) /\ f.items # <<>>
      /\ Sequence(open)
  BY <1>1, TopFits
<1>3. f.kind # "text"
  <2>1. Len(open) # 1
    <3> DEFINE n == Len(open)
    <3>1. n \in Nat /\ n - 1 > 0
      BY <1>1, <1>2 DEF Depth
    <3> HIDE DEF n
    <3>2. n # 1
      BY <3>1
    <3> QED
      BY <3>2 DEF n
  <2>2. f.kind \in {BeginObject, BeginArray}
    BY <2>1, TopFits
  <2> QED
    BY <2>2, TokenKinds DEF BeginArray
<1>4. Bit(Lexeme) = c /\ c \in Seq(Tokens) /\ Lexeme # "end"
  BY <1>1, MarksIn, MarkBit
<1>5. Mark(f, pc) = <<>> /\ Named(f, pc) = <<>>
  BY <1>1, Zenon DEF Mark, Named
<1>6. Mark(f, q) = c /\ Named(f, q) = <<>> /\ q # "parsed" /\ q # "first" /\ q # "after"
  <2>1. q \in {"name", "value"} /\ (f.kind = BeginObject => q = "name")
    OBVIOUS
  <2> HIDE DEF q
  <2>2. q # "parsed" /\ q # "first" /\ q # "after" /\ (f.kind = BeginObject => q \notin {"colon", "value"})
    BY <2>1
  <2> QED
    BY <1>2, <2>2, Zenon DEF Mark, Named
<1> HIDE DEF q, c
<1>7. Shown(f, q) = Cat(Shown(f, pc), c)
  <2> DEFINE x == Filled(f)
  <2>1. x \in Seq(Tokens) /\ <<>> \in Seq(Tokens)
    BY <1>2, <1>3, FilledType, EmptySeq
  <2>2. Shown(f, q) = Cat(x, Cat(c, <<>>)) /\ Shown(f, pc) = Cat(x, Cat(<<>>, <<>>))
    BY <1>3, <1>5, <1>6, Zenon DEF Shown, Cat
  <2> HIDE DEF x
  <2> QED
    BY <1>4, <2>1, <2>2, CatNone
<1>8. Shows(open, q) = Cat(Shows(open, pc), c)
  BY <1>2, <1>4, <1>7, TopShows
<1> QED
  BY <1>1, <1>4, <1>6, <1>8, TakeNext

\* A colon is read.
LEMMA ColonRead == AtText /\ Colon /\ ~Fail => XInv'
<1> SUFFICES ASSUME AtText, Colon, ~Fail PROVE XInv'
  OBVIOUS
<1> DEFINE f == Top
           q == "value"
           c == <<":">>
           name == f.names[Len(f.names)]
<1>1. pc = "colon" /\ Lexeme = ":" /\ open' = open /\ Bump(q)
  BY Zenon DEF Colon
<1>2. /\ FitAll(open, pc) /\ Len(open) \in Nat /\ Len(open) >= 1
      /\ f = open[Len(open)] /\ Fit(f, pc) /\ Sequence(open)
  BY TopFits
<1>3. f.kind = BeginObject
  <2>1. StackOK(open, pc)
    BY DEF AtText, IInv
  <2> QED
    BY <1>1, <1>2, <2>1 DEF StackOK
<1>4. f.kind # "text"
  BY <1>3, TokenKinds
<1>5. Bit(Lexeme) = c /\ c \in Seq(Tokens) /\ Lexeme # "end"
  BY <1>1, MarksIn, MarkBit
<1>6. Named(f, pc) = <<name>> /\ Named(f, q) = <<name, ":">>
  BY <1>1, <1>3, Zenon DEF Named
<1>7. Mark(f, pc) = Mark(f, q) /\ q # "parsed" /\ q # "first" /\ q # "after"
  BY <1>1, Zenon DEF Mark
<1>8. name \in Tokens /\ ":" \in Tokens
  <2>1. /\ Len(f.names) = Len(f.items) + 1 /\ Len(f.items) \in Nat /\ f.names \in Seq(Names)
    BY <1>1, <1>2, <1>3, LenProperties DEF Fit
  <2>2. Len(f.names) \in 1..Len(f.names)
    BY <2>1
  <2>3. name \in Names
    BY <2>1, <2>2, ElementOfSeq
  <2> QED
    BY <2>3, TokensAre
<1> HIDE DEF q
<1>9. Shown(f, q) = Cat(Shown(f, pc), c)
  <2> DEFINE x == Filled(f)
             m == Mark(f, pc)
             n == <<name>>
  <2>1. x \in Seq(Tokens) /\ m \in Seq(Tokens) /\ n \in Seq(Tokens)
    BY <1>2, <1>4, <1>8, FilledType, NamedType, OneIs
  <2>2. <<name, ":">> = Cat(n, c)
    BY <1>8, TwoAre DEF Cat
  <2>3. Shown(f, q) = Cat(x, Cat(m, Cat(n, c))) /\ Shown(f, pc) = Cat(x, Cat(m, n))
    BY <1>4, <1>6, <1>7, <2>2, Zenon DEF Shown, Cat
  <2> HIDE DEF x, m, n, c
  <2>4. Cat(m, Cat(n, c)) = Cat(Cat(m, n), c) /\ Cat(m, n) \in Seq(Tokens)
    BY <1>5, <2>1, Joining
  <2>5. Cat(x, Cat(Cat(m, n), c)) = Cat(Cat(x, Cat(m, n)), c)
    BY <1>5, <2>1, <2>4, Joining
  <2> QED
    BY <2>3, <2>4, <2>5
<1> HIDE DEF c
<1>10. Shows(open, q) = Cat(Shows(open, pc), c)
  BY <1>2, <1>5, <1>9, TopShows
<1> QED
  BY <1>1, <1>5, <1>7, <1>10, TakeNext

\* A name is read.
LEMMA NameRead == AtText /\ Name => XInv'
<1> SUFFICES ASSUME AtText, Name PROVE XInv'
  OBVIOUS
<1> DEFINE name == Read[path][Lexeme].is
           f == Top
           g == [f EXCEPT !.names = Append(@, name)]
           q == "colon"
           c == <<name>>
<1>1. NameDue /\ Kind = "string" /\ open' = WithTop(g) /\ Bump(q)
  BY Zenon DEF Name
<1>2. Lexeme # "end" /\ name \in Names /\ Bit(Lexeme) = c /\ c \in Seq(Tokens)
  <2>1. Kind \in Kinds
    BY <1>1 DEF Kinds
  <2> QED
    BY <1>1, <2>1, LexemeBit
<1> HIDE DEF name
<1>3. Fit(f, pc) /\ (pc = "first" => f.items = <<>>)
  BY TopFits
<1>4. f.kind = BeginObject /\ pc \in {"name", "first"}
  <2>1. CASE pc = "name"
    <3>1. StackOK(open, pc)
      BY DEF AtText, IInv
    <3> QED
      BY <2>1, <3>1, TopFits DEF StackOK
  <2>2. CASE pc = "first" /\ Top.kind = BeginObject
    BY <2>2
  <2> QED
    BY <1>1, <2>1, <2>2 DEF NameDue
<1>5. /\ f = [kind |-> f.kind, names |-> f.names, items |-> f.items]
      /\ f.names \in Seq(Names) /\ f.items \in Seq(Value[Height])
      /\ Len(f.names) = Len(f.items)
  <2>1. pc \notin {"colon", "value"}
    BY <1>4
  <2>2. Len(f.names) = Len(f.items) + 0
    BY <1>3, <1>4, <2>1, Zenon DEF Fit
  <2>3. f.items \in Seq(Value[Height])
    BY <1>3 DEF Fit
  <2>4. Len(f.items) \in Nat
    BY <2>3, LenProperties
  <2> QED
    BY <1>3, <2>2, <2>3, <2>4 DEF Fit
<1> HIDE DEF f
<1>6. g = [kind |-> f.kind, names |-> Append(f.names, name), items |-> f.items]
  <2> DEFINE x == Append(f.names, name)
  <2>1. f = [kind |-> f.kind, names |-> f.names, items |-> f.items]
    BY <1>5
  <2> HIDE DEF x
  <2>2. [f EXCEPT !.names = x] = [kind |-> f.kind, names |-> x, items |-> f.items]
    BY <2>1
  <2> QED
    BY <2>2, Zenon DEF x
<1> HIDE DEF g
<1>7. g.kind = f.kind /\ g.items = f.items /\ g.names = Append(f.names, name)
  BY <1>6
<1> DEFINE n == Len(f.items)
<1>8. /\ n \in Nat /\ DOMAIN f.items = 1..n /\ Len(g.names) = n + 1
      /\ g.names[n + 1] = name /\ \A i \in 1..n : g.names[i] = f.names[i]
  BY <1>2, <1>5, <1>7, AppendProperties, LenProperties
<1> HIDE DEF n
<1>9. EntriesOf(g) = EntriesOf(f)
  <2>1. \A i \in DOMAIN f.items : EntryOf(g, i) = EntryOf(f, i)
    BY <1>7, <1>8, Zenon DEF EntryOf
  <2> QED
    BY <1>7, <2>1, Zenon DEF EntriesOf
<1>10. Filled(g) = Filled(f)
  BY <1>7, <1>9, Zenon DEF Filled
<1>11. Mark(g, q) = Mark(f, pc) /\ Named(g, q) = c /\ Named(f, pc) = <<>>
  <2>1. q # "first" /\ q # "after" /\ pc # "after" /\ pc # "colon" /\ pc # "value"
    BY <1>4
  <2>2. Mark(g, q) = Mark(f, pc)
    BY <1>3, <1>7, <2>1, Zenon DEF Mark, f
  <2>3. Named(f, pc) = <<>>
    BY <2>1, Zenon DEF Named
  <2>4. Named(g, q) = <<g.names[Len(g.names)]>>
    BY <1>4, <1>7, Zenon DEF Named, f
  <2> QED
    BY <1>8, <2>2, <2>3, <2>4
<1> HIDE DEF q, c
<1>12. Shown(g, q) = Cat(Shown(f, pc), c)
  <2> DEFINE x == Filled(f)
             m == Mark(f, pc)
  <2>1. f.kind # "text"
    BY <1>4, TokenKinds DEF f
  <2>2. x \in Seq(Tokens) /\ m \in Seq(Tokens)
    BY <1>3, <2>1, FilledType, NamedType DEF f
  <2>3. Shown(g, q) = Cat(x, Cat(m, c)) /\ Shown(f, pc) = Cat(x, Cat(m, <<>>))
    BY <1>7, <1>10, <1>11, <2>1, Zenon DEF Shown, Cat
  <2> HIDE DEF x, m
  <2>4. Cat(m, <<>>) = m /\ Cat(x, Cat(m, c)) = Cat(Cat(x, m), c)
    BY <1>2, <2>2, Joining, CatNone
  <2> QED
    BY <2>3, <2>4
<1>13. Shows(open', q) = Cat(Shows(open, pc), c)
  BY <1>1, <1>2, <1>12, Replacing DEF f
<1>14. q # "parsed" /\ q # "first" /\ q # "after"
  BY DEF q
<1> QED
  BY <1>1, <1>2, <1>13, <1>14, TakeNext

\* A call returns.
LEMMA CloseRead == AtText /\ CloseContainer => XInv'
<1> SUFFICES ASSUME AtText, CloseContainer PROVE XInv'
  OBVIOUS
<1> DEFINE n == Len(open)
           f == Top
           b == SubSeq(open, 1, n - 1)
           h == open[n - 1]
           g == Delivered(h, f)
           c == <<Lexeme>>
           q == "after"
<1>1. /\ pc \in {"first", "after"} /\ Depth > 0 /\ Bump(q) /\ Lexeme = Ending(f.kind)
      /\ open' = Append(SubSeq(open, 1, n - 2), g)
  BY CloseMoves
<1>2. /\ FitAll(open, pc) /\ Sequence(open) /\ n \in Nat /\ f = open[n] /\ Fit(f, pc)
      /\ Distinct(f.names)
  BY TopFits
<1>3. n >= 2 /\ n # 1 /\ n - 1 \in Nat /\ n - 1 >= 1 /\ n - 1 \in 0..n /\ n - 1 \in 1..(n - 1) /\ n - 2 \in 0..n
  <2>1. n - 1 > 0
    BY <1>1 DEF Depth
  <2> HIDE DEF n
  <2> QED
    BY <1>2, <2>1
<1>4. /\ f.kind \in {BeginObject, BeginArray} /\ f.kind # "text" /\ IsContainer(f)
      /\ Ending(f.kind) \in {"}", "]"}
  <2>1. f.kind \in {BeginObject, BeginArray}
    BY <1>3, TopFits
  <2>2. \A kind \in {BeginObject, BeginArray} : kind # "text" /\ Ending(kind) \in {"}", "]"}
    BY TokenKinds DEF BeginArray, BeginObject, Ending
  <2> HIDE DEF f
  <2> QED
    BY <2>1, <2>2, Zenon DEF IsContainer
<1>5. /\ Sequence(b) /\ Len(b) = n - 1 /\ \A k \in 1..(n - 1) : b[k] = open[k]
      /\ \A k \in 1..(n - 1) : Fit(open[k], "value")
  <2> HIDE DEF n
  <2>1. SubSeq(open, 1, n - 1) = b
    OBVIOUS
  <2>2. \A k \in 1..(n - 1) : Fit(open[k], "value")
    BY <1>2 DEF FitAll, n
  <2> HIDE DEF b
  <2> QED
    BY <1>2, <1>3, <2>1, <2>2, Prefix DEF n
<1>6. f \in Value[Height]
  <2> DEFINE m == Room + 1 - (n - 1)
  <2>1. m \in 0..Height /\ f \in Value[m]
    BY <1>1, <1>3, ClosedTyped DEF AtText
  <2> HIDE DEF m, f, n
  <2>2. m <= Height /\ Height \in 0..Height
    BY <2>1, DepthAssumption
  <2> QED
    BY <2>1, <2>2, ValueGrows
<1>7. Shown(f, pc) = Filled(f) /\ Filled(f) \in Seq(Tokens)
  <2>1. Mark(f, pc) = <<>> /\ Named(f, pc) = <<>>
    BY <1>1, Zenon DEF Mark, Named
  <2> HIDE DEF f
  <2>2. Filled(f) \in Seq(Tokens)
    BY <1>2, <1>4, FilledType
  <2>3. Shown(f, pc) = Cat(Filled(f), Cat(<<>>, <<>>))
    BY <1>4, <2>1, Zenon DEF Shown, Cat
  <2>4. <<>> \in Seq(Tokens)
    BY EmptySeq
  <2> QED
    BY <2>2, <2>3, <2>4, CatNone
<1>8. /\ Lexeme \in {"}", "]"} /\ Lexeme # "end" /\ Bit(Lexeme) = c /\ c \in Seq(Tokens)
  BY <1>1, <1>4, MarksIn, MarkBit
<1>19. c \in Seq(Tokens)
  BY <1>8
<1>9. Lay(f) = Cat(Shown(f, pc), c)
  BY <1>1, <1>4, <1>6, <1>7, LayContainer, Zenon DEF Cat
<1>10. Waiting(h, "value")
  <2> DEFINE k == n - 1
             r == "value"
  <2>1. k \in 1..Len(open) /\ Len(open) # 1 /\ (k # 1 => k \in 2..Len(open))
    <3> HIDE DEF n
    <3>1. k \in 1..n /\ n # 1 /\ (k # 1 => k \in 2..n)
      BY <1>2, <1>3
    <3> QED
      BY <3>1 DEF n
  <2>2. h = open[k] /\ Fit(h, r)
    BY <1>3, <1>5
  <2>3. StackOK(open, pc) /\ Unique(open) /\ Bottom(open, pc) /\ pc # "failed"
    BY DEF AtText, IInv, TInv, Ended
  <2> HIDE DEF k, h
  <2>4. Distinct(h.names)
    BY <2>1, <2>2, <2>3 DEF Unique
  <2>5. h.kind = "text" => h.items = <<>>
    <3>1. k # 1 => h.kind # "text"
      BY <2>1, <2>2, <2>3, TokenKinds DEF StackOK, BeginArray
    <3>2. k = 1 => Len(h.items) = 0
      BY <2>1, <2>2, <2>3, Zenon DEF Bottom
    <3>3. h.items \in Seq(Value[Height])
      BY <2>2 DEF Fit
    <3> QED
      BY <3>1, <3>2, <3>3, EmptySeq
  <2>6. r \in {"value", "first"} /\ r # "first"
    OBVIOUS
  <2> HIDE DEF r
  <2>7. Waiting(h, r)
    BY <2>2, <2>4, <2>5, <2>6 DEF Waiting
  <2> QED
    BY <2>7 DEF r
<1> HIDE DEF f, h
<1>11. g.items # <<>> /\ Shown(g, "after") = Cat(Shown(h, "value"), Lay(f))
  BY <1>6, <1>10, ArrivesFit, ArrivesShown DEF Cat
<1> HIDE DEF g, c
<1> DEFINE t == Append(SubSeq(open, 1, n - 2), g)
<1>12. /\ Sequence(t) /\ Len(t) = n - 1 /\ t[n - 1] = g
       /\ \A k \in 1..(n - 2) : t[k] = b[k]
  <2> DEFINE s == SubSeq(open, 1, n - 2)
  <2> HIDE DEF n
  <2>1. n - 2 \in 0..Len(open)
    BY <1>3 DEF n
  <2>2. Sequence(s) /\ Len(s) = n - 2 /\ \A k \in 1..(n - 2) : s[k] = open[k]
    BY <1>2, <2>1, Prefix
  <2> HIDE DEF s
  <2> DEFINE z == Append(s, g)
  <2>3. Sequence(z) /\ Len(z) = n - 1 /\ z[n - 1] = g /\ \A k \in 1..(n - 2) : z[k] = s[k]
    <3>1. /\ Sequence(z) /\ Len(z) = Len(s) + 1 /\ \A k \in 1..Len(s) : z[k] = s[k]
          /\ z[Len(z)] = g
      BY <2>2, Appended
    <3> HIDE DEF z
    <3> QED
      BY <1>2, <1>3, <2>2, <3>1
  <2> HIDE DEF b
  <2>4. \A k \in 1..(n - 2) : k \in 1..(n - 1)
    BY <1>2, <1>3
  <2> QED
    BY <1>5, <2>2, <2>3, <2>4 DEF s
<1> HIDE DEF b, t
<1>13. FitAll(b, "value")
  <2> DEFINE r == "value"
  <2>1. \A k \in 1..(n - 1) : Fit(b[k], r)
    BY <1>5
  <2>2. Sequence(b) /\ Len(b) = n - 1 /\ n - 1 >= 1 /\ n - 1 \in 1..(n - 1)
        /\ \A k \in 1..((n - 1) - 1) : k \in 1..(n - 1)
    BY <1>3, <1>5
  <2> HIDE DEF r, n
  <2>3. Fit(b[Len(b)], r) /\ \A k \in 1..(Len(b) - 1) : Fit(b[k], r)
    BY <2>1, <2>2, Zenon
  <2>4. Sequence(b) /\ Len(b) >= 1
    BY <2>2
  <2>5. FitAll(b, r)
    BY <2>3, <2>4, Zenon DEF FitAll, r
  <2> QED
    BY <2>5 DEF r
<1>14. /\ FlattenSeq(Showns(open)) = Shows(b, "value")
       /\ Shows(open, pc) = Cat(Shows(b, "value"), Shown(f, pc))
  <2>1. Len(open) = Len(b) + 1 /\ \A k \in 1..Len(b) : open[k] = b[k]
    BY <1>3, <1>5
  <2>2. FlattenSeq(Showns(open)) = Shows(b, "value")
    BY <1>2, <1>13, <2>1, PushShows
  <2> QED
    BY <1>2, <2>2, Zenon DEF Shows
<1>15. Shows(t, "after") = Cat(Shows(b, "value"), Lay(f))
  <2> DEFINE r == "value"
             p == "after"
  <2>1. b[Len(b)] = h
    BY <1>3, <1>5 DEF h
  <2>2. /\ Len(t) = Len(b) /\ t[Len(t)] = g
        /\ \A k \in 1..(Len(b) - 1) : t[k] = b[k]
    <3>1. Len(b) - 1 = n - 2
      BY <1>3, <1>5
    <3> QED
      BY <1>5, <1>12, <3>1
  <2>3. Lay(f) \in Seq(Tokens)
    <3> DEFINE y == Shown(f, pc)
    <3>1. y \in Seq(Tokens)
      BY <1>7
    <3>2. Lay(f) = Cat(y, c)
      BY <1>9
    <3> HIDE DEF y
    <3> QED
      BY <1>19, <3>1, <3>2, Joining
  <2>4. FitAll(b, r) /\ Shown(g, p) = Cat(Shown(b[Len(b)], r), Lay(f))
    BY <1>11, <1>13, <2>1
  <2> HIDE DEF r, p
  <2>5. Shows(t, p) = Cat(Shows(b, r), Lay(f))
    BY <1>12, <2>2, <2>3, <2>4, TopShows
  <2> QED
    BY <2>5 DEF r, p
<1>16. Shows(t, "after") = Cat(Shows(open, pc), c)
  <2> DEFINE x == Shows(b, "value")
             y == Shown(f, pc)
  <2>1. x \in Seq(Tokens) /\ y \in Seq(Tokens)
    BY <1>7, <1>13, ShownsAre
  <2>2. Shows(t, "after") = Cat(x, Cat(y, c)) /\ Shows(open, pc) = Cat(x, y)
    BY <1>9, <1>14, <1>15
  <2> HIDE DEF x, y
  <2> QED
    BY <1>19, <2>1, <2>2, Joining
<1>17. open' = t /\ Top' = g
  <2>1. open' = t
    BY <1>1 DEF t, g, h, f
  <2> QED
    BY <1>12, <2>1 DEF Top
<1>18. q # "parsed" /\ q # "first"
  BY DEF q
<1> HIDE DEF q
<1> QED
  BY <1>1, <1>8, <1>11, <1>16, <1>17, <1>18, TakeNext DEF q

\* Below the first call there is none.
LEMMA NoShowns == \A o : Len(o) = 1 => Showns(o) = <<>>
<1> SUFFICES ASSUME NEW o, Len(o) = 1 PROVE Showns(o) = <<>>
  OBVIOUS
<1> DEFINE s == Showns(o)
           n == Len(o) - 1
<1>1. n = 0 /\ s = [k \in 1..n |-> Shown(o[k], "value")]
  BY DEF Showns
<1> HIDE DEF n, s
<1>2. s \in [1..n -> {Shown(o[k], "value") : k \in 1..n}]
  BY <1>1, Zenon
<1> DEFINE S == {Shown(o[k], "value") : k \in 1..n}
<1> HIDE DEF S
<1>3. s \in Seq(S) /\ Len(s) = 0
  <2>1. s \in [1..n -> S]
    BY <1>2 DEF S
  <2> QED
    BY <1>1, <2>1
<1>4. s = <<>>
  BY <1>3, EmptySeq
<1> QED
  BY <1>4 DEF s

\* A call that fails ends the reading.
LEMMA FailRead == Fail => XInv'
<1> SUFFICES ASSUME Fail PROVE XInv'
  OBVIOUS
<1>1. ~(pc' # "failed")
  BY DEF Fail
<1> QED
  BY <1>1, Zenon DEF XInv

\* The text is at its end.
LEMMA EndRead == AtText /\ EndOfText => XInv'
<1> SUFFICES ASSUME AtText, EndOfText PROVE XInv'
  OBVIOUS
<1>1. CASE Fail
  BY <1>1, FailRead
<1>2. CASE ~Fail
  <2> DEFINE q == "parsed"
  <2>1. /\ pc = "after" /\ Lexeme = "end" /\ pc' = q /\ Depth = 0
        /\ path' = path /\ text' = text /\ pos' = pos /\ open' = open
    BY <1>2, Zenon DEF EndOfText
  <2>2. /\ text \in Seq(Tokens) /\ pos \in 1..(Len(text) + 1) /\ Len(text) \in Nat
        /\ Shows(open, pc) = Taken(text, pos - 1)
        /\ Len(open) \in Nat /\ Top = open[Len(open)]
        /\ Len(open) = 1 => Top.kind = "text"
    BY TopFits
  <2>3. pos = Len(text) + 1
    <3>1. ASSUME pos <= Len(text) PROVE FALSE
      <4>1. Lexeme = text[pos]
        BY <3>1, Zenon DEF Lexeme
      <4>2. pos \in 1..Len(text)
        BY <2>2, <3>1
      <4>3. text[pos] \in Tokens
        BY <2>2, <4>2, ElementOfSeq
      <4> QED
        BY <2>1, <4>1, <4>3, TokensAre
    <3> QED
      BY <2>2, <3>1
  <2>4. Len(open) = 1
    <3> DEFINE n == Len(open)
    <3>1. n \in Nat /\ n - 1 = 0
      BY <2>1, <2>2 DEF Depth
    <3> HIDE DEF n
    <3>2. n = 1
      BY <3>1
    <3> QED
      BY <3>2 DEF n
  <2>5. Shown(Top, q) = Shown(Top, pc)
    BY <2>2, <2>4, Zenon DEF Shown
  <2> HIDE DEF q
  <2>6. Shows(open, q) = Shows(open, pc)
    BY <2>2, <2>5, Zenon DEF Shows
  <2>7. Shows(open', pc') = Taken(text', pos' - 1)
    BY <2>1, <2>2, <2>6, Zenon
  <2>8. pc' # "first" /\ pc' # "after"
    BY <2>1 DEF q
  <2>9. pos' = Len(text') + 1
    BY <2>1, <2>3
  <2> QED
    BY <2>7, <2>8, <2>9, Zenon DEF XInv
<1> QED
  BY <1>1, <1>2

\* Each action of the parser keeps what it has read.
LEMMA XStep == AtText /\ Next => XInv'
<1>1. NoValue \/ NoName \/ NoComma => Fail
  BY Stops
<1>2. AtText /\ Colon /\ Fail => XInv'
  BY FailRead
<1> QED
  BY <1>1, <1>2, FailRead, SpaceRead, ScalarRead, OpenRead, NameRead, ColonRead, CommaRead,
     CloseRead, EndRead DEF Next

\* Nothing is read.
LEMMA FreshRead ==
    ASSUME NEW t \in Seq(Tokens)
    PROVE  Shows(<<Frame("text")>>, "value") = Taken(t, 0)
<1> DEFINE f == Frame("text")
           o == <<f>>
           q == "value"
<1>1. Len(o) = 1 /\ o[1] = f
  OBVIOUS
<1>2. f.kind = "text" /\ f.items = <<>>
  BY DEF Frame
<1> HIDE DEF f, o, q
<1>3. Shown(f, q) = <<>>
  BY <1>2, Zenon DEF Shown
<1>4. Showns(o) = <<>>
  BY <1>1, NoShowns
<1>5. Shows(o, q) = Cat(<<>>, <<>>)
  BY <1>1, <1>3, <1>4, FlattenNone, Zenon DEF Shows
<1>6. Shows(o, q) = <<>>
  BY <1>5, EmptySeq, CatNone
<1> QED
  BY <1>6, TakenNone DEF f, o, q

LEMMA XInit == CanonicalInit => XInv
<1> SUFFICES ASSUME CanonicalInit, path \in {"raw", "again"} PROVE XInv
  BY Zenon DEF XInv
<1>1. Init /\ CInv
  BY CInit DEF CanonicalInit, BuiltInit
<1>2. text \in Seq(Tokens)
  BY <1>1 DEF CInv, TInv
<1> DEFINE q == "value"
<1>3. pos = 1 /\ open = <<Frame("text")>> /\ pc = q
  BY <1>1 DEF Init
<1>4. q # "first" /\ q # "after" /\ q # "parsed" /\ pos - 1 = 0
  BY <1>3
<1>5. Shows(open, q) = Taken(text, pos - 1)
  BY <1>2, <1>3, <1>4, FreshRead
<1> HIDE DEF q
<1> QED
  BY <1>3, <1>4, <1>5, Zenon DEF XInv

LEMMA XNext == CInv /\ XInv /\ [CanonicalNext]_allVars => XInv'
<1> SUFFICES ASSUME CInv, XInv, [CanonicalNext]_allVars PROVE XInv'
  OBVIOUS
<1>1. IInv /\ TInv
  BY DEF CInv
<1>2. CASE UNCHANGED vars
  <2>1. path' = path /\ text' = text /\ pos' = pos /\ pc' = pc /\ open' = open
    BY <1>2 DEF vars
  <2>2. Top' = Top
    BY <2>1 DEF Top
  <2> QED
    BY <2>1, <2>2, Zenon DEF XInv
<1>3. CASE Parse
  <2>1. Next /\ path' = path /\ ~Ended
    BY <1>3, NextStays, NextGoesOn DEF Parse
  <2>2. CASE path \in {"raw", "again"}
    BY <1>1, <2>1, <2>2, XStep DEF AtText
  <2>3. CASE path \notin {"raw", "again"}
    BY <2>1, <2>3, Zenon DEF XInv
  <2> QED
    BY <2>2, <2>3
<1>4. CASE OtherEntry
  <2>1. path' \notin {"raw", "again"}
    BY <1>4 DEF OtherEntry, Restart
  <2> QED
    BY <2>1, Zenon DEF XInv
<1>5. CASE Again
  <2> DEFINE form == IF path = "built" THEN Form ELSE forms["raw"]
  <2>1. IF form = Bad THEN UNCHANGED vars ELSE Restart("again", form)
    BY <1>5 DEF Again
  <2> HIDE DEF form
  <2>2. CASE form # Bad
    <3>1. CInv'
      BY CNext
    <3>2. text' \in Seq(Tokens)
      BY <3>1 DEF CInv, TInv
    <3> DEFINE q == "value"
    <3>3. pos' = 1 /\ open' = <<Frame("text")>> /\ pc' = q
      BY <2>1, <2>2 DEF Restart
    <3>4. q # "first" /\ q # "after" /\ q # "parsed" /\ pos' - 1 = 0
      BY <3>3
    <3>5. Shows(open', q) = Taken(text', pos' - 1)
      BY <3>2, <3>3, <3>4, FreshRead
    <3> HIDE DEF q
    <3> QED
      BY <3>3, <3>4, <3>5, Zenon DEF XInv
  <2> QED
    BY <1>2, <2>1, <2>2
<1>6. UNCHANGED allVars => UNCHANGED vars
  BY DEF allVars, vars
<1> QED
  BY <1>2, <1>3, <1>4, <1>5, <1>6 DEF CanonicalNext

\* The value is the text.
LEMMA XSays ==
    ASSUME CInv, XInv, pc = "parsed", path \in {"raw", "again"}
    PROVE  Laid[Height][Result] = Plainly(text)
<1> DEFINE v == Result
           q == "parsed"
           f == open[1]
<1>1. /\ text \in Seq(Tokens) /\ Len(open) = 1 /\ StackOK(open, pc) /\ Bottom(open, pc)
      /\ Len(text) \in Nat
  BY DEF CInv, TInv, IInv
<1>2. v \in Value[Height]
  BY ResultIs
<1>3. f.kind = "text" /\ Len(f.items) = 1 /\ v = f.items[1]
  BY <1>1 DEF StackOK, Bottom, Result
<1>4. pos = Len(text) + 1 /\ Shows(open, q) = Taken(text, pos - 1)
  <2>1. pc # "failed"
    OBVIOUS
  <2> QED
    BY <2>1, Zenon DEF XInv
<1> HIDE DEF v, f, q
<1>5. Shown(f, q) = Lay(v)
  <2>1. f.items # <<>>
    BY <1>3
  <2> QED
    BY <1>3, <2>1, Zenon DEF Shown
<1>6. Showns(open) = <<>>
  BY <1>1, NoShowns
<1>7. Shows(open, q) = Cat(<<>>, Lay(v))
  BY <1>1, <1>5, <1>6, FlattenNone, Zenon DEF Shows, f
<1>8. Shows(open, q) = Lay(v)
  <2> DEFINE l == Lay(v)
  <2>1. l \in Seq(Tokens)
    BY <1>2, LaidType, DepthAssumption DEF Lay
  <2> HIDE DEF l
  <2> QED
    BY <1>7, <2>1, CatNone DEF l
<1>9. Taken(text, pos - 1) = Plainly(text)
  <2>1. pos - 1 = Len(text)
    BY <1>1, <1>4
  <2> QED
    BY <1>1, <2>1, TakenAll
<1>10. Lay(v) = Plainly(text)
  BY <1>4, <1>8, <1>9
<1> QED
  BY <1>10 DEF Lay, v

-----------------------------------------------------------------------------
(* What is proved. *)

LEMMA InputHolds == CanonicalSpec => []IInv
<1>1. CInv => IInv
  BY DEF CInv
<1> QED
  BY <1>1, CHolds, PTL

\* The position stays in the input, the calls at work are parse and then containers,
\* and every object has a name for each value, and one more while a value is due.
THEOREM ParserTypes == CanonicalSpec => []TypeOK
<1>1. IInv => TypeOK
  <2> SUFFICES ASSUME IInv PROVE TypeOK
    OBVIOUS
  <2>1. StackOK(open, pc) /\ pos \in 1..(Len(text) + 1) /\ pc \in Dues
        /\ Len(open) \in Nat /\ Len(open) >= 1
    BY SequenceLen DEF IInv, StackOK
  <2>2. ASSUME NEW k \in 1..Len(open) PROVE Framed(k)
    <3>1. k = Len(open) \/ k \in 1..(Len(open) - 1)
      BY <2>1
    <3>2. FrameOK(open[k])
      BY <2>1 DEF StackOK
    <3>3. Len(open[k].names) \in Nat /\ Len(open[k].items) \in Nat
      BY <3>2, SequenceLen DEF FrameOK
    <3>4. open[k].kind # BeginObject => open[k].names = <<>>
      BY <3>2 DEF FrameOK
    <3>5. CASE open[k].kind # BeginObject
      BY <3>4, <3>5 DEF Framed
    <3>6. CASE open[k].kind = BeginObject /\ k = Len(open)
      <4>1. pc \in {"colon", "value"} => Len(open[k].names) = Len(open[k].items) + 1
        BY <2>1, <3>6 DEF StackOK, Ahead
      <4>2. pc \notin {"colon", "value", "failed"} => Len(open[k].names) = Len(open[k].items)
        BY <2>1, <3>6 DEF StackOK, Even
      <4>3. ~(k < Len(open))
        BY <2>1, <3>6
      <4>4. CASE pc = "failed"
        BY <3>6, <4>4, Zenon DEF Framed
      <4>5. CASE pc \in {"colon", "value"}
        BY <3>6, <4>1, <4>5, Zenon DEF Framed
      <4>6. CASE pc \notin {"colon", "value", "failed"}
        <5>1. Len(open[k].names) = Len(open[k].items) + 0
          BY <3>3, <4>2, <4>6
        <5>2. pc \notin {"colon", "value"}
          BY <4>6
        <5> QED
          BY <3>6, <4>3, <5>1, <5>2, Zenon DEF Framed
      <4> QED
        BY <4>4, <4>5, <4>6
    <3>7. CASE open[k].kind = BeginObject /\ k \in 1..(Len(open) - 1)
      <4>1. pc # "failed" => Len(open[k].names) = Len(open[k].items) + 1
        BY <2>1, <3>7 DEF StackOK, Ahead
      <4>2. k < Len(open)
        BY <2>1, <3>7
      <4> QED
        BY <3>3, <3>7, <4>1, <4>2 DEF Framed
    <3> QED
      BY <3>1, <3>5, <3>6, <3>7
  <2> QED
    BY <2>1, <2>2 DEF TypeOK, StackOK, Dues
<1> QED
  BY <1>1, InputHolds, PTL

\* However the input nests, no more calls are at work than the limit allows.
THEOREM DepthHolds == CanonicalSpec => []DepthIsBounded
<1>1. IInv => DepthIsBounded
  BY DEF IInv
<1> QED
  BY <1>1, InputHolds, PTL

\* No object of Parser, closed or not, comes to have two members of one name.
THEOREM NamesHold == CanonicalSpec => []NamesAreDistinct
<1>1. IInv => NamesAreDistinct
  <2> SUFFICES ASSUME IInv, path # "serde", NEW k \in DOMAIN open
               PROVE  Distinct(open[k].names)
    BY DEF NamesAreDistinct, Distinct
  <2>1. DOMAIN open = 1..Len(open)
    BY SequenceLen DEF IInv, StackOK
  <2> QED
    BY <2>1 DEF IInv, Unique
<1> QED
  BY <1>1, InputHolds, PTL

\* Every step reads a lexeme, or is the last.
THEOREM ConsumesHolds == CanonicalSpec => InputIsConsumed
<1>1. IInv /\ Next => Ended \/ pos' > pos \/ Ended'
  <2> SUFFICES ASSUME IInv, Next PROVE Ended \/ pos' > pos \/ Ended'
    OBVIOUS
  <2>1. pos \in Nat
    BY DEF IInv
  <2>2. ASSUME NEW due, Bump(due) PROVE pos' > pos
    BY <2>1, <2>2 DEF Bump
  <2>3. Fail => Ended'
    BY DEF Fail, Ended
  <2>4. EndOfText => Ended'
    BY <2>3, Stops DEF Ended
  <2> QED
    BY <2>2, <2>3, <2>4, Stops, SkipWsMoves, ScalarMoves, OpenMoves, NameMoves, CommaMoves,
       ColonMoves, CloseMoves DEF Next
<1>2. OtherEntry \/ Again => Ended
  BY DEF OtherEntry, Again, Unrecorded
<1>3. IInv /\ [CanonicalNext]_allVars => [Ended \/ pos' > pos \/ Ended']_vars
  BY <1>1, <1>2 DEF CanonicalNext, Parse, allVars
<1> QED
  BY <1>3, InputHolds, PTL DEF CanonicalSpec, InputIsConsumed

\* The order of the members does not matter to write_value, of whatever text or hand
\* the value is, and it refuses what is too deep, repeats a name or has a number that is
\* not finite, anywhere in it, and nothing else.
THEOREM OrderIsFree == CanonicalSpec => []MembersAreUnordered
<1>1. CInv => MembersAreUnordered
  BY ResultIs, Unordered DEF MembersAreUnordered
<1> QED
  BY <1>1, CHolds, PTL

\* However a result gives its tools, the two crates find the same.
LEMMA SameTools == \A page : PageTools(page) = FromToolsList(page)
<1> SUFFICES ASSUME NEW page PROVE PageTools(page) = FromToolsList(page)
  OBVIOUS
<1> DEFINE o == Get(page, "tools")
           whole == Some(page)
<1>1. AsArray(None) = None
  BY DEF AsArray
<1>2. o # None => AsArray(whole) = None
  <2>1. o # None => page.kind = "{"
    BY DEF Get
  <2>2. whole[1] = page
    BY DEF Some
  <2> QED
    BY <2>1, <2>2 DEF AsArray
<1> HIDE DEF o, whole
<1>3. PageTools(page) = IF AsArray(o) # None THEN AsArray(o) ELSE AsArray(whole)
  BY DEF PageTools, o, whole
<1>4. FromToolsList(page) = AsArray(IF o # None THEN o ELSE whole)
  BY DEF FromToolsList, o, whole
<1>5. CASE o = None
  BY <1>1, <1>3, <1>4, <1>5
<1>6. CASE o # None
  BY <1>2, <1>3, <1>4, <1>6
<1> QED
  BY <1>5, <1>6

\* observe and a fetch of one page read the same tools.
THEOREM PagesAgree == CanonicalSpec => []PagesReadAsResults
<1>1. PagesReadAsResults
  BY SameTools DEF PagesReadAsResults
<1> QED
  BY <1>1, PTL

\* Two descriptors of any result, as serde_json has read them, have the same hash if and
\* only if they are one value, and then they have the same name.
THEOREM HashesMean == CanonicalSpec => []HashMeansDescriptor
<1>1. ASSUME CInv PROVE HashMeansDescriptor
  <2> SUFFICES ASSUME pc = "parsed", FromToolsList(Result) # None,
                      NEW d \in ToSet(FromToolsList(Result)[1]),
                      NEW e \in ToSet(FromToolsList(Result)[1]),
                      Preimage(d) # Bad, Preimage(e) # Bad
               PROVE  /\ Preimage(d) = Preimage(e) => NameIn(d) = NameIn(e)
                      /\ Preimage(d) = Preimage(e) <=> e \in Reorderings(d)
    BY Zenon DEF HashMeansDescriptor
  <2>1. Result \in Value[Height]
    BY <1>1, ResultIs
  <2>2. d \in Value[Height] /\ e \in Value[Height]
    BY <2>1, ToolsAre
  <2>3. Preimage(d) = WriteValue(d, 0) /\ Preimage(e) = WriteValue(e, 0)
    BY DEF Preimage
  <2>4. WriteValue(d, 0) = WriteValue(e, 0) <=> e \in Reorderings(d)
    BY <2>2, <2>3, FormMeansValue
  <2>5. e \in Reorderings(d) => NameIn(e) = NameIn(d)
    BY <2>2, <2>3, NameSame
  <2> QED
    BY <2>3, <2>4, <2>5
<1> QED
  BY <1>1, CHolds, PTL

\* What Parser accepts is the value it returns, laid out.
THEOREM TextIsRead == CanonicalSpec => []ReadsTheText
<1>1. CInv /\ XInv => ReadsTheText
  BY XSays DEF ReadsTheText
<1>2. CanonicalSpec => [](CInv /\ XInv)
  BY CHolds, XInit, XNext, PTL DEF CanonicalSpec
<1> QED
  BY <1>1, <1>2, PTL

\* A canonical form is accepted, its own canonical form, and in order.
THEOREM StableHolds == CanonicalSpec => []CanonicalIsStable
<1>1. ASSUME CInv, AInv PROVE CanonicalIsStable
  <2> SUFFICES ASSUME path = "again"
               PROVE  pc # "failed" /\ (pc = "parsed" => Form = text /\ NamesAscend(Result))
    BY DEF CanonicalIsStable
  <2>1. /\ pc # "failed"
        /\ pc = "parsed" => /\ text = Write[MaxDepth][Result]
                            /\ Result \in Within(Canonic, MaxDepth) /\ Result \in Value[Height]
    BY <1>1, BackIs DEF AInv, CInv
  <2>2. ASSUME pc = "parsed" PROVE Form = text
    <3>1. path # "serde" /\ MaxDepth - 0 = MaxDepth
      BY DepthAssumption
    <3>2. Form = WriteValue(Result, 0)
      BY <2>2, <3>1, Zenon DEF Form
    <3> QED
      BY <2>1, <2>2, <3>1, <3>2 DEF WriteValue
  <2>3. ASSUME pc = "parsed" PROVE NamesAscend(Result)
    <3>1. MaxDepth \in 0..Height /\ Height \in 0..Height /\ MaxDepth <= Height
      BY DepthAssumption, PathAssumption, PathsAssumption DEF Parsers
    <3>2. Canonic \subseteq Ascending
      BY DEF Canonic
    <3> HIDE DEF Result
    <3> QED
      BY <2>1, <2>3, <3>1, <3>2, WithinGrows DEF NamesAscend
  <2> QED
    BY <2>1, <2>2, <2>3
<1>2. CanonicalSpec => [](CInv /\ AInv)
  BY CHolds, AInit, ANext, PTL DEF CanonicalSpec
<1> QED
  BY <1>1, <1>2, PTL
=============================================================================

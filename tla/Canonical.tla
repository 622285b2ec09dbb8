----------------------------- MODULE Canonical -----------------------------
(***************************************************************************)
(* The two entries of the canonicalizer over one input: canonicalize, which*)
(* parses the bytes itself, and canonicalize_json_value, on what serde_json*)
(* made of them; then canonicalize once more, on the canonical form.  A    *)
(* value that a caller has built by hand goes to canonicalize_value as it is.*)
(***************************************************************************)
EXTENDS JsonParser, Utf16

CONSTANTS
    MaxDepth,  \* MAX_PARSE_DEPTH
    Height,    \* no value nests deeper: a caller can build one beyond MaxDepth
    HandBuilt, \* values built by hand
    NonFinite, \* NaN and the infinities, as they would be printed
    Spelled    \* the Unicode scalar values of a member name

VARIABLE forms \* what each path has come to: lexemes of the canonical form, or Bad

allVars == <<vars, forms>>

Bad == <<>>
Scalars(name) == Spelled[name]

-----------------------------------------------------------------------------
(* Values. *)

Lexemes == DOMAIN Read["raw"]
Readings == {r \in {Read[p][l] : p \in Paths, l \in Lexemes} : r.kind \in Kinds}

\* A number need not be one that a text can have: JcsValue::Number holds any f64.
Leaves == {Leaf(r) : r \in Readings} \cup {[kind |-> "number", is |-> x] : x \in NonFinite}
IsFinite(v) == ~(v.kind = "number" /\ v.is \in NonFinite)
Names == {v.is : v \in {v \in Leaves : v.kind = "string"}}

\* Arrays and objects of items.
Containers(items) ==
    {v \in [kind : {BeginObject, BeginArray}, names : Seq(Names), items : Seq(items)] :
        Len(v.names) = IF v.kind = BeginObject THEN Len(v.items) ELSE 0}

\* JcsValue, with no more than n containers in each other.
Value[n \in 0..Height] == IF n = 0 THEN Leaves ELSE Leaves \cup Containers(Value[n - 1])

\* Those whose containers are all in Q, at most n of them in each other, and whose
\* numbers are finite.
Within(Q, n) ==
    LET within[k \in 0..Height] ==
          {v \in Value[Height] :
              IF IsContainer(v)
              THEN k > 0 /\ v \in Q /\ \A i \in DOMAIN v.items : v.items[i] \in within[k - 1]
              ELSE IsFinite(v)}
    IN  within[n]

Parsers == Paths \ {"serde"}

ASSUME PathAssumption == {"raw", "serde", "again", "built"} \subseteq Paths
ASSUME DepthAssumption ==
    /\ MaxDepth \in Nat /\ Height \in Nat
    /\ \A p \in Paths : Limit[p] <= Height
    /\ \A p \in Parsers : Limit[p] = MaxDepth
ASSUME TextAssumption == \A t \in Texts : t \in Seq(Lexemes \cup (Punctuation \ {"end"}))
\* What a string or a number is written as reads as itself (JsonString, JsonNumber),
\* and no text reads as a number that is not finite.
ASSUME ReadAssumption ==
    /\ Lexemes \cap Punctuation = {}
    /\ \A p \in Paths : DOMAIN Read[p] = Lexemes
    /\ \A p \in Parsers : Read[p] = Read["raw"]
    /\ \A v \in Leaves : v.is \in Lexemes /\ (IsFinite(v) => Leaf(Read["raw"][v.is]) = v)
    /\ \A r \in Readings : IsFinite(Leaf(r))
ASSUME SpelledAssumption ==
    /\ \A m \in Names : Spelled[m] \in Seq({c \in Nat : IsScalar(c)})
    /\ \A m, n \in Names : Spelled[m] = Spelled[n] => m = n
ASSUME BuiltAssumption == \A v \in HandBuilt : v \in Value[Height]

-----------------------------------------------------------------------------
(* write_value and from_serde_value. *)

NotAfter(a, b) == CmpUtf16(Scalars(a), Scalars(b)) <= 0

\* The members v has, in another order or in this one.
Orderings(v) == Bijection(DOMAIN v.names, DOMAIN v.names)

\* Mutant of Sorted: the members in the order of the value.
Sorted_AsGiven(v) == [i \in DOMAIN v.names |-> i]

\* The positions of an object's members, by name.
Sorted(v) ==
    CHOOSE s \in Orderings(v) :
        \A i, j \in DOMAIN s : i < j => NotAfter(v.names[s[i]], v.names[s[j]])

\* Two neighbours of the sorted members have one name.
HasDuplicate(v) ==
    \E k \in 1..(Len(v.names) - 1) : v.names[Sorted(v)[k]] = v.names[Sorted(v)[k + 1]]

\* What write_value and write_number look at before they write: the value may have n
\* containers in each other.
Writable(v, n) ==
    IF IsContainer(v) THEN n > 0 /\ (v.kind = BeginObject => ~HasDuplicate(v)) ELSE IsFinite(v)

\* A comma before each of them but the first.
Pieces(ls) == [i \in DOMAIN ls |-> IF i = 1 THEN ls[i] ELSE <<",">> \o ls[i]]
Separated(ls) == FlattenSeq(Pieces(ls))

\* The container v of the written items, its members in this order.
Bracketed(v, items, order) ==
    LET entry(i) == IF v.kind = BeginObject THEN <<v.names[i], ":">> \o items[i] ELSE items[i]
    IN  <<v.kind>> \o Separated([k \in DOMAIN order |-> entry(order[k])]) \o <<Ending(v.kind)>>

InOrder(v) == [i \in DOMAIN v.items |-> i]

\* A value that may have n containers in each other.
Write[n \in 0..MaxDepth] ==
    [v \in Value[Height] |->
        IF ~Writable(v, n) THEN Bad
        ELSE IF ~IsContainer(v) THEN <<v.is>>
        ELSE LET items == [i \in DOMAIN v.items |-> Write[n - 1][v.items[i]]]
             IN  IF \E i \in DOMAIN items : items[i] = Bad THEN Bad
                 ELSE Bracketed(v, items, IF v.kind = BeginObject THEN Sorted(v) ELSE InOrder(v))]

WriteValue(v, depth) == Write[MaxDepth - depth][v]

\* Whether from_serde_value takes the value, its depth and its numbers; it copies what
\* it takes.
FromSerde(v, depth) == v \in Within(Value[Height], MaxDepth - depth)

-----------------------------------------------------------------------------
\* The path has come to an end.
Form ==
    IF pc = "parsed" /\ (path = "serde" => FromSerde(Result, 0))
    THEN WriteValue(Result, 0) ELSE Bad

Restart(p, t) ==
    /\ path' = p
    /\ text' = t
    /\ pos' = 1
    /\ pc' = "value"
    /\ open' = <<Frame("text")>>

Unrecorded == Ended /\ path \notin DOMAIN forms

Recorded == [p \in DOMAIN forms \cup {path} |-> IF p = path THEN Form ELSE forms[p]]

\* canonicalize has returned: canonicalize_json_value is called.
OtherEntry ==
    /\ Unrecorded
    /\ path = "raw"
    /\ forms' = Recorded
    /\ Restart("serde", text)

\* A canonical form is an input like any other.
Again ==
    /\ Unrecorded
    /\ path \in {"serde", "built"}
    /\ forms' = Recorded
    /\ LET form == IF path = "built" THEN Form ELSE forms["raw"] IN
       IF form = Bad THEN UNCHANGED vars ELSE Restart("again", form)

\* A value handed to canonicalize_value is as good as parsed.
BuiltInit ==
    /\ path = "built"
    /\ text = <<>>
    /\ pos = 1
    /\ pc = "parsed"
    /\ \E v \in HandBuilt : open = <<[Frame("text") EXCEPT !.items = <<v>>]>>

CanonicalInit == (Init \/ BuiltInit) /\ forms = <<>>

Parse == Next /\ UNCHANGED forms

CanonicalNext == Parse \/ OtherEntry \/ Again

\* Parser runs in the thread of its caller and waits for nothing: as long as it has a
\* step, it takes one.  Whether the other entry is called is up to the caller.
Fairness == WF_allVars(Parse)

CanonicalSpec == CanonicalInit /\ [][CanonicalNext]_allVars /\ Fairness

-----------------------------------------------------------------------------
(* What the properties are about. *)

\* The value, its members in the order they have.
Laid[n \in 0..Height] ==
    [v \in Value[n] |->
        IF ~IsContainer(v) THEN <<v.is>>
        ELSE Bracketed(v, [i \in DOMAIN v.items |-> Laid[n - 1][v.items[i]]], InOrder(v))]

\* The text without its white space, each lexeme as it would be written.
Plain(l) ==
    IF l \in Punctuation \/ Read["raw"][l].kind \notin Kinds THEN l ELSE Read["raw"][l].is
Plainly(t) == FlattenSeq([i \in DOMAIN t |-> IF t[i] = " " THEN <<>> ELSE <<Plain(t[i])>>])

NoRepeats == {v \in Value[Height] : \A i, j \in DOMAIN v.names : v.names[i] = v.names[j] => i = j}
InDomain(v) == v \in Within(NoRepeats, MaxDepth)

Ascending ==
    {v \in Value[Height] : \A i \in 2..Len(v.names) :
        LexLess(Utf16(Scalars(v.names[i - 1])), Utf16(Scalars(v.names[i])))}
NamesAscend(v) == v \in Within(Ascending, Height)

\* The values that differ from v in the order of members only, at every level.
Arrangements(v) ==
    IF v.kind = BeginObject THEN Orderings(v) ELSE {InOrder(v)}
\* One of each.
Picks(of) ==
    {c \in [DOMAIN of -> UNION {of[i] : i \in DOMAIN of}] : \A i \in DOMAIN of : c[i] \in of[i]}
Rearranged(v, of) ==
    {[kind |-> v.kind,
      names |-> [i \in DOMAIN v.names |-> v.names[p[i]]],
      items |-> [i \in DOMAIN v.items |-> c[p[i]]]] : p \in Arrangements(v), c \in Picks(of)}
Orders[n \in 0..Height] ==
    [v \in Value[n] |->
        IF ~IsContainer(v) THEN {v}
        ELSE Rearranged(v, [i \in DOMAIN v.items |-> Orders[n - 1][v.items[i]]])]
Reorderings(v) == Orders[Height][v]

-----------------------------------------------------------------------------
(* Properties. *)

\* What Parser accepts, white space and spelling aside, is the value it returns laid
\* out, to the last lexeme (canonical.rs:91-98).
ReadsTheText ==
    (pc = "parsed" /\ path \in {"raw", "again"}) => Laid[Height][Result] = Plainly(text)

\* A canonical form, of an input or of a value built by hand, is accepted, is its
\* own canonical form and has the names of each object in the order of UTF-16
\* (canonical.rs:36-44).
CanonicalIsStable ==
    path = "again" =>
        /\ pc # "failed"
        /\ pc = "parsed" => Form = text /\ NamesAscend(Result)

\* The order in which the members come does not matter, not even in a value built by
\* hand; and the one that has no canonical form is the one outside the domain: too deep,
\* with a name that repeats or a number that is not finite, anywhere in it (canonical.rs:
\* 213-215, 225-239, 264-269).
MembersAreUnordered ==
    pc = "parsed" =>
        /\ \A v \in Reorderings(Result) : WriteValue(v, 0) = WriteValue(Result, 0)
        /\ WriteValue(Result, 0) # Bad <=> InDomain(Result)

\* Every call of a parser returns, whatever the input: no lexeme keeps it for ever.
Returns == []<>Ended

\* "Hashing the resulting value is byte-identical to hashing the raw bytes", by a comment
\* that the code does not keep: str::parse rounds a decimal to the nearest double,
\* serde_json to one close by (interposer lib.rs:118-121).
SameBytes ==
    ({"raw", "serde"} \subseteq DOMAIN forms /\ forms["raw"] # Bad /\ forms["serde"] # Bad) =>
        forms["raw"] = forms["serde"]
=============================================================================

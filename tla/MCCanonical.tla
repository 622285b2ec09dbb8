---------------------------- MODULE MCCanonical ----------------------------
(***************************************************************************)
(* Canonical and ToolsList with four containers in each other instead of   *)
(* 128, over every text of up to four lexemes, a few objects, numbers that *)
(* the two parsers read differently, results of tools/list in the three    *)
(* shapes a host may pass and some it may not, and what is left of objects *)
(* and results when a lexeme is dropped or doubled.                        *)
(***************************************************************************)
EXTENDS Grammar, TLC

MCPaths == {"raw", "serde", "again", "built"}
\* serde_json's recursion limit is 128 too, but it refuses at the limit.
MCLimit == [p \in MCPaths |-> IF p = "serde" THEN MaxDepth - 1 ELSE MaxDepth]

\* Among the names: U+FF5E, and U+1F600 between it and the others in UTF-16.
MCSpelled == "a" :> <<97>> @@ "wide" :> <<65374>> @@ "astral" :> <<128512>>
             @@ "name" :> <<110>> @@ "nextCursor" :> <<110, 101>> @@ "tools" :> <<116>>

\* Strings by what they mean, numbers by the shortest digits of the double.  In the same
\* way for both parsers, or for Parser and for serde_json:
\*   an underflow, and a zero whose exponent has a nonzero digit, only Parser refuses;
\*   1e-23 is divided by a power of ten that no double has, which rounds twice;
\*   the greatest double with one digit too many overflows in serde_json.
Reads(kind, is) == [kind |-> kind, is |-> is]
Malformed == Reads("malformed", "")
ReadAlike ==
    [n \in DOMAIN MCSpelled |-> Reads("string", n)]
    @@ "\\u0061" :> Reads("string", "a") @@ "n\\u0061me" :> Reads("string", "name")
    @@ "1" :> Reads("number", "1") @@ "1.0" :> Reads("number", "1")
    @@ "0" :> Reads("number", "0") @@ "null" :> Reads("literal", "null")
    @@ "1.7976931348623157e+308" :> Reads("number", "1.7976931348623157e+308")
    @@ "01" :> Malformed @@ "NaN" :> Malformed
ReadByParser ==
    "1e-400" :> Malformed @@ "0e5" :> Malformed
    @@ "1e-23" :> Reads("number", "1e-23")
    @@ "1.0000000000000001e-23" :> Reads("number", "1.0000000000000001e-23")
    @@ "1.7976931348623158e308" :> Reads("number", "1.7976931348623157e+308")
ReadBySerde ==
    "1e-400" :> Reads("number", "0") @@ "0e5" :> Reads("number", "0")
    @@ "1e-23" :> Reads("number", "1.0000000000000001e-23")
    @@ "1.0000000000000001e-23" :> Reads("number", "1.0000000000000001e-23")
    @@ "1.7976931348623158e308" :> Malformed
MCRead == [p \in MCPaths |-> ReadAlike @@ (IF p = "serde" THEN ReadBySerde ELSE ReadByParser)]

\* What would be printed for NaN; the infinities are refused in the same place.
MCNonFinite == {"NaN"}

Letters == {"{", "}", "[", "]", ",", ":", " ", "a", "1.0", "01"}

Member(n, v) == <<n, ":">> \o v
Objects ==
    {<<"{">> \o Member(m, v) \o <<",">> \o Member(n, w) \o <<"}">> :
        m \in {"a", "wide", "astral"}, n \in {"\\u0061", "a", "wide", "astral"},
        v \in {<<"1">>, <<"{", "}">>}, w \in {<<"1.0">>, <<" ", "[", "null", "]">>}}
    \cup {<<"[", "{", "a", ":", "{", "}", "}", "]">>,
          <<"{", "a", ":", "{", "wide", ":", "1", ",", "astral", ":", "1", "}", "}">>,
          <<"[", "1", ",", "[", "null", ",", "1", "]", "]">>,
          <<"{", "a", ":", "1", ",", "wide", ":", "1", ",", "astral", ":", "1", "}">>,
          <<"{", "a", ":", "1", ",", "wide", ":", "null", ",", "a", ":", "null", "}">>}

\* Numbers that the two parsers read differently, and some they read alike, in pairs.
Numerals == (DOMAIN ReadByParser) \cup {"0", "1.0"}
NumberTexts ==
    {<<l>> : l \in Numerals}
    \cup {<<"[", l, ",", m, "]">> : l, m \in Numerals}
    \cup {<<"{", "wide", ":", l, ",", "astral", ":", m, "}">> : l, m \in Numerals}
    \cup {<<"{", "a", ":", l, ",", "a", ":", m, "}">> : l, m \in Numerals}

\* A tower of n containers.
Tower(n) == [i \in 1..(2 * n) |-> IF i <= n THEN "[" ELSE "]"]
Towers == {Tower(n) : n \in 3..6}
          \cup {<<"{", "a", ":">> \o Tower(n) \o <<",", "wide", ":">> \o Tower(n) \o <<"}">> : n \in 2..4}

Obj(members) == <<"{">> \o Separated(members) \o <<"}">>
Arr(items) == <<"[">> \o Separated(items) \o <<"]">>

Descriptors ==
    {Obj(<<>>), <<"1">>, <<"a">>, Arr(<<>>),
     Obj(<<Member("name", <<"a">>)>>), Obj(<<Member("n\\u0061me", <<"\\u0061">>)>>),
     Obj(<<Member("name", <<"1">>)>>), Obj(<<Member("wide", <<"a">>)>>),
     Obj(<<Member("name", <<"a">>), Member("wide", <<"1">>)>>),
     Obj(<<Member("wide", <<"1.0">>), Member("name", <<"\\u0061">>)>>),
     Obj(<<Member("name", <<"1">>), Member("wide", <<"a">>)>>),
     Obj(<<Member("name", <<"a">>), Member("wide", <<"1e-400">>)>>),
     Obj(<<Member("name", <<"a">>), Member("wide", <<"1e-23">>)>>),
     Obj(<<Member("name", <<"a">>), Member("wide", <<"1.0000000000000001e-23">>)>>),
     Obj(<<Member("name", <<"a">>), Member("n\\u0061me", <<"wide">>)>>),
     Obj(<<Member("a", Obj(<<Member("a", <<"1">>)>>))>>)}

ToolLists == {Arr(<<>>)} \cup {Arr(<<d>>) : d \in Descriptors}
             \cup {Arr(<<d, e>>) : d, e \in Descriptors}
Shapes(tools) ==
    {tools, Obj(<<Member("tools", tools)>>)}
    \cup UNION {{Obj(<<Member("tools", tools), Member("nextCursor", c)>>),
                 Obj(<<Member("nextCursor", c), Member("tools", tools)>>)} :
                c \in {<<"a">>, <<"1">>}}
Shapeless ==
    {Obj(<<Member("tools", <<"1">>), Member("nextCursor", <<"a">>)>>), Obj(<<Member("a", Arr(<<>>))>>),
     Obj(<<Member("tools", Arr(<<>>)), Member("tools", Arr(<<<<"a">>>>))>>),
     Obj(<<Member("tools", Obj(<<Member("tools", Arr(<<>>))>>))>>)}

Dropped(t) == {SubSeq(t, 1, i - 1) \o SubSeq(t, i + 1, Len(t)) : i \in DOMAIN t}
Doubled(t) == {SubSeq(t, 1, i) \o SubSeq(t, i, Len(t)) : i \in DOMAIN t}

MCTexts ==
    UNION {[1..n -> Letters] : n \in 0..4}
    \cup Objects \cup Towers \cup NumberTexts \cup UNION {Dropped(t) \cup Doubled(t) : t \in Objects \cup Towers}
    \cup UNION {Shapes(tools) : tools \in ToolLists} \cup Shapeless
    \cup UNION {Dropped(t) : t \in UNION {Shapes(Arr(<<d>>)) : d \in Descriptors}}

One == Leaf(Reads("number", "1"))
NotANumber == Leaf(Reads("number", "NaN"))
Array(vs) == [kind |-> "[", names |-> <<>>, items |-> vs]
Object(ns, vs) == [kind |-> "{", names |-> ns, items |-> vs]
MCHandBuilt ==
    LET level1 == {One, NotANumber, Array(<<>>), Array(<<One, One>>), Object(<<"a", "a">>, <<One, One>>)}
                  \cup {Object(<<m, n>>, <<One, Array(<<>>)>>) : m, n \in {"a", "wide", "astral"}}
        level2 == level1 \cup {Array(<<v>>) : v \in level1}
                  \cup {Object(<<"wide", "astral", "a">>, <<v, One, w>>) : v, w \in level1}
                  \cup {Object(<<"wide", "a", "wide">>, <<v, w, v>>) : v, w \in level1}
    IN  level2 \cup {Array(<<v>>) : v \in level2} \cup {Array(<<Array(<<v>>)>>) : v \in level2}
=============================================================================

----------------------------- MODULE JsonParser -----------------------------
(***************************************************************************)
(* The recursive-descent parser of the canonicalizer, over lexemes: its calls    *)
(* that have not returned are the frames of open.  How the characters of a       *)
(* string or a number are read is in JsonString and JsonNumber; here Read says   *)
(* what comes of a lexeme.  serde_json, through which the other entry of the     *)
(* canonicalizer gets its value, reads the same grammar with another limit and   *)
(* another treatment of a repeated name (outside src/: external).              *)
(***************************************************************************)
EXTENDS Naturals, Sequences

CONSTANTS
    Texts, \* the inputs: sequences of lexemes
    Paths, \* who parses: "serde" is serde_json, every other is Parser
    Limit, \* how many containers a path nests
    Read   \* what a path makes of a lexeme: its kind, and what it is written as

BeginObject == "{"
BeginArray == "["
Punctuation == {BeginObject, "}", BeginArray, "]", ",", ":", " ", "end"}
Kinds == {"string", "number", "literal"}

ASSUME TextsAssumption == \A t \in Texts : Len(t) \in Nat
ASSUME PathsAssumption == "raw" \in Paths
ASSUME LimitAssumption == Limit \in [Paths -> Nat]

VARIABLES
    path, \* who parses
    text, \* Parser: the input
    pos,  \* Parser: the next lexeme
    pc,   \* what is due next: a "value", after an opening one "first" its closing
          \* one, a "name", a "colon", what comes "after" a value; then "parsed"
          \* or "failed"
    open  \* the calls of parse_object and parse_array under way, each with the
          \* members or items it has; the first frame is parse, with its value

vars == <<path, text, pos, pc, open>>

Frame(kind) == [kind |-> kind, names |-> <<>>, items |-> <<>>]
Leaf(r) == [kind |-> r.kind, is |-> r.is]
IsContainer(v) == v.kind \in {BeginObject, BeginArray}

Top == open[Len(open)]
Below == SubSeq(open, 1, Len(open) - 1)
WithTop(f) == Append(Below, f)
Depth == Len(open) - 1  \* Parser.depth
Result == open[1].items[1]

\* Parser.peek.
Lexeme == IF pos <= Len(text) THEN text[pos] ELSE "end"
Ending(kind) == CASE kind = BeginObject -> "}" [] kind = BeginArray -> "]" [] OTHER -> "end"

\* The kind of the next lexeme, none of them when it is malformed.
Kind == IF Lexeme \in Punctuation THEN Lexeme ELSE Read[path][Lexeme].kind

Ended == pc \in {"parsed", "failed"}
ValueDue == pc = "value" \/ (pc = "first" /\ Top.kind = BeginArray)
NameDue == pc = "name" \/ (pc = "first" /\ Top.kind = BeginObject)

-----------------------------------------------------------------------------
Bump(due) == pos' = pos + 1 /\ pc' = due /\ UNCHANGED <<path, text>>

Fail == pc' = "failed" /\ UNCHANGED <<path, text, pos, open>>

\* The frame f with one more value: serde_json's map keeps the last of two members
\* of a name.
Delivered(f, v) ==
    LET n == Len(f.names)
        earlier == {i \in 1..(n - 1) : f.names[i] = f.names[n]}
    IN  IF f.kind = BeginObject /\ earlier # {}
        THEN [f EXCEPT !.names = SubSeq(@, 1, n - 1),
                       !.items = [i \in DOMAIN @ |-> IF i \in earlier THEN v ELSE @[i]]]
        ELSE [f EXCEPT !.items = Append(@, v)]

\* Mutant of SkipWs: the position stays.
SkipWs_Stays == ~Ended /\ Lexeme = " " /\ UNCHANGED vars

\* skip_ws, before and after every value, name, colon and comma.
SkipWs ==
    /\ ~Ended
    /\ Lexeme = " "
    /\ Bump(pc)
    /\ UNCHANGED open

\* parse_value of a string, a number or a literal.
Scalar ==
    /\ ValueDue
    /\ Kind \in Kinds
    /\ open' = WithTop(Delivered(Top, Leaf(Read[path][Lexeme])))
    /\ Bump("after")

\* Mutant of TooDeep: one container more.
TooDeep_OffByOne == Depth > Limit[path]

\* Mutant of TooDeep: one container less.
TooDeep_Early == Depth + 1 >= Limit[path]

TooDeep == Depth >= Limit[path]

\* parse_value calls parse_object or parse_array.
OpenContainer ==
    /\ ValueDue
    /\ Lexeme \in {BeginObject, BeginArray}
    /\ ~TooDeep
    /\ open' = Append(open, Frame(Lexeme))
    /\ Bump("first")

\* Neither a value nor, right after the opening bracket, the closing one.
NoValue ==
    /\ ValueDue
    /\ Kind \notin Kinds
    /\ Lexeme # " "
    /\ Lexeme \in {BeginObject, BeginArray} => TooDeep
    /\ ~(pc = "first" /\ Lexeme = "]")
    /\ Fail

\* Mutant of Repeated: the last member of a name stays.
Repeated_Allowed(name) == FALSE

\* parse_object has seen the name: Parser refuses, serde_json goes on.
Repeated(name) == path # "serde" /\ \E i \in DOMAIN Top.names : Top.names[i] = name

\* parse_object's member name.
Name ==
    /\ NameDue
    /\ Kind = "string"
    /\ ~Repeated(Read[path][Lexeme].is)
    /\ open' = WithTop([Top EXCEPT !.names = Append(@, Read[path][Lexeme].is)])
    /\ Bump("colon")

NoName ==
    /\ NameDue
    /\ Lexeme # " "
    /\ ~(pc = "first" /\ Lexeme = "}")
    /\ Kind = "string" => Repeated(Read[path][Lexeme].is)
    /\ Fail

\* Mutant of Colon: a colon may be missing.
Colon_Optional ==
    /\ pc = "colon"
    /\ Lexeme # " "
    /\ UNCHANGED <<path, text, open>>
    /\ pc' = "value"
    /\ pos' = IF Lexeme = ":" THEN pos + 1 ELSE pos

Colon ==
    /\ pc = "colon"
    /\ Lexeme # " "
    /\ IF Lexeme = ":" THEN Bump("value") /\ UNCHANGED open ELSE Fail

\* Mutant of Comma: a comma may be the last.
Comma_Trailing ==
    /\ pc = "after"
    /\ Lexeme = ","
    /\ Depth > 0
    /\ Bump("first")
    /\ UNCHANGED open

\* Mutant of Comma: in an object too, a value is due.
Comma_NoName ==
    /\ pc = "after"
    /\ Lexeme = ","
    /\ Depth > 0
    /\ Bump("value")
    /\ UNCHANGED open

Comma ==
    /\ pc = "after"
    /\ Lexeme = ","
    /\ Depth > 0
    /\ Bump(IF Top.kind = BeginObject THEN "name" ELSE "value")
    /\ UNCHANGED open

\* parse_object or parse_array returns to the call that made it.
CloseContainer ==
    /\ pc \in {"first", "after"}
    /\ Depth > 0
    /\ Lexeme = Ending(Top.kind)
    /\ open' = Append(SubSeq(open, 1, Len(open) - 2),
                      Delivered(open[Len(open) - 1], Top))
    /\ Bump("after")

\* parse is at the end of the input, or something trails.
EndOfText ==
    /\ pc = "after"
    /\ Depth = 0
    /\ Lexeme # " "
    /\ IF Lexeme = "end" THEN pc' = "parsed" /\ UNCHANGED <<path, text, pos, open>> ELSE Fail

\* Inside a container, neither a comma nor the closing bracket.
NoComma ==
    /\ pc = "after"
    /\ Depth > 0
    /\ Lexeme \notin {" ", ",", Ending(Top.kind)}
    /\ Fail

Init ==
    /\ path = "raw"
    /\ text \in Texts
    /\ pos = 1
    /\ pc = "value"
    /\ open = <<Frame("text")>>

Next ==
    \/ SkipWs \/ Scalar \/ OpenContainer \/ NoValue \/ Name \/ NoName
    \/ Colon \/ Comma \/ CloseContainer \/ EndOfText \/ NoComma

Spec == Init /\ [][Next]_vars

-----------------------------------------------------------------------------
(* Properties. *)

\* Whether the names of a frame go with its values: one name more while a value of
\* the object is due.
Framed(k) ==
    LET f == open[k]
        pending == f.kind = BeginObject /\ (k < Len(open) \/ pc \in {"colon", "value"})
    IN  IF f.kind = BeginObject
        THEN pc = "failed" \/ Len(f.names) = Len(f.items) + (IF pending THEN 1 ELSE 0)
        ELSE f.names = <<>>

\* The call at the bottom is parse, those above are of containers.
TypeOK ==
    /\ pos \in 1..(Len(text) + 1)
    /\ pc \in {"value", "first", "name", "colon", "after", "parsed", "failed"}
    /\ Len(open) >= 1
    /\ open[1].kind = "text"
    /\ \A k \in 2..Len(open) : open[k].kind \in {BeginObject, BeginArray}
    /\ \A k \in 1..Len(open) : Framed(k)

\* However the input nests, no more calls are under way than the limit, which is
\* what keeps the stack from overflowing (canonical.rs:55-59).
DepthIsBounded == Depth <= Limit[path]

\* No object of Parser has two members of a name, however the names are spelled,
\* at any depth and even before the object is closed (canonical.rs:13-15).
NamesAreDistinct ==
    path # "serde" =>
        \A k \in DOMAIN open : \A i, j \in DOMAIN open[k].names :
            open[k].names[i] = open[k].names[j] => i = j

\* No step goes back in the input, and one that stays where it is is the last: the
\* parser reads each lexeme once.
InputIsConsumed == [][Ended \/ pos' > pos \/ Ended']_vars
=============================================================================

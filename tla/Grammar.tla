------------------------------ MODULE Grammar ------------------------------
(***************************************************************************)
(* A grammar of the texts and of the values they mean, which takes a text  *)
(* apart in every way there is, and what it says of the two entries and of *)
(* ToolsList.                                                              *)
(***************************************************************************)
EXTENDS ToolsList

Inner(ls) == SubSeq(ls, 2, Len(ls) - 1)
IsWrapped(ls, kind) == Len(ls) > 1 /\ ls[1] = kind /\ ls[Len(ls)] = Ending(kind)
OneEntry(kind, names, v) == [kind |-> kind, names |-> names, items |-> <<v>>]

\* What path p makes of the lexeme l.
As(p, l, kinds) == IF l \in Punctuation THEN {} ELSE {r \in {Read[p][l]} : r.kind \in kinds}

\* The values of the lexemes ls, its strings and numbers read as path p does.
RECURSIVE Values(_, _), Entries(_, _, _), Lists(_, _, _)
Values(p, ls) ==
    (IF Len(ls) = 1 THEN {Leaf(r) : r \in As(p, ls[1], Kinds)} ELSE {})
    \cup UNION {IF Len(ls) = 2 THEN {Frame(kind)} ELSE Lists(p, kind, Inner(ls)) :
                kind \in {k \in {"{", "["} : IsWrapped(ls, k)}}
Entries(p, kind, ls) ==
    IF kind = "[" THEN {OneEntry(kind, <<>>, v) : v \in Values(p, ls)}
    ELSE IF Len(ls) < 3 \/ ls[2] # ":" THEN {}
    ELSE {OneEntry(kind, <<r.is>>, v) : r \in As(p, ls[1], {"string"}),
                                        v \in Values(p, SubSeq(ls, 3, Len(ls)))}
Lists(p, kind, ls) ==
    Entries(p, kind, ls) \cup
    UNION {{[kind |-> kind, names |-> e.names \o w.names, items |-> e.items \o w.items] :
              e \in Entries(p, kind, SubSeq(ls, 1, i - 1)),
              w \in Lists(p, kind, SubSeq(ls, i + 1, Len(ls)))} :
           i \in {i \in DOMAIN ls : ls[i] = ","}}

Meanings(p) == Values(p, SelectSeq(text, LAMBDA l : l # " "))

\* The text has a string or number that p refuses and q takes.
Refuses(p, q) ==
    \E l \in ToSet(text) \ Punctuation : As(p, l, Kinds) = {} /\ As(q, l, Kinds) # {}

\* The text has a number that Parser reads as the one and serde_json as the other.
Rounded(one, other) ==
    \E l \in ToSet(text) \ Punctuation :
        \E r \in As("raw", l, {"number"}), s \in As("serde", l, {"number"}) :
            r.is = one /\ s.is = other

-----------------------------------------------------------------------------
(* Properties. *)

\* Parser accepts a text if and only if the grammar has a value for it that is in
\* the domain, names compared as they are read and not as they are spelled; the
\* value is that one (canonical.rs:13-15, 96-98).
ReadsTheGrammar ==
    (path = "raw" /\ Ended) =>
        LET values == {v \in Meanings("raw") : InDomain(v)} IN
        IF pc = "parsed" THEN values = {Result} ELSE values = {}

\* Where both entries accept an input they come to the same bytes, but for numbers that
\* serde_json rounds to another double (SameBytes).  Parser refuses what the other
\* accepts only if a name is repeated or a number of the text is refused by it alone
\* (an underflow, or a zero with an exponent); it accepts what the other refuses only
\* at the last level of nesting, where they should reject alike, or with a number that
\* overflows in serde_json alone (canonical.rs:55-59, 133-138, 159-167).
EntriesAgree ==
    (path = "serde" /\ Ended) =>
        LET raw == forms["raw"]
            serde == Form
        IN  /\ (raw # Bad /\ serde # Bad) =>
                 /\ Len(raw) = Len(serde)
                 /\ \A i \in DOMAIN raw : raw[i] = serde[i] \/ Rounded(raw[i], serde[i])
            /\ (raw = Bad /\ serde # Bad) =>
                 \/ Refuses("raw", "serde")
                 \/ \E v \in Meanings("raw") : v \notin Within(NoRepeats, Height)
            /\ (raw # Bad /\ serde = Bad) =>
                 \/ Refuses("serde", "raw")
                 \/ \A v \in Values("raw", raw) : FromSerde(v, 0) /\ ~FromSerde(v, 1)

\* The names, hashes and cursor that observe takes from the bytes are those of the one
\* value the grammar has for them, each of its numbers being the double that serde_json
\* rounds it to; and nothing is lost on the way: no name repeats, and the value is one
\* for Parser too, so that no number was refused by it (interposer lib.rs:116-125).
\* The double need not be the one that Parser has read: see SameBytes.
HashesAreOfTheBytes ==
    Wire # None =>
        \E v \in Meanings("raw"), w \in Meanings("serde") :
            InDomain(v) /\ InDomain(w) /\ Reading(w) = Reading(Wire[1])
=============================================================================

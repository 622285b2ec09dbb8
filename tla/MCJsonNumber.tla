---------------------------- MODULE MCJsonNumber ----------------------------
(***************************************************************************)
(* JsonNumber over every text of up to five characters, and over numbers whose *)
(* point falls on either side of each limit of the layout and of the range.     *)
(***************************************************************************)
EXTENDS JsonNumber

MCCharacters == Digit \cup {"-", "+", ".", "e", "E", ",", "]", "}", " "}
Tried == {"-", "+", ".", "e", "0", "1", "7", ","}

Signs == {<<>>, <<"-">>}
Integers2 == {<<"0">>, <<"7">>, <<"1", "0">>, <<"1", "7", "1">>}
Fractions == {<<>>, <<".", "0">>, <<".", "0", "7">>, <<".", "7", "1", "0">>}
Scales == {<<>>} \cup
    {<<"e">> \o x : x \in {<<"0">>, <<"5">>, <<"-", "5">>, <<"-", "6">>, <<"-", "7">>,
        <<"-", "1", "0">>, <<"-", "1", "1">>, <<"1", "8">>, <<"+", "1", "9">>, <<"2", "0">>,
        <<"2", "1">>, <<"2", "2">>, <<"2", "5">>, <<"+", "0", "2">>}}

MCTexts ==
    BoundedSeq(Tried, 5)
    \cup {a \o i \o f \o e : a \in Signs, i \in Integers2, f \in Fractions, e \in Scales}
=============================================================================

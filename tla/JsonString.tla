----------------------------- MODULE JsonString -----------------------------
(***************************************************************************)
(* Strings in the canonicalizer: parse_string one character or escape at a     *)
(* time, write_string, and parse_string again on what was written.           *)
(*                                                                         *)
(* Characters are Unicode scalar values: the input has passed the check for    *)
(* UTF-8.  A spelling is a text between quotes, put together from pieces that    *)
(* each say what they mean: UTF-16 code units, or nothing.                   *)
(***************************************************************************)
EXTENDS Utf16

CONSTANTS
    Pieces,   \* what spellings are put together from: records of text and units
    Endings,  \* what follows the last piece, as far as the input goes
    MaxPieces \* bound: pieces of a spelling

VARIABLES
    chars,    \* Parser: the input
    pos,      \* Parser: the next character
    pc,       \* "quote" before the opening quote, "body", "parsed" or "failed"
    out,      \* parse_string: the string so far
    spelling, \* history: the pieces and the ending of the input
    first     \* history: the string whose canonical form is being parsed

vars == <<chars, pos, pc, out, spelling, first>>

Quote == 34
Backslash == 92
LetterU == 117
Bad == <<>>

\* What a backslash and a letter stand for, and what write_string turns back.
ShortEscapes == [e \in {34, 47, 92, 98, 102, 110, 114, 116} |->
    CASE e = 98 -> 8 [] e = 102 -> 12 [] e = 110 -> 10 [] e = 114 -> 13 [] e = 116 -> 9
      [] OTHER -> e]
ShortForms == [c \in {8, 9, 10, 12, 13, 34, 92} |->
    CASE c = 8 -> 98 [] c = 9 -> 116 [] c = 10 -> 110 [] c = 12 -> 102 [] c = 13 -> 114
      [] OTHER -> c]

TypeOK ==
    /\ pos \in 1..(Len(chars) + 1)
    /\ pc \in {"quote", "body", "parsed", "failed"}
    /\ \A i \in 1..Len(out) : IsScalar(out[i])

-----------------------------------------------------------------------------
(* parse_string. *)

At(p) == IF p \in 1..Len(chars) THEN chars[p] ELSE -1

\* char::to_digit(16), of any other character -1.
HexDigit(c) ==
    CASE c \in 48..57 -> c - 48
      [] c \in 65..70 -> c - 55
      [] c \in 97..102 -> c - 87
      [] OTHER -> -1

\* The number that four hexadecimal digits make, or -1.
HexNumber(a, b, c, d) ==
    IF -1 \in {HexDigit(a), HexDigit(b), HexDigit(c), HexDigit(d)} THEN -1
    ELSE 4096 * HexDigit(a) + 256 * HexDigit(b) + 16 * HexDigit(c) + HexDigit(d)

\* read_hex4, from p on: the code unit, or -1.
Hex4(p) == HexNumber(At(p), At(p + 1), At(p + 2), At(p + 3))

\* Mutant of UnicodeEscape: any escape does for the second half of a pair.
UnicodeEscape_AnyPair(p) ==
    IF Hex4(p) \in High
    THEN IF Hex4(p + 6) # -1 THEN <<Combine(Hex4(p), Hex4(p + 6)), p + 10>> ELSE Bad
    ELSE IF Hex4(p) \in Low \cup {-1} THEN Bad ELSE <<Hex4(p), p + 4>>

\* Mutant of UnicodeEscape: halves of pairs are let through.
UnicodeEscape_LoneHalves(p) == IF Hex4(p) = -1 THEN Bad ELSE <<Hex4(p), p + 4>>

\* parse_unicode_escape, after the u: the scalar value and the position after it.
UnicodeEscape(p) ==
    IF Hex4(p) \in High
    THEN IF At(p + 4) = Backslash /\ At(p + 5) = LetterU /\ Hex4(p + 6) \in Low
         THEN <<Combine(Hex4(p), Hex4(p + 6)), p + 10>>
         ELSE Bad
    ELSE IF Hex4(p) \in Low \cup {-1} THEN Bad ELSE <<Hex4(p), p + 4>>

\* What the character or the escape at p stands for, and the position after it.
Unescaped(p) ==
    LET c == At(p)
        e == At(p + 1) IN
    IF c # Backslash THEN IF c > 31 THEN <<c, p + 1>> ELSE Bad
    ELSE IF e \in DOMAIN ShortEscapes THEN <<ShortEscapes[e], p + 2>>
    ELSE IF e = LetterU THEN UnicodeEscape(p + 2) ELSE Bad

Fail ==
    /\ pc' = "failed"
    /\ UNCHANGED <<chars, pos, out, spelling, first>>

OpenQuote ==
    /\ pc = "quote"
    /\ IF At(pos) = Quote
       THEN pos' = pos + 1 /\ pc' = "body" /\ UNCHANGED <<chars, out, spelling, first>>
       ELSE Fail

Character ==
    /\ pc = "body"
    /\ At(pos) # Quote
    /\ LET r == Unescaped(pos) IN
       IF r = Bad THEN Fail
       ELSE /\ out' = Append(out, r[1])
            /\ pos' = r[2]
            /\ UNCHANGED <<chars, pc, spelling, first>>

CloseQuote ==
    /\ pc = "body"
    /\ At(pos) = Quote
    /\ pos' = pos + 1
    /\ pc' = "parsed"
    /\ UNCHANGED <<chars, out, spelling, first>>

-----------------------------------------------------------------------------
(* write_string. *)

LowerHex(n) == IF n < 10 THEN 48 + n ELSE 87 + n

\* Mutant of Written: control characters without a short form stay as they are.
Written_RawControls(c) ==
    IF c \in DOMAIN ShortForms THEN <<Backslash, ShortForms[c]>> ELSE <<c>>

Written(c) ==
    IF c \in DOMAIN ShortForms THEN <<Backslash, ShortForms[c]>>
    ELSE IF c <= 31 THEN <<Backslash, LetterU, 48, 48, LowerHex(c \div 16), LowerHex(c % 16)>>
    ELSE <<c>>

WriteString(s) ==
    <<Quote>> \o FlattenSeq([i \in 1..Len(s) |-> Written(s[i])]) \o <<Quote>>

\* The string is written, and what was written is parsed.
Rewrite ==
    /\ pc = "parsed"
    /\ first = <<>>
    /\ chars' = WriteString(out)
    /\ pos' = 1
    /\ pc' = "quote"
    /\ first' = <<out>>
    /\ out' = <<>>
    /\ UNCHANGED spelling

-----------------------------------------------------------------------------
(* Spellings. *)

\* The kinds of pieces: a character as it is, a letter that has a short escape, the
\* escape of a code unit, and what no string has in it, however it goes on.
IsPlain(p) ==
    /\ Len(p.text) = 1 /\ p.text[1] > 31 /\ p.text[1] \notin {Quote, Backslash}
    /\ p.units = UnitsOf(p.text[1])
IsShort(p) ==
    /\ Len(p.text) = 2 /\ p.text[1] = Backslash /\ p.text[2] \in DOMAIN ShortEscapes
    /\ p.units = <<ShortEscapes[p.text[2]]>>
IsUnit(p) ==
    /\ Len(p.text) = 6 /\ p.text[1] = Backslash /\ p.text[2] = LetterU
    /\ LET n == HexNumber(p.text[3], p.text[4], p.text[5], p.text[6])
       IN  n # -1 /\ p.units = <<n>>
IsNothing(p) ==
    /\ p.units = <<>>
    /\ \/ Len(p.text) > 0 /\ p.text[1] < 32
       \/ /\ Len(p.text) > 1 /\ p.text[1] = Backslash
          /\ p.text[2] \notin DOMAIN ShortEscapes \cup {LetterU}
       \/ /\ Len(p.text) \in 3..6 /\ p.text[1] = Backslash /\ p.text[2] = LetterU
          /\ \E i \in 3..Len(p.text) : HexDigit(p.text[i]) = -1

\* What follows the last piece: nothing, the closing quote, or an escape that the
\* input ends in.  With these every text after a quote is a spelling.
IsEnding(e) ==
    \/ e = <<>>
    \/ e[1] = Quote
    \/ e[1] = Backslash /\ (Len(e) > 1 => e[2] = LetterU /\ Len(e) < 6)

IsText(s) == \A i \in 1..Len(s) : IsScalar(s[i])

ASSUME SpellingAssumption ==
    /\ MaxPieces \in Nat
    /\ \A p \in Pieces :
         /\ p.text \in Seq(Int) /\ IsText(p.text)
         /\ IsPlain(p) \/ IsShort(p) \/ IsUnit(p) \/ IsNothing(p)
    /\ \A e \in Endings : e \in Seq(Int) /\ IsText(e) /\ IsEnding(e)

TextOf(ps) == FlattenSeq([i \in 1..Len(ps) |-> ps[i].text])

Init ==
    /\ spelling \in BoundedSeq(Pieces, MaxPieces) \X Endings
    /\ chars = <<Quote>> \o TextOf(spelling[1]) \o spelling[2]
    /\ pos = 1
    /\ pc = "quote"
    /\ out = <<>>
    /\ first = <<>>

Next == OpenQuote \/ Character \/ CloseQuote \/ Rewrite

Spec == Init /\ [][Next]_vars

-----------------------------------------------------------------------------
(* Properties. *)

\* The code units that a spelling means.
Meaning == FlattenSeq([i \in 1..Len(spelling[1]) |-> spelling[1][i].units])

\* Each high surrogate is followed by a low one, which follows nothing else.
WellFormed(units) ==
    /\ \A i \in 1..Len(units) : units[i] \in High => i < Len(units) /\ units[i + 1] \in Low
    /\ \A i \in 1..Len(units) : units[i] \in Low => i > 1 /\ units[i - 1] \in High

\* A spelling is refused if and only if it is not closed, one of its pieces means
\* nothing or its surrogates do not pair up, in whichever pieces the halves of a
\* pair are; otherwise the string is what the pieces mean, so that two spellings
\* of one string cannot have two hashes (canonical.rs:16-18, 24-25).
ReadsTheMeaning ==
    (first = <<>> /\ pc \in {"parsed", "failed"}) =>
        LET sound == /\ \A i \in 1..Len(spelling[1]) : spelling[1][i].units # <<>>
                     /\ spelling[2] # <<>> /\ spelling[2][1] = Quote
                     /\ WellFormed(Meaning)
        IN  /\ pc = "parsed" <=> sound
            /\ pc = "parsed" => Utf16(out) = Meaning

\* The canonical form of a string is parsed, to the same string, and is its own
\* canonical form, without a control character in it (canonical.rs:40-42).
CanonicalIsStable ==
    first # <<>> =>
        /\ pc # "failed"
        /\ \A i \in 1..Len(chars) : chars[i] > 31
        /\ pc = "parsed" => /\ <<out>> = first
                            /\ WriteString(out) = chars
                            /\ pos = Len(chars) + 1
=============================================================================

----------------------------- MODULE JsonNumber -----------------------------
(***************************************************************************)
(* Numbers in the canonicalizer: parse_number one part of the grammar at a    *)
(* time, write_number, and parse_number again on what was written.  A number    *)
(* that a caller has built by hand goes to write_number as it is.               *)
(*                                                                         *)
(* A double is its sign, its shortest decimal digits d1d2... and the position   *)
(* of the point, for 0.d1d2... * 10^point.  The inputs have few enough digits   *)
(* that a double keeps them all; what is left of its width is the range of the  *)
(* point.                                                                  *)
(***************************************************************************)
EXTENDS Integers, SequencesExt

CONSTANTS
    Characters, \* of texts: one-character strings
    Texts,      \* the inputs: sequences of characters
    MaxPoint,   \* beyond it a decimal overflows to infinity (309 for an f64)
    LowPoint    \* below -LowPoint it underflows to zero (323 for an f64)

VARIABLES
    chars,  \* Parser: the input
    pos,    \* Parser: the next character
    pc,     \* the part of the grammar parse_number is at, or "built": not parsed
    number, \* the double it returned, or that was built
    first   \* history: the double whose canonical form is being parsed

vars == <<chars, pos, pc, number, first>>

Numerals == <<"0", "1", "2", "3", "4", "5", "6", "7", "8", "9">>
Digit == ToSet(Numerals)
NonzeroDigit == Digit \ {"0"}

\* "end" stands for no character, and write_number's exponents have three digits.
ASSUME JsonNumberAssumption ==
    /\ Digit \cup {"-", "+", ".", "e"} \subseteq Characters /\ "end" \notin Characters
    /\ Texts \subseteq Seq(Characters)
    /\ MaxPoint \in Nat /\ LowPoint \in Nat /\ MaxPoint < 1000 /\ LowPoint < 999

Point == (-LowPoint)..MaxPoint
Zero(negative) == [negative |-> negative, digits |-> <<>>, point |-> 0]
Infinity == [negative |-> FALSE, digits |-> <<"inf">>, point |-> 0]
NotANumber == [negative |-> FALSE, digits |-> <<"nan">>, point |-> 0]
NonFinite == {Infinity, [Infinity EXCEPT !.negative = TRUE], NotANumber}
IsFinite(x) == x \notin NonFinite
NoNumber == [negative |-> FALSE, digits |-> <<"none">>, point |-> 0]

TypeOK ==
    /\ pos \in 1..(Len(chars) + 1)
    /\ pc \in {"int", "fraction", "exponent", "convert", "parsed", "failed", "built", "refused"}
    /\ number.negative \in BOOLEAN
    /\ number = NoNumber \/ number.digits \in Seq(Digit)
         \/ (number \in NonFinite /\ pc \in {"built", "refused"})
    /\ number.point \in Point

-----------------------------------------------------------------------------
(* The grammar of RFC 8259 and the double of a token: what `str::parse` of the *)
(* standard library makes of it.                                           *)

AreDigits(s) == s # <<>> /\ ToSet(s) \subseteq Digit

\* The position of the first character of s in S, after the last if there is none.
PositionOf(s, S) == IF ToSet(s) \cap S = {} THEN Len(s) + 1
                    ELSE SelectInSeq(s, LAMBDA c : c \in S)

Parts(s) ==
    LET e == PositionOf(s, {"e", "E"})
        f == PositionOf(SubSeq(s, 1, e - 1), {"."})
        a == IF s # <<>> /\ s[1] = "-" THEN 2 ELSE 1
        x == IF e < Len(s) /\ s[e + 1] \in {"+", "-"} THEN e + 2 ELSE e + 1
    IN  [negative |-> a = 2,
         int |-> SubSeq(s, a, f - 1),
         pointed |-> f < e, fraction |-> SubSeq(s, f + 1, e - 1),
         scaled |-> e <= Len(s), down |-> x = e + 2 /\ s[e + 1] = "-",
         exponent |-> SubSeq(s, x, Len(s))]

IsNumber(s) ==
    LET p == Parts(s) IN
    /\ AreDigits(p.int) /\ (p.int[1] = "0" => Len(p.int) = 1)
    /\ p.pointed => AreDigits(p.fraction)
    /\ p.scaled => AreDigits(p.exponent)

ValueOf(d) == SelectInSeq(Numerals, LAMBDA c : c = d) - 1

NatOf(s) ==
    LET upTo[i \in 0..Len(s)] == IF i = 0 THEN 0 ELSE 10 * upTo[i - 1] + ValueOf(s[i])
    IN  upTo[Len(s)]

F64(s) ==
    LET p == Parts(s)
        all == p.int \o p.fraction
        lead == PositionOf(all, NonzeroDigit) - 1
        last == SelectLastInSeq(all, LAMBDA c : c \in NonzeroDigit)
        exponent == IF p.down THEN -NatOf(p.exponent) ELSE NatOf(p.exponent)
        point == Len(p.int) - lead + exponent
    IN  IF last = 0 \/ point < -LowPoint THEN Zero(p.negative)
        ELSE IF point > MaxPoint THEN Infinity
        ELSE [negative |-> p.negative, digits |-> SubSeq(all, lead + 1, last), point |-> point]

-----------------------------------------------------------------------------
(* parse_number. *)

At(p) == IF p \in 1..Len(chars) THEN chars[p] ELSE "end"

\* The first position from p on without a digit.
DigitsEnd(p) ==
    CHOOSE q \in p..(Len(chars) + 1) :
        At(q) \notin Digit /\ \A i \in p..(q - 1) : At(i) \in Digit

Goto(p, next) ==
    /\ pos' = p
    /\ pc' = next
    /\ UNCHANGED <<chars, number, first>>

Fail == Goto(pos, "failed")

\* Mutant of Digits: any character does for the first digit.
Digits_AnyFirst(p, next) == Goto(IF DigitsEnd(p) = p THEN p + 1 ELSE DigitsEnd(p), next)

\* One digit or more from p on.
Digits(p, next) == IF DigitsEnd(p) = p THEN Fail ELSE Goto(DigitsEnd(p), next)

IntegerPart ==
    /\ pc = "int"
    /\ LET p == IF At(pos) = "-" THEN pos + 1 ELSE pos IN
       CASE At(p) = "0" -> Goto(p + 1, "fraction")
         [] At(p) \in NonzeroDigit -> Goto(DigitsEnd(p), "fraction")
         [] OTHER -> Fail

Fraction ==
    /\ pc = "fraction"
    /\ IF At(pos) = "." THEN Digits(pos + 1, "exponent") ELSE Goto(pos, "exponent")

Exponent ==
    /\ pc = "exponent"
    /\ IF At(pos) \in {"e", "E"}
       THEN Digits(IF At(pos + 1) \in {"+", "-"} THEN pos + 2 ELSE pos + 1, "convert")
       ELSE Goto(pos, "convert")

Token == SubSeq(chars, 1, pos - 1)

\* Mutant of OutOfDomain: an underflow is a zero.
OutOfDomain_Underflow(token) == F64(token) = Infinity

\* An overflow, or zero out of a token with a digit that is not zero.
OutOfDomain(token) ==
    \/ F64(token) = Infinity
    \/ F64(token).digits = <<>> /\ ToSet(token) \cap NonzeroDigit # {}

Convert ==
    /\ pc = "convert"
    /\ IF OutOfDomain(Token)
       THEN pc' = "failed" /\ UNCHANGED number
       ELSE pc' = "parsed" /\ number' = F64(Token)
    /\ UNCHANGED <<chars, pos, first>>

-----------------------------------------------------------------------------
(* write_number. *)

Zeros(n) == [i \in 1..n |-> "0"]

\* The decimal numeral of a natural number below 1000.
NumeralOf(n) ==
    LET d(k) == Numerals[k + 1] IN
    IF n < 10 THEN <<d(n)>>
    ELSE IF n < 100 THEN <<d(n \div 10), d(n % 10)>>
    ELSE <<d(n \div 100), d((n \div 10) % 10), d(n % 10)>>

\* Mutant of PositionalLimit: one digit less.
PositionalLimit_OffByOne == 20

\* The most digits an integer is written with.
PositionalLimit == 21

\* The digits of a double with its point at n, by Number::toString.
Layout(digits, n) ==
    LET k == Len(digits) IN
    CASE k <= n /\ n <= PositionalLimit -> digits \o Zeros(n - k)
      [] 0 < n /\ n < k /\ n <= PositionalLimit -> SubSeq(digits, 1, n) \o <<".">> \o SubSeq(digits, n + 1, k)
      [] -6 < n /\ n <= 0 -> <<"0", ".">> \o Zeros(-n) \o digits
      [] OTHER -> SubSeq(digits, 1, 1)
                    \o (IF k = 1 THEN <<>> ELSE <<".">> \o Tail(digits))
                    \o <<"e">>
                    \o (IF n >= 1 THEN <<"+">> \o NumeralOf(n - 1) ELSE <<"-">> \o NumeralOf(1 - n))

\* Mutant of WriteNumber: zero keeps its sign.
WriteNumber_SignedZero(x) ==
    (IF x.negative THEN <<"-">> ELSE <<>>)
        \o (IF x.digits = <<>> THEN <<"0">> ELSE Layout(x.digits, x.point))

Bad == <<>>

\* A zero of either sign is "0"; what is not finite is not written.
WriteNumber(x) ==
    IF ~IsFinite(x) THEN Bad
    ELSE IF x.digits = <<>> THEN <<"0">>
    ELSE (IF x.negative THEN <<"-">> ELSE <<>>) \o Layout(x.digits, x.point)

Unwritten == pc \in {"parsed", "built"} /\ first = NoNumber

\* The number is written, and what was written is parsed.
Rewrite ==
    /\ Unwritten
    /\ WriteNumber(number) # Bad
    /\ chars' = WriteNumber(number)
    /\ pos' = 1
    /\ pc' = "int"
    /\ first' = number
    /\ number' = NoNumber

\* The writer returns an error.
Refuse ==
    /\ Unwritten
    /\ WriteNumber(number) = Bad
    /\ pc' = "refused"
    /\ UNCHANGED <<chars, pos, number, first>>

-----------------------------------------------------------------------------
ParseInit ==
    /\ chars \in Texts
    /\ pc = "int"
    /\ number = NoNumber

\* JcsValue::Number holds any double.
BuiltInit ==
    /\ chars = <<>>
    /\ pc = "built"
    /\ number \in NonFinite \cup {F64(t) : t \in {t \in Texts : IsNumber(t)}}

Init == (ParseInit \/ BuiltInit) /\ pos = 1 /\ first = NoNumber

Next == IntegerPart \/ Fraction \/ Exponent \/ Convert \/ Rewrite \/ Refuse

Spec == Init /\ [][Next]_vars

-----------------------------------------------------------------------------
(* Properties. *)

\* What follows a number in a JSON text ends it.
Terminated(p) == At(p) \in {"end", ",", "]", "}", " "}

\* Whether parse() takes the characters up to a terminator for a number.
Accepted == pc = "parsed" /\ Terminated(pos)

\* The token that a JSON reader sees: all characters up to a terminator.
Lexeme == SubSeq(chars, 1, PositionOf(chars, {",", "]", "}", " "}) - 1)

\* A number is accepted if and only if it has the form of one and a double keeps
\* its value, up to the comma that ends it: no leading zero, no bare sign, point
\* or exponent, no overflow and no underflow.  The exception is a zero with a
\* nonzero exponent, see ZeroIsAccepted (canonical.rs:18-23, 597-605).
NumbersAreExact ==
    pc \in {"parsed", "failed"} =>
        LET s == Lexeme
            p == Parts(s)
            significand == ToSet(p.int \o p.fraction)
        IN  /\ Accepted => IsNumber(s) /\ number = F64(s) /\ IsFinite(number)
            /\ Accepted /\ number.digits = <<>> => significand = {"0"}
            /\ (IsNumber(s) /\ significand # {"0"} /\ F64(s) # Infinity /\ F64(s).digits # <<>>)
                   => Accepted
            /\ (IsNumber(s) /\ significand = {"0"} /\ ~p.scaled) => Accepted

\* The canonical form of a number is parsed, to the same double, and is its own
\* canonical form; the sign of zero is the one thing it loses.  Only a number that no
\* text has is refused by the writer (canonical.rs:38-39, 264-265).
CanonicalIsStable ==
    /\ pc = "refused" => chars = <<>> /\ ~IsFinite(number)
    /\ first # NoNumber =>
         /\ pc # "failed"
         /\ pc = "parsed" =>
              /\ pos = Len(chars) + 1
              /\ number = IF first.digits = <<>> THEN Zero(FALSE) ELSE first
              /\ WriteNumber(number) = chars

\* The canonical form is the one ECMAScript prints: without an exponent from
\* 1e-6 up to 1e21, with a signed one outside, and no digit that could be left
\* out (canonical.rs:258-261, RFC 8785 section 3.2.2.3).
EcmaScriptForm ==
    (first # NoNumber /\ first.digits # <<>>) =>
        LET p == Parts(chars) IN
        /\ p.scaled <=> first.point \notin -5..21
        /\ p.scaled => /\ Len(p.int) = 1 /\ p.int # <<"0">>
                       /\ chars[PositionOf(chars, {"e"}) + 1] \in {"+", "-"}
                       /\ p.exponent[1] # "0"
        /\ p.pointed => Last(p.fraction) # "0"

\* The token of a number that is zero is accepted whatever its exponent: only a
\* nonzero digit of the significand makes it an underflow (canonical.rs:603-605).
ZeroIsAccepted ==
    LET p == Parts(Lexeme) IN
    (pc = "failed" /\ IsNumber(Lexeme)) => ToSet(p.int \o p.fraction) # {"0"}
=============================================================================

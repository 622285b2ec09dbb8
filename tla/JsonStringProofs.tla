-------------------------- MODULE JsonStringProofs --------------------------
(***************************************************************************)
(* Proofs about JsonString, for every spelling and every string: parse_string   *)
(* reads what a spelling means and refuses those that mean nothing, and what     *)
(* write_string writes is read back.                                        *)
(***************************************************************************)
EXTENDS JsonString, Utf16Proofs

-----------------------------------------------------------------------------
(* Characters and escapes. *)

\* What text holds nothing but scalar values.
LEMMA TextIsScalars ==
    ASSUME NEW s \in Seq(Int), IsText(s)
    PROVE  s \in Seq(ScalarValue)
<1>1. \A i \in 1..Len(s) : s[i] \in ScalarValue
  BY DEF IsText, ScalarValue, IsScalar
<1> QED
  BY <1>1

\* A hexadecimal digit has a value below 16; the end of the input is none.
LEMMA DigitType ==
    ASSUME NEW c \in Int
    PROVE  HexDigit(c) \in -1..15 /\ (HexDigit(c) # -1 => c # -1)
BY DEF HexDigit

\* Four of them make a code unit.
LEMMA NumberType ==
    ASSUME NEW a \in Int, NEW b \in Int, NEW c \in Int, NEW d \in Int,
           HexNumber(a, b, c, d) # -1
    PROVE  /\ HexNumber(a, b, c, d) \in Nat /\ HexNumber(a, b, c, d) < 65536
           /\ d # -1
<1> DEFINE w == HexDigit(a)
           x == HexDigit(b)
           y == HexDigit(c)
           z == HexDigit(d)
<1>1. w \in -1..15 /\ x \in -1..15 /\ y \in -1..15 /\ z \in -1..15 /\ (z # -1 => d # -1)
  BY DigitType
<1>2. HexNumber(a, b, c, d) = IF -1 \in {w, x, y, z} THEN -1
                              ELSE 4096 * w + 256 * x + 16 * y + z
  BY DEF HexNumber
<1> HIDE DEF w, x, y, z
<1> QED
  BY <1>1, <1>2

\* Of which none may be missing.
LEMMA NoDigit ==
    ASSUME NEW a, NEW b, NEW c, NEW d, NEW x \in {a, b, c, d}, HexDigit(x) = -1
    PROVE  HexNumber(a, b, c, d) = -1
<1>1. -1 \in {HexDigit(a), HexDigit(b), HexDigit(c), HexDigit(d)}
  OBVIOUS
<1> QED
  BY <1>1 DEF HexNumber

\* Where the input has no character, At gives none of a scalar value.
LEMMA AtType ==
    ASSUME chars \in Seq(ScalarValue), NEW p \in Int
    PROVE  /\ At(p) \in ScalarValue \cup {-1} /\ At(p) \in Int
           /\ At(p) # -1 <=> p \in 1..Len(chars)
           /\ p \in 1..Len(chars) => At(p) = chars[p]
<1>1. CASE p \in 1..Len(chars)
  <2>1. At(p) = chars[p] /\ chars[p] \in ScalarValue
    BY <1>1 DEF At
  <2>2. At(p) \in Nat
    BY <2>1 DEF ScalarValue
  <2> QED
    BY <1>1, <2>1, <2>2
<1>2. CASE p \notin 1..Len(chars)
  BY <1>2 DEF At
<1> QED
  BY <1>1, <1>2

\* The escape of a code unit has four characters of the input.
LEMMA Hex4Type ==
    ASSUME chars \in Seq(ScalarValue), NEW p \in Nat \ {0}, Hex4(p) # -1
    PROVE  Hex4(p) \in Nat /\ Hex4(p) < 65536 /\ p + 3 \in 1..Len(chars)
<1>1. At(p) \in Int /\ At(p + 1) \in Int /\ At(p + 2) \in Int /\ At(p + 3) \in Int
  BY AtType
<1>2. At(p + 3) # -1 => p + 3 \in 1..Len(chars)
  BY AtType
<1>3. Hex4(p) \in Nat /\ Hex4(p) < 65536 /\ At(p + 3) # -1
  BY <1>1, NumberType DEF Hex4
<1> QED
  BY <1>2, <1>3

\* The two halves of a pair make a scalar value.
LEMMA CombineType ==
    ASSUME NEW h \in High, NEW l \in Low
    PROVE  /\ Combine(h, l) \in ScalarValue
           /\ UnitsOf(Combine(h, l)) = <<h, l>>
<1> DEFINE x == h - 55296
           y == l - 56320
<1>1. /\ h \in Int /\ x \in Nat /\ x < 1024
      /\ l \in Int /\ y \in Nat /\ y < 1024
  BY HighIs, LowIs
<1> HIDE DEF x, y
<1>2. ASSUME NEW c, c = 65536 + x * 1024 + y
      PROVE  /\ c \in Nat /\ 65536 <= c /\ c <= 1114111
             /\ (c - 65536) \div 1024 = x
             /\ (c - 65536) % 1024 = y
  <2>1. c \in Nat /\ 65536 <= c /\ c <= 1114111 /\ c - 65536 = x * 1024 + y
    BY <1>1, <1>2
  <2>2. (x * 1024 + y) \div 1024 = x /\ (x * 1024 + y) % 1024 = y
    BY <1>1
  <2> QED
    BY <2>1, <2>2
<1> DEFINE c == Combine(h, l)
<1>3. c = 65536 + x * 1024 + y
  BY DEF Combine, x, y
<1> HIDE DEF c
<1>4. /\ c \in Nat /\ 65536 <= c /\ c <= 1114111
      /\ (c - 65536) \div 1024 = x
      /\ (c - 65536) % 1024 = y
  BY <1>2, <1>3
<1>5. c \in ScalarValue
  BY <1>4, ScalarIs
<1>6. UnitsOf(c) = <<h, l>>
  <2>1. ~(c < 65536) /\ 55296 + x = h /\ 56320 + y = l
    BY <1>1, <1>4 DEF x, y
  <2> QED
    BY <1>4, <2>1 DEF UnitsOf
<1> QED
  BY <1>5, <1>6 DEF c

-----------------------------------------------------------------------------
(* What is written. *)

\* What write_string writes has no control character in it.
Shown == {c \in ScalarValue : c > 31}

\* The short forms are letters, of which the short escapes give the characters back.
LEMMA FormsAreEscapes ==
    ASSUME NEW c \in DOMAIN ShortForms
    PROVE  /\ ShortForms[c] \in DOMAIN ShortEscapes /\ ShortEscapes[ShortForms[c]] = c
           /\ ShortForms[c] \in 34..117
<1>1. c \in {8, 9, 10, 12, 13, 34, 92}
  BY DEF ShortForms
<1>2. /\ ShortForms[8] = 98 /\ ShortForms[9] = 116 /\ ShortForms[10] = 110
      /\ ShortForms[12] = 102 /\ ShortForms[13] = 114 /\ ShortForms[34] = 34
      /\ ShortForms[92] = 92
  BY DEF ShortForms
<1>3. /\ ShortEscapes[98] = 8 /\ ShortEscapes[116] = 9 /\ ShortEscapes[110] = 10
      /\ ShortEscapes[102] = 12 /\ ShortEscapes[114] = 13 /\ ShortEscapes[34] = 34
      /\ ShortEscapes[92] = 92
      /\ DOMAIN ShortEscapes = {34, 47, 92, 98, 102, 110, 114, 116}
  BY DEF ShortEscapes
<1> QED
  BY <1>1, <1>2, <1>3

\* The short escapes are of characters below the surrogates.
LEMMA EscapesType ==
    ASSUME NEW e \in DOMAIN ShortEscapes
    PROVE  ShortEscapes[e] \in 8..92 /\ e \in 34..116 /\ e # -1 /\ ShortEscapes[e] \in ScalarValue
<1>1. e \in {34, 47, 92, 98, 102, 110, 114, 116}
  BY DEF ShortEscapes
<1>2. ShortEscapes[e] \in {8, 12, 10, 13, 9, 34, 47, 92}
  BY <1>1 DEF ShortEscapes
<1>3. ShortEscapes[e] \in Nat /\ ShortEscapes[e] < 55296
  BY <1>2
<1> QED
  BY <1>1, <1>2, <1>3, ScalarIs

\* The escape of a code unit is no short one, and neither is the end of the input.
LEMMA NoShortEscape == LetterU \notin DOMAIN ShortEscapes /\ -1 \notin DOMAIN ShortEscapes
BY EscapesType DEF LetterU

\* write_string writes characters that may stand in a string.
LEMMA WrittenType ==
    ASSUME NEW c \in ScalarValue
    PROVE  Written(c) \in Seq(Shown)
<1>1. c \in Nat
  BY DEF ScalarValue
<1>2. ASSUME NEW x \in Nat, 31 < x, x < 128 PROVE x \in Shown
  BY <1>2, ScalarIs DEF Shown
<1>3. CASE c \in DOMAIN ShortForms
  <2>1. Backslash \in Shown /\ ShortForms[c] \in Shown
    BY <1>2, <1>3, FormsAreEscapes DEF Backslash
  <2> QED
    BY <1>3, <2>1 DEF Written
<1>4. CASE c \notin DOMAIN ShortForms /\ c <= 31
  <2>1. c \div 16 \in 0..15 /\ c % 16 \in 0..15
    BY <1>1, <1>4
  <2>2. ASSUME NEW n \in 0..15 PROVE LowerHex(n) \in Nat /\ 31 < LowerHex(n) /\ LowerHex(n) < 128
    BY DEF LowerHex
  <2>3. LowerHex(c \div 16) \in Shown /\ LowerHex(c % 16) \in Shown
    BY <1>2, <2>1, <2>2
  <2>4. Backslash \in Shown /\ LetterU \in Shown /\ 48 \in Shown
    BY <1>2 DEF Backslash, LetterU
  <2> QED
    BY <1>4, <2>3, <2>4 DEF Written
<1>5. CASE c \notin DOMAIN ShortForms /\ c > 31
  <2>1. Written(c) = <<c>> /\ c \in Shown
    BY <1>1, <1>5 DEF Written, Shown
  <2> QED
    BY <2>1
<1> QED
  BY <1>1, <1>3, <1>4, <1>5

\* What is written of each character of s.
Writings(s) == [i \in 1..Len(s) |-> Written(s[i])]

\* And what is written of s: the same between quotes.
LEMMA WriteStringIs ==
    ASSUME NEW s \in Seq(ScalarValue)
    PROVE  /\ Writings(s) \in Seq(Seq(Shown)) /\ Len(Writings(s)) = Len(s)
           /\ \A i \in 1..Len(s) : Writings(s)[i] = Written(s[i])
           /\ <<Quote>> \in Seq(Shown)
           /\ WriteString(s) = <<Quote>> \o FlattenSeq(Writings(s)) \o <<Quote>>
           /\ WriteString(s) \in Seq(Shown) /\ WriteString(s) \in Seq(ScalarValue)
<1>1. \A i \in 1..Len(s) : Written(s[i]) \in Seq(Shown)
  BY WrittenType
<1>2. /\ Writings(s) \in Seq(Seq(Shown)) /\ Len(Writings(s)) = Len(s)
      /\ \A i \in 1..Len(s) : Writings(s)[i] = Written(s[i])
  BY <1>1 DEF Writings
<1>3. <<Quote>> \in Seq(Shown)
  BY ScalarIs DEF Quote, Shown
<1>4. WriteString(s) = <<Quote>> \o FlattenSeq(Writings(s)) \o <<Quote>>
  BY DEF WriteString, Writings
<1>5. WriteString(s) \in Seq(Shown)
  BY <1>2, <1>3, <1>4, JoinedBetween
<1>6. WriteString(s) \in Seq(ScalarValue)
  <2>1. ASSUME NEW x \in Seq(Shown) PROVE x \in Seq(ScalarValue)
    BY DEF Shown
  <2> QED
    BY <1>5, <2>1
<1> QED
  BY <1>2, <1>3, <1>4, <1>5, <1>6

\* parse_string takes a scalar value from the input and goes forward.
LEMMA UnescapedType ==
    ASSUME chars \in Seq(ScalarValue), NEW p \in 1..Len(chars) + 1, Unescaped(p) # Bad
    PROVE  /\ Unescaped(p)[1] \in ScalarValue
           /\ Unescaped(p)[2] \in p+1..Len(chars) + 1
<1>1. /\ At(p) \in Int /\ (At(p) # -1 <=> p \in 1..Len(chars)) /\ At(p) \in ScalarValue \cup {-1}
      /\ At(p + 1) \in Int /\ (At(p + 1) # -1 <=> p + 1 \in 1..Len(chars))
  <2>1. p \in Int /\ p + 1 \in Int
    OBVIOUS
  <2> QED
    BY <2>1, AtType
<1>2. CASE At(p) # Backslash
  <2>1. At(p) > 31 /\ Unescaped(p) = <<At(p), p + 1>>
    BY <1>2 DEF Unescaped
  <2> QED
    BY <1>1, <2>1
<1>3. CASE At(p) = Backslash /\ At(p + 1) \in DOMAIN ShortEscapes
  <2> DEFINE e == At(p + 1)
             c == ShortEscapes[e]
  <2>1. Unescaped(p) = <<c, p + 2>> /\ e \in DOMAIN ShortEscapes
    BY <1>3 DEF Unescaped
  <2>2. e # -1 <=> p + 1 \in 1..Len(chars)
    BY <1>1
  <2> HIDE DEF e
  <2>3. c \in ScalarValue /\ e # -1
    BY <2>1, EscapesType
  <2>4. p + 2 \in p+1..Len(chars) + 1
    BY <2>2, <2>3
  <2> HIDE DEF c
  <2> QED
    BY <2>1, <2>3, <2>4
<1>4. CASE At(p) = Backslash /\ At(p + 1) \notin DOMAIN ShortEscapes
  <2> DEFINE n == Hex4(p + 2)
             m == Hex4(p + 8)
  <2>1. Unescaped(p) = UnicodeEscape(p + 2)
    BY <1>4 DEF Unescaped
  <2>2. (p + 2) + 4 = p + 6 /\ (p + 2) + 5 = p + 7 /\ (p + 2) + 6 = p + 8 /\ (p + 2) + 10 = p + 12
    OBVIOUS
  <2>3. CASE n \in High
    <3>1. m \in Low /\ Unescaped(p) = <<Combine(n, m), p + 12>>
      BY <2>1, <2>2, <2>3 DEF UnicodeEscape
    <3>2. m # -1
      BY <3>1, LowIs
    <3>3. (p + 8) + 3 \in 1..Len(chars)
      BY <3>2, Hex4Type
    <3>4. Combine(n, m) \in ScalarValue
      BY <2>3, <3>1, CombineType
    <3> QED
      BY <3>1, <3>3, <3>4
  <2>4. CASE n \notin High
    <3>1. n \notin Low /\ n # -1 /\ Unescaped(p) = <<n, p + 6>>
      BY <2>1, <2>2, <2>4 DEF UnicodeEscape
    <3>2. n \in Nat /\ n < 65536 /\ (p + 2) + 3 \in 1..Len(chars)
      BY <3>1, Hex4Type
    <3>3. n \in ScalarValue
      BY <2>4, <3>1, <3>2 DEF ScalarValue, IsScalar
    <3> QED
      BY <3>1, <3>2, <3>3
  <2> QED
    BY <2>3, <2>4
<1> QED
  BY <1>2, <1>3, <1>4

-----------------------------------------------------------------------------
(* Types. *)

Texts(ps) == [i \in 1..Len(ps) |-> ps[i].text]
Units(ps) == [i \in 1..Len(ps) |-> ps[i].units]

\* The pieces of a spelling are texts of scalar values.
LEMMA TextsType ==
    ASSUME NEW ps \in Seq(Pieces)
    PROVE  /\ Texts(ps) \in Seq(Seq(ScalarValue)) /\ Len(Texts(ps)) = Len(ps)
           /\ \A i \in 1..Len(ps) : Texts(ps)[i] = ps[i].text
           /\ TextOf(ps) = FlattenSeq(Texts(ps))
<1>1. \A i \in 1..Len(ps) : ps[i].text \in Seq(ScalarValue)
  <2>1. \A i \in 1..Len(ps) : ps[i] \in Pieces
    OBVIOUS
  <2>2. ASSUME NEW p \in Pieces PROVE p.text \in Seq(ScalarValue)
    BY SpellingAssumption, TextIsScalars
  <2> QED
    BY <2>1, <2>2
<1> QED
  BY <1>1 DEF Texts, TextOf

LEMMA EndingType ==
    ASSUME NEW e \in Endings
    PROVE  e \in Seq(ScalarValue) /\ IsEnding(e)
BY SpellingAssumption, TextIsScalars

\* The text and what was read of it are scalar values, and the history is a spelling.
TextInv ==
    /\ chars \in Seq(ScalarValue) /\ out \in Seq(ScalarValue)
    /\ pos \in 1..Len(chars) + 1
    /\ pc \in {"quote", "body", "parsed", "failed"}
    /\ first = <<>> \/ \E s \in Seq(ScalarValue) : first = <<s>>
    /\ \E ps \in Seq(Pieces), e \in Endings : spelling = <<ps, e>>

LEMMA QuoteType == <<Quote>> \in Seq(ScalarValue)
<1>1. Quote \in ScalarValue
  BY ScalarIs DEF Quote
<1> QED
  BY <1>1

LEMMA TextInit == Init => TextInv
<1> SUFFICES ASSUME Init PROVE TextInv
  OBVIOUS
<1>1. PICK ps \in Seq(Pieces), e \in Endings : spelling = <<ps, e>>
  <2>1. BoundedSeq(Pieces, MaxPieces) \subseteq Seq(Pieces)
    BY SpellingAssumption DEF BoundedSeq, SeqOf
  <2> QED
    BY <2>1 DEF Init
<1>2. chars = <<Quote>> \o FlattenSeq(Texts(ps)) \o e
  BY <1>1, TextsType DEF Init
<1>3. chars \in Seq(ScalarValue)
  BY <1>2, TextsType, EndingType, QuoteType, JoinedBetween
<1>4. pos \in 1..Len(chars) + 1 /\ out \in Seq(ScalarValue)
  BY <1>3 DEF Init
<1> QED
  BY <1>1, <1>3, <1>4 DEF Init, TextInv

LEMMA TextNext == TextInv /\ [Next]_vars => TextInv'
<1> SUFFICES ASSUME TextInv, [Next]_vars PROVE TextInv'
  OBVIOUS
<1> USE DEF TextInv
<1>1. CASE Fail
  BY <1>1 DEF Fail
<1>2. CASE OpenQuote
  <2>1. CASE At(pos) = Quote
    <3>1. pos \in 1..Len(chars)
      BY <2>1 DEF At, Quote
    <3> QED
      BY <1>2, <2>1, <3>1 DEF OpenQuote
  <2>2. CASE At(pos) # Quote
    BY <1>1, <1>2, <2>2 DEF OpenQuote
  <2> QED
    BY <2>1, <2>2
<1>3. CASE Character
  <2>1. CASE Unescaped(pos) = Bad
    BY <1>1, <1>3, <2>1 DEF Character
  <2>2. CASE Unescaped(pos) # Bad
    <3> DEFINE r == Unescaped(pos)
    <3>1. r[1] \in ScalarValue /\ r[2] \in pos+1..Len(chars) + 1
      BY <2>2, UnescapedType
    <3>2. /\ out' = Append(out, r[1]) /\ pos' = r[2]
          /\ UNCHANGED <<chars, pc, spelling, first>>
      BY <1>3, <2>2 DEF Character
    <3> HIDE DEF r
    <3>3. out' \in Seq(ScalarValue) /\ pos' \in 1..Len(chars) + 1
      BY <3>1, <3>2
    <3> QED
      BY <3>2, <3>3
  <2> QED
    BY <2>1, <2>2
<1>4. CASE CloseQuote
  <2>1. pos \in 1..Len(chars)
    BY <1>4 DEF CloseQuote, At, Quote
  <2> QED
    BY <1>4, <2>1 DEF CloseQuote
<1>5. CASE Rewrite
  <2>1. WriteString(out) \in Seq(ScalarValue)
    BY WriteStringIs
  <2> QED
    BY <1>5, <2>1 DEF Rewrite
<1>6. CASE UNCHANGED vars
  BY <1>6 DEF vars
<1> QED
  BY <1>2, <1>3, <1>4, <1>5, <1>6 DEF Next

LEMMA TextHolds == Spec => []TextInv
BY TextInit, TextNext, PTL DEF Spec

\* TypeOK, with characters that are scalar values and no others: no half of a pair
\* gets into a string, whatever the spelling (canonical.rs:546-585).
THEOREM StringTypes == Spec => []TypeOK
<1>1. TextInv => TypeOK
  BY DEF TextInv, TypeOK, ScalarValue
<1> QED
  BY <1>1, TextHolds, PTL

-----------------------------------------------------------------------------
(* What was written is read back. *)

\* What parse_string does where x stands: each character is the one of x.
LEMMA AtStands ==
    ASSUME NEW x, NEW p \in Nat, NEW j \in 1..Len(x), Stands(x, chars, p)
    PROVE  At(p + j) = x[j] /\ p + j \in 1..Len(chars)
BY DEF Stands, At

\* The hexadecimal digits of a number below 16.
LEMMA LowerHexIs == \A n \in 0..15 : HexDigit(LowerHex(n)) = n
BY DEF HexDigit, LowerHex

\* A number of which two hexadecimal digits are written.
LEMMA Sixteenths ==
    ASSUME NEW x \in Nat, x < 32
    PROVE  \E q, r \in 0..15 : x \div 16 = q /\ x % 16 = r /\ x = 16 * q + r
<1>1. CASE x < 16
  <2>1. x \div 16 = 0 /\ x % 16 = x /\ x \in 0..15
    BY <1>1
  <2> QED
    BY <2>1
<1>2. CASE ~(x < 16)
  <2>1. x \div 16 = 1 /\ x % 16 = x - 16 /\ x - 16 \in 0..15
    BY <1>2
  <2>2. x = 16 * 1 + (x - 16) /\ 1 \in 0..15
    OBVIOUS
  <2> QED
    BY <2>1, <2>2
<1> QED
  BY <1>1, <1>2

\* A character that is written is read back, and is no closing quote.
LEMMA WrittenIsRead ==
    ASSUME NEW c \in ScalarValue, NEW p \in Nat, Stands(Written(c), chars, p)
    PROVE  /\ At(p + 1) # Quote
           /\ Unescaped(p + 1) = <<c, p + 1 + Len(Written(c))>>
           /\ p + Len(Written(c)) \in 1..Len(chars)
<1>1. c \in Nat
  BY DEF ScalarValue
<1>2. \A j \in 1..Len(Written(c)) : At(p + j) = Written(c)[j] /\ p + j \in 1..Len(chars)
  BY AtStands
<1>3. CASE c \in DOMAIN ShortForms
  <2> DEFINE e == ShortForms[c]
  <2>1. e \in DOMAIN ShortEscapes /\ ShortEscapes[e] = c
    BY <1>3, FormsAreEscapes
  <2>2. Written(c) = <<Backslash, e>>
    BY <1>3 DEF Written
  <2> HIDE DEF e
  <2>3. Len(Written(c)) = 2 /\ At(p + 1) = Backslash /\ At(p + 2) = e /\ p + 2 \in 1..Len(chars)
    BY <1>2, <2>2
  <2>4. (p + 1) + 1 = p + 2 /\ (p + 1) + 2 = p + 1 + 2
    OBVIOUS
  <2>5. Unescaped(p + 1) = <<c, p + 1 + 2>>
    BY <2>1, <2>3, <2>4 DEF Unescaped
  <2> QED
    BY <2>3, <2>5 DEF Backslash, Quote
<1>4. CASE c \notin DOMAIN ShortForms /\ c <= 31
  <2> DEFINE a == LowerHex(c \div 16)
             b == LowerHex(c % 16)
  <2>1. Written(c) = <<Backslash, LetterU, 48, 48, a, b>>
    BY <1>4 DEF Written
  <2>2. PICK q \in 0..15, r \in 0..15 : c \div 16 = q /\ c % 16 = r /\ c = 16 * q + r
    <3>1. c \in Nat /\ c < 32
      BY <1>1, <1>4
    <3> QED
      BY <3>1, Sixteenths
  <2>3. HexDigit(a) = q /\ HexDigit(b) = r /\ HexDigit(48) = 0
    BY <2>2, LowerHexIs DEF HexDigit
  <2> HIDE DEF a, b
  <2>4. /\ Len(Written(c)) = 6 /\ At(p + 1) = Backslash /\ At(p + 2) = LetterU
        /\ At(p + 3) = 48 /\ At(p + 4) = 48 /\ At(p + 5) = a /\ At(p + 6) = b
        /\ p + 6 \in 1..Len(chars)
    BY <1>2, <2>1
  <2>5. /\ (p + 1) + 1 = p + 2 /\ (p + 1) + 2 = p + 3
        /\ (p + 3) + 1 = p + 4 /\ (p + 3) + 2 = p + 5 /\ (p + 3) + 3 = p + 6
        /\ (p + 3) + 4 = p + 1 + 6
    OBVIOUS
  <2>6. Hex4(p + 3) = c
    <3>1. Hex4(p + 3) = HexNumber(48, 48, a, b)
      BY <2>4, <2>5 DEF Hex4
    <3>2. HexNumber(48, 48, a, b) = IF -1 \in {0, 0, q, r} THEN -1
                                    ELSE 4096 * 0 + 256 * 0 + 16 * q + r
      BY <2>3 DEF HexNumber
    <3>3. HexNumber(48, 48, a, b) = c
      BY <2>2, <3>2
    <3> QED
      BY <3>1, <3>3
  <2>7. UnicodeEscape(p + 3) = <<c, p + 1 + 6>>
    <3>1. c \notin High /\ c \notin Low /\ c # -1
      BY <1>1, <1>4, HighIs, LowIs
    <3> QED
      BY <2>5, <2>6, <3>1 DEF UnicodeEscape
  <2>8. LetterU \notin DOMAIN ShortEscapes
    BY EscapesType DEF LetterU
  <2>9. Unescaped(p + 1) = <<c, p + 1 + 6>>
    BY <2>4, <2>5, <2>7, <2>8 DEF Unescaped
  <2> QED
    BY <2>4, <2>9 DEF Backslash, Quote
<1>5. CASE c \notin DOMAIN ShortForms /\ c > 31
  <2>1. Written(c) = <<c>>
    BY <1>1, <1>5 DEF Written
  <2>2. c # Quote /\ c # Backslash
    BY <1>5 DEF ShortForms, Quote, Backslash
  <2>3. Len(Written(c)) = 1 /\ At(p + 1) = c /\ p + 1 \in 1..Len(chars)
    BY <1>2, <2>1
  <2>4. Unescaped(p + 1) = <<c, p + 1 + 1>>
    BY <1>5, <2>2, <2>3 DEF Unescaped
  <2> QED
    BY <2>2, <2>3, <2>4
<1> QED
  BY <1>1, <1>3, <1>4, <1>5

\* While the canonical form of s is parsed, the string so far is a part of s, and what
\* was written of that part has been read.
\* The text is what was written of s, and what was read of it is a prefix of s.
Rereads(s) ==
    /\ chars = WriteString(s)
    /\ pc # "failed"
    /\ pc = "quote" => pos = 1 /\ out = <<>>
    /\ pc = "body" => \E k \in 0..Len(s) : /\ out = SubSeq(s, 1, k)
                                           /\ pos = 2 + Len(Joined(Writings(s), k))
    /\ pc = "parsed" => out = s /\ pos = Len(chars) + 1

\* In the second parse that is so of the string the first one returned.
StableInv == \A s \in Seq(ScalarValue) : first = <<s>> => Rereads(s)

\* Where the parts of what was written are.
LEMMA WritingsStand ==
    ASSUME NEW s \in Seq(ScalarValue), chars = WriteString(s)
    PROVE  /\ At(1) = Quote
           /\ Len(Joined(Writings(s), 0)) = 0
           /\ Len(Joined(Writings(s), Len(s))) \in Nat
           /\ At(2 + Len(Joined(Writings(s), Len(s)))) = Quote
           /\ Len(chars) = 2 + Len(Joined(Writings(s), Len(s)))
           /\ \A k \in 0..Len(s) - 1 :
                 LET p == 1 + Len(Joined(Writings(s), k))
                 IN  /\ p \in Nat
                     /\ Stands(Written(s[k + 1]), chars, p)
                     /\ 1 + Len(Joined(Writings(s), k + 1)) = p + Len(Written(s[k + 1]))
<1> DEFINE w == Writings(s)
           q == <<Quote>>
<1>1. /\ w \in Seq(Seq(Shown)) /\ Len(w) = Len(s)
      /\ \A i \in 1..Len(s) : w[i] = Written(s[i])
      /\ q \in Seq(Shown) /\ chars = q \o FlattenSeq(w) \o q
  BY WriteStringIs
<1>2. Len(q) = 1 /\ q[1] = Quote
  OBVIOUS
<1>3. Len(s) \in Nat
  OBVIOUS
<1> HIDE DEF w, q
<1>4. /\ Len(FlattenSeq(w)) \in Nat /\ Len(q) \in Nat /\ Stands(q, chars, 0)
  BY <1>1, JoinedBetween
<1>5. /\ Len(Joined(w, Len(w))) \in Nat
      /\ Len(chars) = Len(q) + Len(Joined(w, Len(w))) + Len(q)
      /\ Stands(q, chars, Len(q) + Len(Joined(w, Len(w))))
  <2>1. /\ Len(Joined(w, Len(w))) \in Nat
        /\ Len(q \o FlattenSeq(w) \o q) = Len(q) + Len(Joined(w, Len(w))) + Len(q)
        /\ Stands(q, q \o FlattenSeq(w) \o q, Len(q) + Len(Joined(w, Len(w))))
    BY <1>1, JoinedEnd, Zenon
  <2> QED
    BY <1>1, <2>1, Zenon
<1>6. Joined(w, 0) = <<>>
  BY <1>1, JoinedZero
<1>7. At(1) = Quote
  <2>1. 1 \in 1..Len(q) /\ 0 \in Nat /\ 0 + 1 = 1
    BY <1>2
  <2> QED
    BY <1>2, <1>4, <2>1, AtStands
<1>8. At(2 + Len(Joined(w, Len(s)))) = Quote /\ Len(chars) = 2 + Len(Joined(w, Len(s)))
  <2> DEFINE p == 1 + Len(Joined(w, Len(s)))
  <2>1. /\ p \in Nat /\ p + 1 = 2 + Len(Joined(w, Len(s)))
        /\ Stands(q, chars, p) /\ Len(chars) = p + 1
    BY <1>1, <1>2, <1>5
  <2> HIDE DEF p
  <2>2. 1 \in 1..Len(q)
    BY <1>2
  <2>3. At(p + 1) = q[1]
    BY <2>1, <2>2, AtStands
  <2> QED
    BY <1>2, <2>1, <2>3
<1>9. ASSUME NEW k \in 0..Len(s) - 1
      PROVE  LET p == 1 + Len(Joined(w, k))
             IN  /\ p \in Nat
                 /\ Stands(Written(s[k + 1]), chars, p)
                 /\ 1 + Len(Joined(w, k + 1)) = p + Len(Written(s[k + 1]))
  <2>1. k \in 0..Len(w) - 1 /\ k + 1 \in 1..Len(s)
    BY <1>1, <1>3
  <2>2. w[k + 1] = Written(s[k + 1])
    BY <1>1, <2>1
  <2>3. /\ w[k + 1] \in Seq(Shown) /\ Len(Joined(w, k)) \in Nat
        /\ Len(Joined(w, k + 1)) = Len(Joined(w, k)) + Len(w[k + 1])
        /\ Stands(w[k + 1], chars, Len(q) + Len(Joined(w, k)))
    BY <1>1, <2>1, JoinedAt
  <2>4. Len(w[k + 1]) \in Nat
    BY <2>3
  <2> DEFINE l == Len(Joined(w, k))
             m == Len(w[k + 1])
  <2>5. l \in Nat /\ m \in Nat /\ Len(Joined(w, k + 1)) = l + m
    BY <2>3, <2>4
  <2> HIDE DEF l, m
  <2>6. 1 + l \in Nat /\ 1 + Len(Joined(w, k + 1)) = 1 + l + m
    BY <2>5
  <2>7. Stands(w[k + 1], chars, 1 + l)
    BY <1>2, <2>3 DEF l
  <2> QED
    BY <2>2, <2>6, <2>7 DEF l, m
<1> QED
  BY <1>1, <1>5, <1>6, <1>7, <1>8, <1>9 DEF w

LEMMA StableOpening ==
    ASSUME TextInv, OpenQuote, NEW s \in Seq(ScalarValue), first = <<s>>, Rereads(s)
    PROVE  Rereads(s)'
<1>1. pos = 1 /\ out = <<>> /\ chars = WriteString(s)
  BY DEF OpenQuote, Rereads
<1>2. At(pos) = Quote /\ Len(Joined(Writings(s), 0)) = 0
  BY <1>1, WritingsStand
<1>3. pc' = "body" /\ pos' = pos + 1 /\ out' = out /\ chars' = chars
  BY <1>2 DEF OpenQuote
<1>4. 0 \in 0..Len(s) /\ out' = SubSeq(s, 1, 0) /\ pos' = 2 + Len(Joined(Writings(s), 0))
  BY <1>1, <1>2, <1>3
<1> QED
  BY <1>1, <1>3, <1>4 DEF Rereads

LEMMA StableReading ==
    ASSUME TextInv, Character, NEW s \in Seq(ScalarValue), first = <<s>>, Rereads(s)
    PROVE  Rereads(s)'
<1>1. chars = WriteString(s)
  BY DEF Rereads
<1>2. PICK k \in 0..Len(s) : out = SubSeq(s, 1, k) /\ pos = 2 + Len(Joined(Writings(s), k))
  BY DEF Character, Rereads
<1>3. k # Len(s)
  BY <1>1, <1>2, WritingsStand DEF Character
<1>4. k \in 0..Len(s) - 1 /\ k + 1 \in 1..Len(s) /\ k + 1 \in 0..Len(s)
  BY <1>2, <1>3
<1> DEFINE c == s[k + 1]
           p == 1 + Len(Joined(Writings(s), k))
<1>5. /\ p \in Nat /\ Stands(Written(c), chars, p) /\ c \in ScalarValue
      /\ 1 + Len(Joined(Writings(s), k + 1)) = p + Len(Written(c))
  BY <1>1, <1>4, WritingsStand
<1>6. pos = p + 1
  BY <1>2, <1>5
<1>7. Len(Joined(Writings(s), k + 1)) \in Nat /\ Len(Written(c)) \in Nat
  <2>1. Writings(s) \in Seq(Seq(Shown)) /\ Len(Writings(s)) = Len(s)
    BY WriteStringIs
  <2>2. Joined(Writings(s), k + 1) \in Seq(Shown)
    BY <1>4, <2>1, JoinedType
  <2>3. Written(c) \in Seq(Shown)
    BY <1>5, WrittenType
  <2> QED
    BY <2>2, <2>3
<1>8. out' = Append(out, c) /\ SubSeq(s, 1, k + 1) = Append(SubSeq(s, 1, k), c)
  <2>1. Unescaped(pos) = <<c, p + 1 + Len(Written(c))>>
    BY <1>5, <1>6, WrittenIsRead
  <2>2. out' = Append(out, c)
    BY <2>1 DEF Character, Bad
  <2>3. SubSeq(s, 1, k + 1) = Append(SubSeq(s, 1, k), c)
    BY <1>4
  <2> QED
    BY <2>2, <2>3
<1> HIDE DEF p, c
<1>9. Unescaped(pos) = <<c, p + 1 + Len(Written(c))>>
  BY <1>5, <1>6, WrittenIsRead
<1>10. /\ pos' = p + 1 + Len(Written(c)) /\ pc' = "body"
       /\ chars' = chars /\ first' = first
  BY <1>9 DEF Character, Bad
<1>11. pos' = 2 + Len(Joined(Writings(s), k + 1))
  BY <1>5, <1>7, <1>10
<1> QED
  BY <1>1, <1>2, <1>4, <1>8, <1>10, <1>11 DEF Rereads

LEMMA StableClosing ==
    ASSUME TextInv, CloseQuote, NEW s \in Seq(ScalarValue), first = <<s>>, Rereads(s)
    PROVE  Rereads(s)'
<1>1. chars = WriteString(s)
  BY DEF Rereads
<1>2. PICK k \in 0..Len(s) : out = SubSeq(s, 1, k) /\ pos = 2 + Len(Joined(Writings(s), k))
  BY DEF CloseQuote, Rereads
<1>3. k = Len(s)
  <2> SUFFICES ASSUME k # Len(s) PROVE FALSE
    OBVIOUS
  <2>1. k \in 0..Len(s) - 1 /\ k + 1 \in 1..Len(s)
    BY <1>2
  <2> DEFINE p == 1 + Len(Joined(Writings(s), k))
  <2>2. p \in Nat /\ Stands(Written(s[k + 1]), chars, p) /\ s[k + 1] \in ScalarValue
    BY <1>1, <2>1, WritingsStand
  <2>3. pos = p + 1
    BY <1>2, <2>2
  <2> HIDE DEF p
  <2>4. At(p + 1) # Quote
    BY <2>2, WrittenIsRead
  <2> QED
    BY <2>3, <2>4 DEF CloseQuote
<1>4. SubSeq(s, 1, Len(s)) = s
  OBVIOUS
<1>5. Len(chars) = pos /\ out = s
  BY <1>1, <1>2, <1>3, <1>4, WritingsStand
<1>6. pc' = "parsed" /\ pos' = pos + 1 /\ out' = out /\ chars' = chars
  BY DEF CloseQuote
<1> QED
  BY <1>1, <1>5, <1>6 DEF Rereads

LEMMA StableNext == TextInv /\ StableInv /\ [Next]_vars => StableInv'
<1> SUFFICES ASSUME TextInv, StableInv, [Next]_vars, NEW s \in Seq(ScalarValue), first' = <<s>>
             PROVE  Rereads(s)'
  BY DEF StableInv
<1>1. CASE Rewrite
  <2>1. /\ chars' = WriteString(out) /\ pos' = 1 /\ pc' = "quote" /\ out' = <<>>
        /\ first' = <<out>>
    BY <1>1 DEF Rewrite
  <2>2. out = s
    BY <2>1
  <2> QED
    BY <2>1, <2>2 DEF Rereads
<1>2. CASE OpenQuote \/ Character \/ CloseQuote \/ UNCHANGED vars
  <2>1. first = <<s>>
    BY <1>2 DEF OpenQuote, Character, CloseQuote, vars, Fail
  <2>2. Rereads(s)
    BY <2>1 DEF StableInv
  <2>3. CASE UNCHANGED vars
    BY <2>2, <2>3 DEF vars, Rereads
  <2> QED
    BY <1>2, <2>1, <2>2, <2>3, StableOpening, StableReading, StableClosing
<1> QED
  BY <1>1, <1>2 DEF Next

LEMMA StableHolds == Spec => []StableInv
<1>1. Init => StableInv
  BY DEF Init, StableInv
<1>2. TextInv /\ StableInv /\ [Next]_vars => StableInv'
  BY StableNext
<1> QED
  BY <1>1, <1>2, TextHolds, PTL DEF Spec

\* CanonicalIsStable, for every string: what write_string writes has no control
\* character in it and is parsed, to the end, to the string that was written.
THEOREM CanonicalStringIsStable == Spec => []CanonicalIsStable
<1>1. TextInv /\ StableInv => CanonicalIsStable
  <2> SUFFICES ASSUME TextInv, StableInv, first # <<>> PROVE CanonicalIsStable
    BY DEF CanonicalIsStable
  <2>1. PICK s \in Seq(ScalarValue) : first = <<s>>
    BY DEF TextInv
  <2>2. Rereads(s)
    BY <2>1 DEF StableInv
  <2>3. chars \in Seq(Shown)
    BY <2>2, WriteStringIs DEF Rereads
  <2>4. \A i \in 1..Len(chars) : chars[i] > 31
    BY <2>3 DEF Shown
  <2> QED
    BY <2>1, <2>2, <2>4 DEF Rereads, CanonicalIsStable
<1> QED
  BY <1>1, TextHolds, StableHolds, PTL

-----------------------------------------------------------------------------
(* Code units. *)

\* The code units of a scalar value pair up, and do not begin with a second half.
LEMMA UnitsOfType ==
    ASSUME NEW c \in ScalarValue
    PROVE  /\ UnitsOf(c) \in Seq(Int) /\ UnitsOf(c) # <<>> /\ UnitsOf(c)[1] \notin Low
           /\ WellFormed(UnitsOf(c))
<1>1. CASE UnitsOf(c) = <<c>> /\ c \in Int /\ c \notin High /\ c \notin Low
  BY <1>1 DEF WellFormed
<1>2. ASSUME NEW h \in High, NEW l \in Low, UnitsOf(c) = <<h, l>>, h \notin Low, l \notin High,
             h \in Int, l \in Int
      PROVE  /\ UnitsOf(c) \in Seq(Int) /\ UnitsOf(c) # <<>> /\ UnitsOf(c)[1] \notin Low
             /\ WellFormed(UnitsOf(c))
  <2>1. WellFormed(<<h, l>>)
    BY <1>2 DEF WellFormed
  <2> QED
    BY <1>2, <2>1
<1> QED
  BY <1>1, <1>2, UnitsOfIs

\* Two runs of code units whose surrogates pair up make one.
LEMMA WellFormedJoin ==
    ASSUME NEW a \in Seq(Int), NEW b \in Seq(Int), WellFormed(a), WellFormed(b)
    PROVE  WellFormed(a \o b)
<1> DEFINE c == a \o b
<1>1. /\ Len(a) \in Nat /\ Len(b) \in Nat /\ Len(c) = Len(a) + Len(b)
      /\ Stands(a, c, 0) /\ Stands(b, c, Len(a))
  BY Parts
<1> HIDE DEF c
<1>2. \A j \in 1..Len(a) : c[j] = a[j]
  <2>1. \A j \in 1..Len(a) : 0 + j = j
    OBVIOUS
  <2> QED
    BY <1>1, <2>1 DEF Stands
<1>3. \A j \in 1..Len(b) : c[Len(a) + j] = b[j]
  BY <1>1 DEF Stands
<1>4. ASSUME NEW i \in 1..Len(c) PROVE i \in 1..Len(a) \/ \E j \in 1..Len(b) : i = Len(a) + j
  <2>1. CASE i <= Len(a)
    BY <1>1, <2>1
  <2>2. CASE ~(i <= Len(a))
    <3>1. i - Len(a) \in 1..Len(b) /\ i = Len(a) + (i - Len(a))
      BY <1>1, <2>2
    <3> QED
      BY <3>1
  <2> QED
    BY <2>1, <2>2
<1>5. ASSUME NEW i \in 1..Len(c), c[i] \in High PROVE i < Len(c) /\ c[i + 1] \in Low
  <2>1. CASE i \in 1..Len(a)
    <3>1. a[i] \in High
      BY <1>2, <1>5, <2>1
    <3>2. i < Len(a) /\ a[i + 1] \in Low
      BY <2>1, <3>1 DEF WellFormed
    <3>3. i + 1 \in 1..Len(a) /\ i < Len(c)
      BY <1>1, <2>1, <3>2
    <3> QED
      BY <1>2, <3>2, <3>3
  <2>2. ASSUME NEW j \in 1..Len(b), i = Len(a) + j PROVE i < Len(c) /\ c[i + 1] \in Low
    <3>1. b[j] \in High
      BY <1>3, <1>5, <2>2
    <3>2. j < Len(b) /\ b[j + 1] \in Low
      BY <3>1 DEF WellFormed
    <3>3. j + 1 \in 1..Len(b) /\ i + 1 = Len(a) + (j + 1) /\ i < Len(c)
      BY <1>1, <2>2, <3>2
    <3> QED
      BY <1>3, <3>2, <3>3
  <2> QED
    BY <1>4, <2>1, <2>2
<1>6. ASSUME NEW i \in 1..Len(c), c[i] \in Low PROVE i > 1 /\ c[i - 1] \in High
  <2>1. CASE i \in 1..Len(a)
    <3>1. a[i] \in Low
      BY <1>2, <1>6, <2>1
    <3>2. i > 1 /\ a[i - 1] \in High
      BY <2>1, <3>1 DEF WellFormed
    <3>3. i - 1 \in 1..Len(a)
      BY <1>1, <2>1, <3>2
    <3> QED
      BY <1>2, <3>2, <3>3
  <2>2. ASSUME NEW j \in 1..Len(b), i = Len(a) + j PROVE i > 1 /\ c[i - 1] \in High
    <3>1. b[j] \in Low
      BY <1>3, <1>6, <2>2
    <3>2. j > 1 /\ b[j - 1] \in High
      BY <3>1 DEF WellFormed
    <3>3. j - 1 \in 1..Len(b) /\ i - 1 = Len(a) + (j - 1) /\ i > 1
      BY <1>1, <2>2, <3>2
    <3> QED
      BY <1>3, <3>2, <3>3
  <2> QED
    BY <1>4, <2>1, <2>2
<1>7. WellFormed(c)
  BY <1>5, <1>6 DEF WellFormed
<1> QED
  BY <1>7 DEF c

\* A second half behind units that pair up has no first half.
LEMMA LowBreaks ==
    ASSUME NEW a \in Seq(Int), NEW m, WellFormed(a), Stands(a, m, 0),
           Len(a) + 1 \in 1..Len(m), m[Len(a) + 1] \in Low
    PROVE  ~WellFormed(m)
<1> SUFFICES ASSUME WellFormed(m) PROVE FALSE
  OBVIOUS
<1> DEFINE n == Len(a)
<1>1. n \in Nat
  OBVIOUS
<1>2. n + 1 > 1 /\ m[(n + 1) - 1] \in High
  BY DEF WellFormed
<1>3. n \in 1..Len(a) /\ (n + 1) - 1 = n /\ 0 + n = n
  BY <1>1, <1>2
<1>4. m[n] = a[n]
  BY <1>3 DEF Stands
<1>5. n < Len(a)
  BY <1>2, <1>3, <1>4 DEF WellFormed
<1> QED
  BY <1>1, <1>5

-----------------------------------------------------------------------------
(* What parse_string makes of a piece. *)

\* The piece q is read as the scalar value c.
ReadsAs(q, p, c) ==
    /\ Unescaped(p + 1) = <<c, p + 1 + Len(q.text)>>
    /\ q.units = UnitsOf(c)

\* At p is the escape of a low surrogate.
LowEscapeAt(p) == At(p) = Backslash /\ At(p + 1) = LetterU /\ Hex4(p + 2) \in Low

LEMMA PieceType ==
    ASSUME NEW q \in Pieces
    PROVE  /\ q.text \in Seq(ScalarValue) /\ Len(q.text) \in Nat
           /\ IsPlain(q) \/ IsShort(q) \/ IsUnit(q) \/ IsNothing(q)
BY SpellingAssumption, TextIsScalars

LEMMA PlainIsRead ==
    ASSUME NEW q \in Pieces, NEW p \in Nat, Stands(q.text, chars, p), IsPlain(q)
    PROVE  /\ At(p + 1) \notin {Quote, Backslash}
           /\ \E c \in ScalarValue : ReadsAs(q, p, c)
<1> DEFINE c == q.text[1]
<1>1. /\ Len(q.text) = 1 /\ c > 31 /\ c \notin {Quote, Backslash}
      /\ q.units = UnitsOf(c) /\ c \in ScalarValue
  BY PieceType DEF IsPlain
<1>2. At(p + 1) = c
  <2>1. 1 \in 1..Len(q.text)
    BY <1>1
  <2> QED
    BY <2>1, AtStands
<1> HIDE DEF c
<1>3. Unescaped(p + 1) = <<c, p + 1 + 1>>
  BY <1>1, <1>2 DEF Unescaped
<1> QED
  BY <1>1, <1>2, <1>3 DEF ReadsAs

LEMMA ShortIsRead ==
    ASSUME NEW q \in Pieces, NEW p \in Nat, Stands(q.text, chars, p), IsShort(q)
    PROVE  /\ At(p + 1) = Backslash /\ At(p + 2) # LetterU
           /\ \E c \in ScalarValue : ReadsAs(q, p, c)
<1> DEFINE e == q.text[2]
           c == ShortEscapes[e]
<1>1. /\ Len(q.text) = 2 /\ q.text[1] = Backslash /\ e \in DOMAIN ShortEscapes
      /\ q.units = <<c>>
  BY DEF IsShort
<1>2. At(p + 1) = Backslash /\ At(p + 2) = e
  <2>1. 1 \in 1..Len(q.text) /\ 2 \in 1..Len(q.text)
    BY <1>1
  <2> QED
    BY <1>1, <2>1, AtStands
<1>3. (p + 1) + 1 = p + 2 /\ (p + 1) + 2 = p + 1 + 2
  OBVIOUS
<1>4. Unescaped(p + 1) = <<c, p + 1 + 2>>
  BY <1>1, <1>2, <1>3 DEF Unescaped
<1> HIDE DEF e
<1>5. c \in ScalarValue /\ c \in 8..92 /\ e # LetterU
  BY <1>1, EscapesType DEF LetterU
<1>6. UnitsOf(c) = <<c>>
  <2>1. c < 65536
    BY <1>5
  <2> QED
    BY <2>1 DEF UnitsOf
<1> QED
  BY <1>1, <1>2, <1>4, <1>5, <1>6 DEF ReadsAs

LEMMA UnitIsRead ==
    ASSUME NEW q \in Pieces, NEW p \in Nat, Stands(q.text, chars, p), IsUnit(q)
    PROVE  /\ At(p + 1) = Backslash /\ At(p + 2) = LetterU
           /\ Len(q.text) = 6 /\ q.units = <<Hex4(p + 3)>>
           /\ Hex4(p + 3) \in Nat /\ Hex4(p + 3) < 65536
           /\ Unescaped(p + 1) = UnicodeEscape(p + 3)
<1> DEFINE n == HexNumber(q.text[3], q.text[4], q.text[5], q.text[6])
<1>1. /\ Len(q.text) = 6 /\ q.text[1] = Backslash /\ q.text[2] = LetterU
      /\ n # -1 /\ q.units = <<n>>
  BY DEF IsUnit
<1>2. \A j \in 1..6 : At(p + j) = q.text[j] /\ q.text[j] \in Int
  <2>1. \A j \in 1..Len(q.text) : At(p + j) = q.text[j]
    BY AtStands
  <2>2. \A j \in 1..Len(q.text) : q.text[j] \in ScalarValue
    BY PieceType
  <2>3. ScalarValue \subseteq Int
    BY DEF ScalarValue
  <2> QED
    BY <1>1, <2>1, <2>2, <2>3
<1>3. (p + 3) + 1 = p + 4 /\ (p + 3) + 2 = p + 5 /\ (p + 3) + 3 = p + 6
  OBVIOUS
<1>4. Hex4(p + 3) = n
  BY <1>2, <1>3 DEF Hex4
<1>5. n \in Nat /\ n < 65536
  <2> DEFINE a == q.text[3]
             b == q.text[4]
             c == q.text[5]
             d == q.text[6]
  <2>1. a \in Int /\ b \in Int /\ c \in Int /\ d \in Int /\ HexNumber(a, b, c, d) # -1
    BY <1>1, <1>2
  <2> HIDE DEF a, b, c, d
  <2>2. HexNumber(a, b, c, d) \in Nat /\ HexNumber(a, b, c, d) < 65536
    BY <2>1, NumberType
  <2> QED
    BY <2>2 DEF a, b, c, d
<1>6. LetterU \notin DOMAIN ShortEscapes
  BY EscapesType DEF LetterU
<1>7. (p + 1) + 1 = p + 2 /\ (p + 1) + 2 = p + 3
  OBVIOUS
<1> HIDE DEF n
<1>8. At(p + 1) = Backslash /\ At(p + 2) = LetterU
  BY <1>1, <1>2
<1>9. Unescaped(p + 1) = UnicodeEscape(p + 3)
  BY <1>6, <1>7, <1>8 DEF Unescaped
<1> QED
  BY <1>1, <1>4, <1>5, <1>8, <1>9

\* The part of it that needs no bound.
LEMMA UnitBegins ==
    ASSUME NEW q \in Pieces, NEW p \in Nat, Stands(q.text, chars, p), IsUnit(q)
    PROVE  /\ Len(q.text) = 6 /\ q.units = <<Hex4(p + 3)>>
           /\ Unescaped(p + 1) = UnicodeEscape(p + 3)
BY UnitIsRead

\* The escape of a unit that is no surrogate, by itself.
LEMMA WholeUnitIsRead ==
    ASSUME NEW q \in Pieces, NEW p \in Nat, Stands(q.text, chars, p), IsUnit(q),
           Hex4(p + 3) \notin High, Hex4(p + 3) \notin Low
    PROVE  \E c \in ScalarValue : ReadsAs(q, p, c)
<1> DEFINE n == Hex4(p + 3)
<1>1. /\ Len(q.text) = 6 /\ q.units = <<n>> /\ n \in Nat /\ n < 65536
      /\ Unescaped(p + 1) = UnicodeEscape(p + 3)
  BY UnitIsRead
<1>2. (p + 3) + 4 = p + 1 + 6
  OBVIOUS
<1>3. UnicodeEscape(p + 3) = <<n, p + 1 + 6>>
  BY <1>1, <1>2 DEF UnicodeEscape
<1>4. n \in ScalarValue /\ UnitsOf(n) = <<n>>
  BY <1>1 DEF ScalarValue, IsScalar, UnitsOf
<1> QED
  BY <1>1, <1>3, <1>4 DEF ReadsAs

\* The escape of the end of the input has no number, and neither has one with
\* another digit.
LEMMA NoNumber ==
    ASSUME NEW p \in Nat, NEW i \in 3..6, HexDigit(At(p + i)) = -1
    PROVE  Hex4(p + 3) = -1
<1>1. (p + 3) + 1 = p + 4 /\ (p + 3) + 2 = p + 5 /\ (p + 3) + 3 = p + 6
  OBVIOUS
<1>2. i \in {3, 4, 5, 6}
  OBVIOUS
<1>3. \E x \in {At(p + 3), At(p + 4), At(p + 5), At(p + 6)} : HexDigit(x) = -1
  BY <1>2
<1>4. HexNumber(At(p + 3), At(p + 4), At(p + 5), At(p + 6)) = -1
  BY <1>3, NoDigit, Zenon
<1> QED
  BY <1>1, <1>4 DEF Hex4

\* An escape without a number is refused, and is not the second half of a pair.
LEMMA NoNumberIsRefused ==
    ASSUME NEW p \in Nat, At(p + 1) = Backslash,
           At(p + 2) \notin DOMAIN ShortEscapes,
           At(p + 2) = LetterU => Hex4(p + 3) = -1
    PROVE  Unescaped(p + 1) = Bad /\ ~LowEscapeAt(p + 1)
<1>1. (p + 1) + 1 = p + 2 /\ (p + 1) + 2 = p + 3
  OBVIOUS
<1>2. -1 \notin High /\ -1 \notin Low
  BY HighIs, LowIs
<1>3. CASE At(p + 2) = LetterU
  <2>1. UnicodeEscape(p + 3) = Bad
    BY <1>2, <1>3 DEF UnicodeEscape
  <2>2. Unescaped(p + 1) = UnicodeEscape(p + 3)
    BY <1>1, <1>3 DEF Unescaped
  <2> QED
    BY <1>1, <1>2, <1>3, <2>1, <2>2 DEF LowEscapeAt
<1>4. CASE At(p + 2) # LetterU
  BY <1>1, <1>4 DEF Unescaped, LowEscapeAt
<1> QED
  BY <1>3, <1>4

\* What means nothing is refused, and is not the second half of a pair.
LEMMA NothingIsRefused ==
    ASSUME NEW q \in Pieces, NEW p \in Nat, Stands(q.text, chars, p), IsNothing(q)
    PROVE  At(p + 1) # Quote /\ Unescaped(p + 1) = Bad /\ ~LowEscapeAt(p + 1)
<1>1. \A j \in 1..Len(q.text) : At(p + j) = q.text[j]
  BY AtStands
<1>2. Len(q.text) \in Nat
  BY PieceType
<1>3. CASE Len(q.text) > 0 /\ q.text[1] < 32
  <2>1. 1 \in 1..Len(q.text)
    BY <1>2, <1>3
  <2>2. At(p + 1) = q.text[1] /\ q.text[1] \in Nat
    <3>1. q.text \in Seq(ScalarValue)
      BY PieceType
    <3>2. q.text[1] \in ScalarValue
      BY <2>1, <3>1
    <3> QED
      BY <1>1, <2>1, <3>2 DEF ScalarValue
  <2>3. At(p + 1) # Backslash /\ At(p + 1) # Quote /\ ~(At(p + 1) > 31)
    BY <1>3, <2>2 DEF Backslash, Quote
  <2> QED
    BY <2>3 DEF Unescaped, LowEscapeAt
<1>4. CASE /\ Len(q.text) > 1 /\ q.text[1] = Backslash
           /\ q.text[2] \notin DOMAIN ShortEscapes \cup {LetterU}
  <2>1. 1 \in 1..Len(q.text) /\ 2 \in 1..Len(q.text)
    BY <1>2, <1>4
  <2>2. /\ At(p + 1) = Backslash
        /\ At(p + 2) \notin DOMAIN ShortEscapes /\ At(p + 2) # LetterU
    BY <1>1, <1>4, <2>1
  <2>3. At(p + 1) # Quote
    BY <2>2 DEF Backslash, Quote
  <2> QED
    BY <2>2, <2>3, NoNumberIsRefused
<1>5. CASE /\ Len(q.text) \in 3..6 /\ q.text[1] = Backslash /\ q.text[2] = LetterU
           /\ \E i \in 3..Len(q.text) : HexDigit(q.text[i]) = -1
  <2>1. PICK i \in 3..Len(q.text) : HexDigit(q.text[i]) = -1
    BY <1>5
  <2> DEFINE l == Len(q.text)
  <2>2. 1 \in 1..l /\ 2 \in 1..l /\ i \in 1..l /\ i \in 3..6
    <3>1. l \in 3..6 /\ i \in 3..l
      BY <1>5
    <3> HIDE DEF l
    <3> QED
      BY <3>1
  <2>3. At(p + 1) = Backslash /\ At(p + 2) = LetterU /\ HexDigit(At(p + i)) = -1
    BY <1>1, <1>5, <2>1, <2>2
  <2>4. LetterU \notin DOMAIN ShortEscapes
    BY NoShortEscape
  <2>5. Hex4(p + 3) = -1
    BY <2>2, <2>3, NoNumber
  <2>6. At(p + 1) # Quote
    BY <2>3 DEF Backslash, Quote
  <2> QED
    BY <2>3, <2>4, <2>5, <2>6, NoNumberIsRefused
<1> QED
  BY <1>3, <1>4, <1>5 DEF IsNothing

\* So is the end of the input, and an ending without a quote.
LEMMA EndIsRefused ==
    ASSUME TextInv, NEW e \in Endings, NEW p \in Nat,
           Stands(e, chars, p), Len(chars) = p + Len(e)
    PROVE  /\ At(p + 1) = Quote <=> e # <<>> /\ e[1] = Quote
           /\ At(p + 1) # Quote => Unescaped(p + 1) = Bad
           /\ ~LowEscapeAt(p + 1)
<1>1. e \in Seq(ScalarValue) /\ Len(e) \in Nat /\ IsEnding(e)
  BY EndingType
<1>2. \A j \in 1..Len(e) : At(p + j) = e[j]
  BY AtStands
<1>3. \A j \in Nat : j > Len(e) => At(p + j) = -1
  BY <1>1 DEF At
<1>4. CASE e = <<>>
  <2>1. At(p + 1) = -1
    BY <1>3, <1>4
  <2> QED
    BY <1>4, <2>1 DEF Unescaped, LowEscapeAt, Quote, Backslash
<1>5. CASE e # <<>> /\ e[1] = Quote
  <2>1. At(p + 1) = Quote
    BY <1>1, <1>2, <1>5
  <2> QED
    BY <1>5, <2>1 DEF LowEscapeAt, Quote, Backslash
<1>6. CASE e # <<>> /\ e[1] = Backslash /\ (Len(e) > 1 => e[2] = LetterU /\ Len(e) < 6)
  <2>1. At(p + 1) = Backslash /\ At(p + 1) # Quote /\ e[1] # Quote
    BY <1>1, <1>2, <1>6 DEF Quote, Backslash
  <2>2. At(p + 2) = IF Len(e) > 1 THEN LetterU ELSE -1
    BY <1>1, <1>2, <1>3, <1>6
  <2>3. LetterU \notin DOMAIN ShortEscapes /\ -1 \notin DOMAIN ShortEscapes
    BY NoShortEscape
  <2>4. HexDigit(At(p + 6)) = -1 /\ 6 \in 3..6
    <3>1. 6 > Len(e)
      BY <1>1, <1>6
    <3>2. At(p + 6) = -1
      BY <1>3, <3>1
    <3>3. HexDigit(-1) = -1
      BY DEF HexDigit
    <3> QED
      BY <3>2, <3>3
  <2>5. Hex4(p + 3) = -1
    BY <2>4, NoNumber
  <2>6. At(p + 2) \notin DOMAIN ShortEscapes
    BY <2>2, <2>3
  <2> QED
    BY <1>6, <2>1, <2>5, <2>6, NoNumberIsRefused
<1> QED
  BY <1>1, <1>4, <1>5, <1>6 DEF IsEnding

\* A piece begins with no quote, and has a low surrogate first if and only if it is
\* the escape of one.
LEMMA PieceBegins ==
    ASSUME NEW q \in Pieces, NEW p \in Nat, Stands(q.text, chars, p)
    PROVE  /\ At(p + 1) # Quote
           /\ LowEscapeAt(p + 1) => /\ Len(q.text) = 6 /\ q.units = <<Hex4(p + 3)>>
                                    /\ Hex4(p + 3) \in Low
           /\ ~LowEscapeAt(p + 1) /\ q.units # <<>> => q.units[1] \notin Low
<1>1. (p + 1) + 1 = p + 2 /\ (p + 1) + 2 = p + 3 /\ Backslash # Quote
  BY DEF Backslash, Quote
<1>2. CASE IsPlain(q)
  <2>1. At(p + 1) \notin {Quote, Backslash}
    BY <1>2, PlainIsRead
  <2>2. PICK c \in ScalarValue : ReadsAs(q, p, c)
    BY <1>2, PlainIsRead
  <2> QED
    BY <2>1, <2>2, UnitsOfType DEF ReadsAs, LowEscapeAt
<1>3. CASE IsShort(q)
  <2>1. At(p + 1) = Backslash /\ At(p + 2) # LetterU
    BY <1>3, ShortIsRead
  <2>2. PICK c \in ScalarValue : ReadsAs(q, p, c)
    BY <1>3, ShortIsRead
  <2> QED
    BY <1>1, <2>1, <2>2, UnitsOfType DEF ReadsAs, LowEscapeAt
<1>4. CASE IsUnit(q)
  <2>1. /\ At(p + 1) = Backslash /\ At(p + 2) = LetterU /\ Len(q.text) = 6
        /\ q.units = <<Hex4(p + 3)>>
    BY <1>4, UnitIsRead
  <2>2. q.units[1] = Hex4(p + 3)
    BY <2>1
  <2> QED
    BY <1>1, <2>1, <2>2 DEF LowEscapeAt
<1>5. CASE IsNothing(q)
  <2>1. At(p + 1) # Quote /\ ~LowEscapeAt(p + 1) /\ q.units = <<>>
    BY <1>5, NothingIsRefused DEF IsNothing
  <2> QED
    BY <2>1
<1> QED
  BY <1>2, <1>3, <1>4, <1>5, PieceType

-----------------------------------------------------------------------------
(* The meaning of a spelling is read. *)

\* What the first k pieces say, and no more, has been read.
ReadUpTo(ps, k) ==
    /\ pos = 2 + Len(Joined(Texts(ps), k))
    /\ Utf16(out) = Joined(Units(ps), k) /\ WellFormed(Joined(Units(ps), k))
    /\ \A i \in 1..k : ps[i].units # <<>>

\* The spellings that are not refused.
Sound(ps, e) ==
    /\ \A i \in 1..Len(ps) : ps[i].units # <<>>
    /\ e # <<>> /\ e[1] = Quote
    /\ WellFormed(FlattenSeq(Units(ps)))

\* The text is that of the pieces and the ending; as many pieces are read as were
\* passed, all of them if none is refused, and one is refused only for a reason.
Reads(ps, e) ==
    /\ chars = <<Quote>> \o FlattenSeq(Texts(ps)) \o e
    /\ pc = "quote" => pos = 1 /\ out = <<>>
    /\ pc = "body" => \E k \in 0..Len(ps) : ReadUpTo(ps, k)
    /\ pc = "parsed" => Sound(ps, e) /\ Utf16(out) = FlattenSeq(Units(ps))
    /\ pc = "failed" => ~Sound(ps, e)

\* In the first parse that is so of the spelling.
MeaningInv ==
    first = <<>> => \A ps \in Seq(Pieces), e \in Endings : spelling = <<ps, e>> => Reads(ps, e)

LEMMA UnitsType ==
    ASSUME NEW ps \in Seq(Pieces)
    PROVE  /\ Units(ps) \in Seq(Seq(Int)) /\ Len(Units(ps)) = Len(ps)
           /\ \A i \in 1..Len(ps) : Units(ps)[i] = ps[i].units
<1>1. ASSUME NEW q \in Pieces PROVE q.units \in Seq(Int)
  <2>1. CASE IsPlain(q)
    <3>1. q.text[1] \in ScalarValue /\ q.units = UnitsOf(q.text[1])
      BY <2>1, PieceType DEF IsPlain
    <3> QED
      BY <3>1, UnitsOfType
  <2>2. CASE IsShort(q)
    <3>1. q.text[2] \in DOMAIN ShortEscapes /\ q.units = <<ShortEscapes[q.text[2]]>>
      BY <2>2 DEF IsShort
    <3>2. ShortEscapes[q.text[2]] \in Nat
      BY <3>1, EscapesType DEF ScalarValue
    <3> QED
      BY <3>1, <3>2
  <2>3. CASE IsUnit(q)
    <3> DEFINE a == q.text[3]
               b == q.text[4]
               c == q.text[5]
               d == q.text[6]
    <3>1. HexNumber(a, b, c, d) # -1 /\ q.units = <<HexNumber(a, b, c, d)>> /\ Len(q.text) = 6
      BY <2>3 DEF IsUnit
    <3>2. a \in ScalarValue /\ b \in ScalarValue /\ c \in ScalarValue /\ d \in ScalarValue
      BY <3>1, PieceType
    <3>3. a \in Int /\ b \in Int /\ c \in Int /\ d \in Int
      BY <3>2 DEF ScalarValue
    <3> HIDE DEF a, b, c, d
    <3>4. HexNumber(a, b, c, d) \in Nat
      BY <3>1, <3>3, NumberType
    <3> QED
      BY <3>1, <3>4
  <2>4. CASE IsNothing(q)
    BY <2>4 DEF IsNothing
  <2> QED
    BY <2>1, <2>2, <2>3, <2>4, PieceType
<1>2. \A i \in 1..Len(ps) : ps[i].units \in Seq(Int)
  <2>1. \A i \in 1..Len(ps) : ps[i] \in Pieces
    OBVIOUS
  <2> QED
    BY <1>1, <2>1
<1> QED
  BY <1>2 DEF Units

\* Where the pieces are, and what they say is in the meaning.
LEMMA PieceHere ==
    ASSUME NEW ps \in Seq(Pieces), NEW e \in Endings, NEW k \in 0..Len(ps) - 1,
           chars = <<Quote>> \o FlattenSeq(Texts(ps)) \o e,
           NEW p, p = 1 + Len(Joined(Texts(ps), k))
    PROVE  /\ p \in Nat /\ Stands(ps[k + 1].text, chars, p) /\ ps[k + 1] \in Pieces
           /\ 1 + Len(Joined(Texts(ps), k + 1)) = p + Len(ps[k + 1].text)
           /\ Joined(Units(ps), k) \in Seq(Int) /\ ps[k + 1].units \in Seq(Int)
           /\ Joined(Units(ps), k + 1) = Joined(Units(ps), k) \o ps[k + 1].units
           /\ Stands(Joined(Units(ps), k), FlattenSeq(Units(ps)), 0)
           /\ Stands(ps[k + 1].units, FlattenSeq(Units(ps)), Len(Joined(Units(ps), k)))
<1> DEFINE a == <<Quote>>
           s == Texts(ps)
           u == Units(ps)
<1>1. k + 1 \in 1..Len(ps) /\ ps[k + 1] \in Pieces /\ k \in 0..Len(ps)
  OBVIOUS
<1>2. /\ s \in Seq(Seq(ScalarValue)) /\ Len(s) = Len(ps) /\ s[k + 1] = ps[k + 1].text
      /\ u \in Seq(Seq(Int)) /\ Len(u) = Len(ps) /\ u[k + 1] = ps[k + 1].units
  BY <1>1, TextsType, UnitsType
<1>3. a \in Seq(ScalarValue) /\ Len(a) = 1 /\ e \in Seq(ScalarValue) /\ chars = a \o FlattenSeq(s) \o e
  BY QuoteType, EndingType
<1> HIDE DEF a, s, u
<1>4. k \in 0..Len(s) - 1 /\ k \in 0..Len(u) - 1 /\ k \in 0..Len(u)
  BY <1>1, <1>2
<1>5. /\ s[k + 1] \in Seq(ScalarValue) /\ Len(Joined(s, k)) \in Nat
      /\ Len(Joined(s, k + 1)) = Len(Joined(s, k)) + Len(s[k + 1])
      /\ Stands(s[k + 1], a \o FlattenSeq(s) \o e, Len(a) + Len(Joined(s, k)))
  BY <1>2, <1>3, <1>4, JoinedAt
<1>6. Stands(s[k + 1], chars, 1 + Len(Joined(s, k)))
  BY <1>3, <1>5
<1> DEFINE l == Len(Joined(s, k))
           m == Len(s[k + 1])
<1>7. l \in Nat /\ m \in Nat /\ Len(Joined(s, k + 1)) = l + m
  BY <1>5
<1> HIDE DEF l, m
<1>8. 1 + l \in Nat /\ 1 + Len(Joined(s, k + 1)) = (1 + l) + m
  <2>1. 1 + l \in Nat /\ 1 + (l + m) = (1 + l) + m
    BY <1>7
  <2> QED
    BY <1>7, <2>1, Zenon
<1>9. /\ Joined(u, k) \in Seq(Int) /\ u[k + 1] \in Seq(Int)
      /\ Stands(u[k + 1], FlattenSeq(u), Len(Joined(u, k)))
  BY <1>2, <1>4, JoinedPart
<1>10. Joined(u, k + 1) = Joined(u, k) \o u[k + 1]
  BY <1>2, <1>4, JoinedNext
<1>11. Stands(Joined(u, k), FlattenSeq(u), 0)
  BY <1>2, <1>4, JoinedBegins
<1>12. p = 1 + l
  BY DEF l, s
<1>13. p \in Nat /\ Stands(s[k + 1], chars, p) /\ 1 + Len(Joined(s, k + 1)) = p + m
  BY <1>6, <1>8, <1>12 DEF l
<1> QED
  BY <1>1, <1>2, <1>9, <1>10, <1>11, <1>13 DEF m, s, u

\* Behind the last of them is the ending.
LEMMA EndHere ==
    ASSUME NEW ps \in Seq(Pieces), NEW e \in Endings,
           chars = <<Quote>> \o FlattenSeq(Texts(ps)) \o e,
           NEW p, p = 1 + Len(Joined(Texts(ps), Len(ps)))
    PROVE  /\ p \in Nat /\ Stands(e, chars, p) /\ Len(chars) = p + Len(e)
           /\ Joined(Units(ps), Len(ps)) = FlattenSeq(Units(ps))
<1> DEFINE a == <<Quote>>
           s == Texts(ps)
           u == Units(ps)
<1>1. /\ s \in Seq(Seq(ScalarValue)) /\ Len(s) = Len(ps)
      /\ u \in Seq(Seq(Int)) /\ Len(u) = Len(ps)
  BY TextsType, UnitsType
<1>2. a \in Seq(ScalarValue) /\ Len(a) = 1 /\ e \in Seq(ScalarValue) /\ chars = a \o FlattenSeq(s) \o e
  BY QuoteType, EndingType
<1>3. p = 1 + Len(Joined(s, Len(s)))
  BY <1>1
<1> HIDE DEF a, s, u
<1>4. /\ Len(Joined(s, Len(s))) \in Nat
      /\ Len(a \o FlattenSeq(s) \o e) = Len(a) + Len(Joined(s, Len(s))) + Len(e)
      /\ Stands(e, a \o FlattenSeq(s) \o e, Len(a) + Len(Joined(s, Len(s))))
  BY <1>1, <1>2, JoinedEnd
<1> DEFINE l == Len(Joined(s, Len(s)))
<1>5. p \in Nat /\ Stands(e, chars, p) /\ Len(chars) = p + Len(e)
  <2>1. /\ l \in Nat /\ p = 1 + l /\ Len(chars) = (1 + l) + Len(e)
        /\ Stands(e, chars, 1 + l)
    BY <1>2, <1>3, <1>4
  <2> HIDE DEF l
  <2>2. 1 + l \in Nat
    BY <2>1
  <2> QED
    BY <2>1, <2>2, Zenon
<1>6. Joined(u, Len(u)) = FlattenSeq(u)
  BY <1>1, JoinedAll
<1> QED
  BY <1>1, <1>5, <1>6 DEF u

\* Once a character is refused, the spelling has to be unsound.
LEMMA Refused ==
    ASSUME Character, Unescaped(pos) = Bad, NEW ps, NEW e, Reads(ps, e), ~Sound(ps, e)
    PROVE  Reads(ps, e)'
<1>1. pc' = "failed" /\ chars' = chars
  BY DEF Character, Fail
<1> QED
  BY <1>1 DEF Reads, Sound

\* A piece that is read as a character.
LEMMA ReadsOne ==
    ASSUME TextInv, Character, NEW ps \in Seq(Pieces), NEW e \in Endings, Reads(ps, e),
           NEW k \in 0..Len(ps) - 1, ReadUpTo(ps, k),
           NEW p, p = 1 + Len(Joined(Texts(ps), k)), NEW c \in ScalarValue, ReadsAs(ps[k + 1], p, c)
    PROVE  Reads(ps, e)'
<1> DEFINE q == ps[k + 1]
           u == Joined(Units(ps), k)
<1>1. chars = <<Quote>> \o FlattenSeq(Texts(ps)) \o e
  BY DEF Reads
<1>2. /\ p \in Nat /\ q \in Pieces
      /\ 1 + Len(Joined(Texts(ps), k + 1)) = p + Len(q.text)
      /\ u \in Seq(Int) /\ Joined(Units(ps), k + 1) = u \o q.units
  BY <1>1, PieceHere
<1>3. Len(Joined(Texts(ps), k)) \in Nat /\ Len(Joined(Texts(ps), k + 1)) \in Nat
  <2>1. Texts(ps) \in Seq(Seq(ScalarValue)) /\ Len(Texts(ps)) = Len(ps)
    BY TextsType
  <2>2. k \in 0..Len(ps) /\ k + 1 \in 0..Len(ps)
    OBVIOUS
  <2>3. Joined(Texts(ps), k) \in Seq(ScalarValue) /\ Joined(Texts(ps), k + 1) \in Seq(ScalarValue)
    BY <2>1, <2>2, JoinedType
  <2> QED
    BY <2>3
<1>4. pos = p + 1
  BY <1>3 DEF ReadUpTo
<1>5. Unescaped(pos) = <<c, p + 1 + Len(q.text)>> /\ q.units = UnitsOf(c)
  BY <1>4 DEF ReadsAs
<1>6. /\ out' = Append(out, c) /\ pos' = p + 1 + Len(q.text) /\ pc' = "body"
      /\ chars' = chars
  BY <1>5 DEF Character, Bad
<1>7. Utf16(out') = u \o q.units
  <2>1. out \in Seq(ScalarValue) /\ Utf16(out) = u
    BY DEF TextInv, ReadUpTo
  <2>2. Utf16(Append(out, c)) = Utf16(out) \o UnitsOf(c)
    BY <2>1, Utf16Append
  <2> QED
    BY <1>5, <1>6, <2>1, <2>2
<1>8. WellFormed(u \o q.units) /\ q.units # <<>>
  <2>1. WellFormed(u)
    BY DEF ReadUpTo
  <2>2. UnitsOf(c) \in Seq(Int) /\ WellFormed(UnitsOf(c)) /\ UnitsOf(c) # <<>>
    BY UnitsOfType
  <2>3. WellFormed(u \o UnitsOf(c))
    BY <1>2, <2>1, <2>2, WellFormedJoin
  <2> QED
    BY <1>5, <2>2, <2>3
<1>9. k + 1 \in 0..Len(ps) /\ \A i \in 1..k+1 : ps[i].units # <<>>
  <2>1. \A i \in 1..k : ps[i].units # <<>>
    BY DEF ReadUpTo
  <2>2. \A i \in 1..k+1 : i \in 1..k \/ i = k + 1
    OBVIOUS
  <2> QED
    BY <1>8, <2>1, <2>2
<1>10. pos' = 2 + Len(Joined(Texts(ps), k + 1))
  <2> DEFINE l == Len(q.text)
             m == Len(Joined(Texts(ps), k + 1))
  <2>1. l \in Nat /\ m \in Nat /\ 1 + m = p + l /\ pos' = p + 1 + l
    BY <1>2, <1>3, <1>6, PieceType
  <2> HIDE DEF l, m
  <2>2. pos' = 2 + m
    BY <1>2, <2>1
  <2> QED
    BY <2>2 DEF m
<1>11. ReadUpTo(ps, k + 1)'
  BY <1>2, <1>7, <1>8, <1>9, <1>10 DEF ReadUpTo
<1> QED
  BY <1>1, <1>6, <1>9, <1>11 DEF Reads

LEMMA AppendPair ==
    ASSUME NEW x \in Seq(Int), NEW h \in Int, NEW l \in Int
    PROVE  (x \o <<h>>) \o <<l>> = x \o <<h, l>>
<1> DEFINE y == (x \o <<h>>) \o <<l>>
           z == x \o <<h, l>>
<1>1. y \in Seq(Int) /\ z \in Seq(Int)
  OBVIOUS
<1>2. Len(y) = Len(x) + 2 /\ Len(z) = Len(x) + 2
  OBVIOUS
<1>3. ASSUME NEW i \in 1..Len(x) + 2 PROVE y[i] = z[i]
  <2>1. CASE i \in 1..Len(x)
    BY <2>1
  <2>2. CASE i = Len(x) + 1
    BY <2>2
  <2>3. CASE i = Len(x) + 2
    BY <2>3
  <2> QED
    BY <2>1, <2>2, <2>3
<1> HIDE DEF y, z
<1>4. Len(y) = Len(z) /\ \A i \in 1..Len(y) : y[i] = z[i]
  BY <1>2, <1>3
<1>5. y = z
  BY <1>1, <1>4, SeqEqual, Zenon
<1> QED
  BY <1>5 DEF y, z

\* Two pieces that are the halves of a pair.
LEMMA ReadsPair ==
    ASSUME TextInv, Character, NEW ps \in Seq(Pieces), NEW e \in Endings, Reads(ps, e),
           NEW k \in 0..Len(ps) - 2, ReadUpTo(ps, k),
           NEW p, p = 1 + Len(Joined(Texts(ps), k)), IsUnit(ps[k + 1]),
           Hex4(p + 3) \in High, LowEscapeAt(p + 7)
    PROVE  Reads(ps, e)'
<1> DEFINE q == ps[k + 1]
           r == ps[k + 2]
           u == Joined(Units(ps), k)
           h == Hex4(p + 3)
           l == Hex4(p + 9)
<1>1. chars = <<Quote>> \o FlattenSeq(Texts(ps)) \o e
  BY DEF Reads
<1>2. k \in 0..Len(ps) - 1 /\ k + 1 \in 0..Len(ps) - 1 /\ (k + 1) + 1 = k + 2
  OBVIOUS
<1>3. /\ p \in Nat /\ q \in Pieces /\ Stands(q.text, chars, p)
      /\ 1 + Len(Joined(Texts(ps), k + 1)) = p + Len(q.text)
      /\ u \in Seq(Int) /\ Joined(Units(ps), k + 1) = u \o q.units
  BY <1>1, <1>2, PieceHere
<1>4. /\ Len(q.text) = 6 /\ q.units = <<h>> /\ Unescaped(p + 1) = UnicodeEscape(p + 3)
  <2>1. q \in Pieces /\ p \in Nat /\ Stands(q.text, chars, p) /\ IsUnit(q)
    BY <1>3
  <2> HIDE DEF q, u, r
  <2> QED
    BY <2>1, UnitBegins, Zenon
<1>5. 1 + Len(Joined(Texts(ps), k + 1)) = p + 6
  BY <1>3, <1>4
<1>6. /\ Stands(r.text, chars, p + 6) /\ r \in Pieces /\ p + 6 \in Nat
      /\ 1 + Len(Joined(Texts(ps), k + 2)) = p + 6 + Len(r.text)
      /\ Joined(Units(ps), k + 2) = Joined(Units(ps), k + 1) \o r.units
  <2>1. p + 6 = 1 + Len(Joined(Texts(ps), k + 1))
    BY <1>5
  <2>2. /\ p + 6 \in Nat /\ Stands(ps[(k + 1) + 1].text, chars, p + 6)
        /\ ps[(k + 1) + 1] \in Pieces
        /\ 1 + Len(Joined(Texts(ps), (k + 1) + 1)) = p + 6 + Len(ps[(k + 1) + 1].text)
        /\ Joined(Units(ps), (k + 1) + 1)
              = Joined(Units(ps), k + 1) \o ps[(k + 1) + 1].units
    BY <1>1, <1>2, <2>1, PieceHere, Zenon
  <2> QED
    BY <1>2, <2>2, Zenon
<1>7. (p + 6) + 1 = p + 7 /\ (p + 6) + 3 = p + 9
  BY <1>3
<1>8. Len(r.text) = 6 /\ r.units = <<l>> /\ l \in Low
  BY <1>6, <1>7, PieceBegins
<1>9. /\ (p + 3) + 4 = p + 7 /\ (p + 3) + 5 = (p + 7) + 1 /\ (p + 3) + 6 = p + 9
      /\ (p + 7) + 2 = p + 9 /\ (p + 3) + 10 = p + 13
  BY <1>3
<1>10. Unescaped(p + 1) = <<Combine(h, l), p + 13>>
  BY <1>4, <1>9 DEF UnicodeEscape, LowEscapeAt
<1>11. Combine(h, l) \in ScalarValue /\ UnitsOf(Combine(h, l)) = <<h, l>>
  BY <1>8, CombineType
<1> HIDE DEF h, l
<1> DEFINE c == Combine(h, l)
<1>12. /\ Len(Joined(Texts(ps), k)) \in Nat /\ Len(Joined(Texts(ps), k + 2)) \in Nat
  <2>1. Texts(ps) \in Seq(Seq(ScalarValue)) /\ Len(Texts(ps)) = Len(ps)
    BY TextsType
  <2>2. k \in 0..Len(ps) /\ k + 2 \in 0..Len(ps)
    OBVIOUS
  <2>3. Joined(Texts(ps), k) \in Seq(ScalarValue) /\ Joined(Texts(ps), k + 2) \in Seq(ScalarValue)
    BY <2>1, <2>2, JoinedType
  <2> QED
    BY <2>3
<1>13. pos = p + 1
  BY <1>12 DEF ReadUpTo
<1>14. out' = Append(out, c) /\ pos' = p + 13 /\ pc' = "body" /\ chars' = chars
  <2>1. Unescaped(pos) = <<c, p + 13>>
    BY <1>10, <1>13
  <2> HIDE DEF c
  <2> QED
    BY <2>1 DEF Character, Bad
<1>15. Joined(Units(ps), k + 2) = u \o <<h, l>> /\ h \in Int /\ l \in Int
  <2>1. h \in Int /\ l \in Int
    BY <1>8, HighIs, LowIs DEF h
  <2>2. \A x \in Seq(Int) : (x \o <<h>>) \o <<l>> = x \o <<h, l>>
    BY <2>1, AppendPair, Zenon
  <2>3. Joined(Units(ps), k + 2) = (u \o <<h>>) \o <<l>>
    BY <1>3, <1>4, <1>6, <1>8
  <2> HIDE DEF u
  <2> QED
    BY <1>3, <2>1, <2>2, <2>3
<1>16. Utf16(out') = Joined(Units(ps), k + 2)
  <2>1. out \in Seq(ScalarValue) /\ Utf16(out) = u
    BY DEF TextInv, ReadUpTo
  <2>2. Utf16(Append(out, c)) = Utf16(out) \o UnitsOf(c)
    BY <1>11, <2>1, Utf16Append
  <2> QED
    BY <1>11, <1>14, <1>15, <2>1, <2>2
<1>17. WellFormed(Joined(Units(ps), k + 2))
  <2>1. WellFormed(u)
    BY DEF ReadUpTo
  <2>2. UnitsOf(c) \in Seq(Int) /\ WellFormed(UnitsOf(c))
    BY <1>11, UnitsOfType
  <2>3. WellFormed(u \o UnitsOf(c))
    BY <1>3, <2>1, <2>2, WellFormedJoin
  <2> QED
    BY <1>11, <1>15, <2>3
<1>18. k + 2 \in 0..Len(ps) /\ \A i \in 1..k+2 : ps[i].units # <<>>
  <2>1. \A i \in 1..k : ps[i].units # <<>>
    BY DEF ReadUpTo
  <2>2. \A i \in 1..k+2 : i \in 1..k \/ i = k + 1 \/ i = k + 2
    OBVIOUS
  <2>3. q.units # <<>> /\ r.units # <<>>
    BY <1>4, <1>8
  <2> QED
    BY <2>1, <2>2, <2>3
<1>19. pos' = 2 + Len(Joined(Texts(ps), k + 2))
  <2> DEFINE m == Len(Joined(Texts(ps), k + 2))
  <2>1. m \in Nat /\ 1 + m = p + 6 + 6 /\ pos' = p + 13
    BY <1>6, <1>8, <1>12, <1>14
  <2> HIDE DEF m
  <2>2. pos' = 2 + m
    BY <1>3, <2>1
  <2> QED
    BY <2>2 DEF m
<1>20. ReadUpTo(ps, k + 2)'
  BY <1>16, <1>17, <1>18, <1>19 DEF ReadUpTo
<1> QED
  BY <1>1, <1>14, <1>18, <1>20 DEF Reads

\* The escape of a surrogate that is refused is the half of no pair.
LEMMA LoneHalf ==
    ASSUME TextInv, NEW ps \in Seq(Pieces), NEW e \in Endings, Reads(ps, e),
           NEW k \in 0..Len(ps) - 1, ReadUpTo(ps, k),
           NEW p, p = 1 + Len(Joined(Texts(ps), k)), IsUnit(ps[k + 1]),
           Hex4(p + 3) \in Low \/ (Hex4(p + 3) \in High /\ ~LowEscapeAt(p + 7))
    PROVE  ~Sound(ps, e)
<1> SUFFICES ASSUME Sound(ps, e) PROVE FALSE
  OBVIOUS
<1> DEFINE q == ps[k + 1]
           u == Joined(Units(ps), k)
           m == FlattenSeq(Units(ps))
           n == Hex4(p + 3)
           d == Len(u)
<1>1. chars = <<Quote>> \o FlattenSeq(Texts(ps)) \o e
  BY DEF Reads
<1>2. /\ p \in Nat /\ q \in Pieces /\ Stands(q.text, chars, p)
      /\ 1 + Len(Joined(Texts(ps), k + 1)) = p + Len(q.text)
      /\ u \in Seq(Int) /\ Stands(u, m, 0) /\ Stands(q.units, m, d)
      /\ Joined(Units(ps), k + 1) = u \o q.units
  BY <1>1, PieceHere
<1>3. WellFormed(u) /\ WellFormed(m)
  BY DEF ReadUpTo, Sound
<1>4. Len(q.text) = 6 /\ q.units = <<n>>
  <2>1. IsUnit(q)
    OBVIOUS
  <2> HIDE DEF q
  <2> QED
    BY <1>2, <2>1, UnitIsRead
<1>5. n \in Low \/ (n \in High /\ ~LowEscapeAt(p + 7))
  OBVIOUS
<1>6. k \in Nat /\ Len(ps) \in Nat /\ k + 1 <= Len(ps)
  OBVIOUS
<1> HIDE DEF q, u, m, n
<1>7. d \in Nat /\ d + 1 \in 1..Len(m) /\ m[d + 1] = n
  <2>1. Len(q.units) = 1 /\ q.units[1] = n /\ 1 \in 1..Len(q.units)
    BY <1>4
  <2> QED
    BY <1>2, <2>1 DEF Stands
<1>8. n \notin Low
  BY <1>2, <1>3, <1>7, LowBreaks
<1>9. n \in High /\ ~LowEscapeAt(p + 7)
  BY <1>5, <1>8
<1>10. d + 1 < Len(m) /\ m[(d + 1) + 1] \in Low
  BY <1>3, <1>7, <1>9 DEF WellFormed
<1>11. (p + 6) + 1 = p + 7 /\ p + 6 \in Nat /\ (d + 1) + 1 = d + 2
  BY <1>2, <1>7
<1>12. p + 6 = 1 + Len(Joined(Texts(ps), k + 1)) /\ Len(u \o q.units) = d + 1
  BY <1>2, <1>4
<1>13. CASE k + 1 = Len(ps)
  <2>1. Joined(Units(ps), Len(ps)) = m
    BY <1>1, EndHere DEF m
  <2>2. m = u \o q.units
    BY <1>2, <1>13, <2>1
  <2> QED
    BY <1>7, <1>10, <1>12, <2>2
<1>14. CASE k + 1 # Len(ps)
  <2> DEFINE r == ps[k + 2]
             v == Joined(Units(ps), k + 1)
  <2>1. k + 1 \in 0..Len(ps) - 1 /\ (k + 1) + 1 = k + 2 /\ k + 2 \in 1..Len(ps)
    BY <1>6, <1>14
  <2>2. /\ r \in Pieces /\ Stands(r.text, chars, p + 6)
        /\ r.units \in Seq(Int) /\ Stands(r.units, m, Len(v))
    BY <1>1, <1>12, <2>1, PieceHere DEF m
  <2>3. Len(v) = d + 1
    BY <1>2, <1>12
  <2>4. r.units # <<>>
    BY <2>1 DEF Sound
  <2> HIDE DEF r, v
  <2>5. r.units[1] \notin Low
    BY <1>9, <1>11, <2>2, <2>4, PieceBegins
  <2>6. m[(d + 1) + 1] = r.units[1]
    <3>1. 1 \in 1..Len(r.units)
      BY <2>2, <2>4
    <3> QED
      BY <2>2, <2>3, <3>1 DEF Stands
  <2> QED
    BY <1>10, <2>5, <2>6
<1> QED
  BY <1>13, <1>14

\* One more character is read, or the spelling is refused.
LEMMA MeaningReading ==
    ASSUME TextInv, Character, NEW ps \in Seq(Pieces), NEW e \in Endings, Reads(ps, e)
    PROVE  Reads(ps, e)'
<1>1. chars = <<Quote>> \o FlattenSeq(Texts(ps)) \o e
  BY DEF Reads
<1>2. PICK k \in 0..Len(ps) : ReadUpTo(ps, k)
  BY DEF Character, Reads
<1> DEFINE p == 1 + Len(Joined(Texts(ps), k))
<1>3. p \in Nat /\ pos = p + 1
  <2>1. Texts(ps) \in Seq(Seq(ScalarValue)) /\ Len(Texts(ps)) = Len(ps)
    BY TextsType
  <2>2. Joined(Texts(ps), k) \in Seq(ScalarValue)
    BY <2>1, JoinedType
  <2>3. Len(Joined(Texts(ps), k)) \in Nat
    BY <2>2
  <2> QED
    BY <1>2, <2>3 DEF ReadUpTo
<1>4. CASE k = Len(ps)
  <2>1. p \in Nat /\ Stands(e, chars, p) /\ Len(chars) = p + Len(e)
    BY <1>1, <1>4, EndHere
  <2>2. At(p + 1) # Quote
    BY <1>3 DEF Character
  <2> HIDE DEF p
  <2>3. Unescaped(p + 1) = Bad /\ ~(e # <<>> /\ e[1] = Quote)
    BY <2>1, <2>2, EndIsRefused
  <2>4. Unescaped(pos) = Bad /\ ~Sound(ps, e)
    BY <1>3, <2>3 DEF Sound
  <2> QED
    BY <2>4, Refused
<1>5. CASE k # Len(ps)
  <2> DEFINE q == ps[k + 1]
  <2>1. k \in 0..Len(ps) - 1 /\ k + 1 \in 1..Len(ps)
    BY <1>2, <1>5
  <2>2. q \in Pieces /\ Stands(q.text, chars, p)
    BY <1>1, <2>1, PieceHere
  <2>3. p = 1 + Len(Joined(Texts(ps), k))
    OBVIOUS
  <2> HIDE DEF p
  <2>4. ASSUME NEW c \in ScalarValue, ReadsAs(q, p, c) PROVE Reads(ps, e)'
    BY <1>2, <2>1, <2>3, <2>4, ReadsOne
  <2>5. CASE IsNothing(q)
    <3>1. Unescaped(p + 1) = Bad /\ q.units = <<>>
      <4> HIDE DEF q
      <4> QED
        BY <1>3, <2>2, <2>5, NothingIsRefused DEF IsNothing
    <3>2. Unescaped(pos) = Bad /\ ~Sound(ps, e)
      BY <1>3, <2>1, <3>1 DEF Sound
    <3> QED
      BY <3>2, Refused
  <2>6. CASE IsUnit(q)
    <3> DEFINE n == Hex4(p + 3)
    <3>1. n \in Nat /\ Unescaped(pos) = UnicodeEscape(p + 3)
      <4> HIDE DEF q
      <4> QED
        BY <1>3, <2>2, <2>6, UnitIsRead
    <3>2. (p + 3) + 4 = p + 7 /\ (p + 3) + 5 = (p + 7) + 1 /\ (p + 3) + 6 = (p + 7) + 2
      BY <1>3
    <3>3. CASE n \in Low \/ (n \in High /\ ~LowEscapeAt(p + 7))
      <4>1. Unescaped(pos) = Bad
        BY <3>1, <3>2, <3>3, HighIs, LowIs DEF UnicodeEscape, LowEscapeAt
      <4>2. ~Sound(ps, e)
        BY <1>2, <2>1, <2>3, <2>6, <3>3, LoneHalf
      <4> QED
        BY <4>1, <4>2, Refused
    <3>4. CASE n \notin Low /\ n \notin High
      <4>1. PICK c \in ScalarValue : ReadsAs(q, p, c)
        <5> HIDE DEF q
        <5> QED
          BY <1>3, <2>2, <2>6, <3>4, WholeUnitIsRead
      <4> QED
        BY <2>4, <4>1
    <3>5. CASE n \in High /\ LowEscapeAt(p + 7)
      <4>1. CASE k + 1 = Len(ps)
        <5>1. Len(q.text) = 6 /\ 1 + Len(Joined(Texts(ps), k + 1)) = p + Len(q.text)
          <6>1. 1 + Len(Joined(Texts(ps), k + 1)) = p + Len(q.text)
            BY <1>1, <2>1, <2>3, PieceHere
          <6>2. Len(q.text) = 6
            BY <2>6 DEF IsUnit
          <6> QED
            BY <6>1, <6>2
        <5>2. p + 6 = 1 + Len(Joined(Texts(ps), Len(ps)))
          BY <4>1, <5>1
        <5>3. p + 6 \in Nat /\ Stands(e, chars, p + 6) /\ Len(chars) = p + 6 + Len(e)
          BY <1>1, <5>2, EndHere
        <5>4. (p + 6) + 1 = p + 7
          BY <1>3
        <5>5. ~LowEscapeAt(p + 7)
          BY <5>3, <5>4, EndIsRefused
        <5> QED
          BY <3>5, <5>5
      <4>2. CASE k + 1 # Len(ps)
        <5>1. k \in 0..Len(ps) - 2
          BY <2>1, <4>2
        <5> QED
          BY <1>2, <2>3, <2>6, <3>5, <5>1, ReadsPair
      <4> QED
        BY <4>1, <4>2
    <3> HIDE DEF n, q
    <3>6. \/ n \in Low \/ (n \in High /\ ~LowEscapeAt(p + 7))
          \/ n \notin Low /\ n \notin High
          \/ n \in High /\ LowEscapeAt(p + 7)
      BY DEF LowEscapeAt
    <3> QED
      BY <3>3, <3>4, <3>5, <3>6, Zenon
  <2>7. CASE IsPlain(q) \/ IsShort(q)
    <3>1. PICK c \in ScalarValue : ReadsAs(q, p, c)
      <4> HIDE DEF q
      <4> QED
        BY <1>3, <2>2, <2>7, PlainIsRead, ShortIsRead
    <3> QED
      BY <2>4, <3>1
  <2> QED
    BY <2>2, <2>5, <2>6, <2>7, PieceType
<1> QED
  BY <1>4, <1>5

LEMMA MeaningOpening ==
    ASSUME TextInv, OpenQuote, NEW ps \in Seq(Pieces), NEW e \in Endings, Reads(ps, e)
    PROVE  Reads(ps, e)'
<1>1. pos = 1 /\ out = <<>> /\ chars = <<Quote>> \o FlattenSeq(Texts(ps)) \o e
  BY DEF OpenQuote, Reads
<1>2. /\ Texts(ps) \in Seq(Seq(ScalarValue)) /\ Len(Texts(ps)) = Len(ps)
      /\ Units(ps) \in Seq(Seq(Int))
  BY TextsType, UnitsType
<1>3. At(1) = Quote
  <2> DEFINE q == <<Quote>>
  <2>1. q \in Seq(ScalarValue) /\ e \in Seq(ScalarValue) /\ Len(q) = 1 /\ q[1] = Quote
    BY QuoteType, EndingType
  <2>2. chars = q \o FlattenSeq(Texts(ps)) \o e
    BY <1>1
  <2> HIDE DEF q
  <2>3. Stands(q, q \o FlattenSeq(Texts(ps)) \o e, 0)
    BY <1>2, <2>1, JoinedBetween
  <2>4. 1 \in 1..Len(q) /\ 0 \in Nat /\ 0 + 1 = 1
    BY <2>1
  <2> QED
    BY <2>1, <2>2, <2>3, <2>4, AtStands
<1>4. Joined(Texts(ps), 0) = <<>> /\ Joined(Units(ps), 0) = <<>>
  BY <1>2, JoinedZero
<1>5. pc' = "body" /\ pos' = 2 /\ out' = <<>> /\ chars' = chars
  BY <1>1, <1>3 DEF OpenQuote
<1>6. WellFormed(<<>>)
  BY DEF WellFormed
<1>7. ReadUpTo(ps, 0)'
  BY <1>4, <1>5, <1>6, Utf16Empty DEF ReadUpTo
<1>8. 0 \in 0..Len(ps)
  OBVIOUS
<1> QED
  BY <1>1, <1>5, <1>7, <1>8 DEF Reads

LEMMA MeaningClosing ==
    ASSUME TextInv, CloseQuote, NEW ps \in Seq(Pieces), NEW e \in Endings, Reads(ps, e)
    PROVE  Reads(ps, e)'
<1>1. chars = <<Quote>> \o FlattenSeq(Texts(ps)) \o e
  BY DEF Reads
<1>2. PICK k \in 0..Len(ps) : ReadUpTo(ps, k)
  BY DEF CloseQuote, Reads
<1> DEFINE p == 1 + Len(Joined(Texts(ps), k))
<1>3. p \in Nat /\ pos = p + 1
  <2>1. Texts(ps) \in Seq(Seq(ScalarValue)) /\ Len(Texts(ps)) = Len(ps)
    BY TextsType
  <2>2. Joined(Texts(ps), k) \in Seq(ScalarValue)
    BY <2>1, JoinedType
  <2>3. Len(Joined(Texts(ps), k)) \in Nat
    BY <2>2
  <2> QED
    BY <1>2, <2>3 DEF ReadUpTo
<1>4. At(p + 1) = Quote
  BY <1>3 DEF CloseQuote
<1>5. k = Len(ps)
  <2> SUFFICES ASSUME k # Len(ps) PROVE FALSE
    OBVIOUS
  <2> DEFINE q == ps[k + 1]
  <2>1. k \in 0..Len(ps) - 1
    BY <1>2
  <2>2. q \in Pieces /\ Stands(q.text, chars, p)
    BY <1>1, <2>1, PieceHere
  <2> HIDE DEF p, q
  <2>3. At(p + 1) # Quote
    BY <1>3, <2>2, PieceBegins
  <2> QED
    BY <1>4, <2>3
<1>6. /\ Stands(e, chars, p) /\ Len(chars) = p + Len(e)
      /\ Joined(Units(ps), Len(ps)) = FlattenSeq(Units(ps))
  BY <1>1, <1>5, EndHere
<1> HIDE DEF p
<1>7. e # <<>> /\ e[1] = Quote
  BY <1>3, <1>4, <1>6, EndIsRefused
<1>8. Sound(ps, e) /\ Utf16(out) = FlattenSeq(Units(ps))
  BY <1>2, <1>5, <1>6, <1>7 DEF ReadUpTo, Sound
<1>9. pc' = "parsed" /\ out' = out /\ chars' = chars
  BY DEF CloseQuote
<1> QED
  BY <1>1, <1>8, <1>9 DEF Reads, Sound

LEMMA MeaningNext == TextInv /\ MeaningInv /\ [Next]_vars => MeaningInv'
<1> SUFFICES ASSUME TextInv, MeaningInv, [Next]_vars, first' = <<>>,
                    NEW ps \in Seq(Pieces), NEW e \in Endings, spelling' = <<ps, e>>
             PROVE  Reads(ps, e)'
  BY DEF MeaningInv
<1>1. CASE Rewrite
  BY <1>1 DEF Rewrite
<1>2. CASE OpenQuote \/ Character \/ CloseQuote \/ UNCHANGED vars
  <2>1. first = <<>> /\ spelling = <<ps, e>>
    BY <1>2 DEF OpenQuote, Character, CloseQuote, vars, Fail
  <2>2. Reads(ps, e)
    BY <2>1 DEF MeaningInv
  <2>3. CASE UNCHANGED vars
    BY <2>2, <2>3 DEF vars, Reads, ReadUpTo, Sound
  <2> QED
    BY <1>2, <2>2, <2>3, MeaningOpening, MeaningReading, MeaningClosing
<1> QED
  BY <1>1, <1>2 DEF Next

LEMMA MeaningHolds == Spec => []MeaningInv
<1>1. Init => MeaningInv
  <2> SUFFICES ASSUME Init, first = <<>>, NEW ps \in Seq(Pieces), NEW e \in Endings,
                      spelling = <<ps, e>>
               PROVE  Reads(ps, e)
    BY DEF MeaningInv
  <2>1. spelling[1] = ps /\ spelling[2] = e
    OBVIOUS
  <2>2. TextOf(ps) = FlattenSeq(Texts(ps))
    BY TextsType
  <2> QED
    BY <2>1, <2>2 DEF Init, Reads
<1>2. TextInv /\ MeaningInv /\ [Next]_vars => MeaningInv'
  BY MeaningNext
<1> QED
  BY <1>1, <1>2, TextHolds, PTL DEF Spec

\* ReadsTheMeaning, for spellings of any length out of any pieces: parse_string
\* refuses a spelling if and only if it is not closed, has a piece that means
\* nothing or half of a surrogate pair, and otherwise returns the string that has
\* the code units of its pieces (canonical.rs:16-18, 24-25).
THEOREM StringIsItsMeaning == Spec => []ReadsTheMeaning
<1>1. TextInv /\ MeaningInv => ReadsTheMeaning
  <2> SUFFICES ASSUME TextInv, MeaningInv, first = <<>>, pc \in {"parsed", "failed"}
               PROVE  ReadsTheMeaning
    BY DEF ReadsTheMeaning
  <2>1. PICK ps \in Seq(Pieces), e \in Endings : spelling = <<ps, e>>
    BY DEF TextInv
  <2>2. Reads(ps, e)
    BY <2>1 DEF MeaningInv
  <2>3. Meaning = FlattenSeq(Units(ps)) /\ spelling[1] = ps /\ spelling[2] = e
    BY <2>1 DEF Meaning, Units
  <2> QED
    BY <2>2, <2>3 DEF Reads, Sound, ReadsTheMeaning
<1> QED
  BY <1>1, TextHolds, MeaningHolds, PTL
=============================================================================

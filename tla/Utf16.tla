------------------------------- MODULE Utf16 -------------------------------
(***************************************************************************)
(* Strings as sequences of Unicode scalar values, their UTF-16 code units and  *)
(* the order of member names in the canonical form.                         *)
(***************************************************************************)
EXTENDS Integers, SequencesExt

High == 55296..56319  \* 0xD800..0xDBFF
Low == 56320..57343   \* 0xDC00..0xDFFF
IsScalar(c) == c \in Nat /\ c <= 1114111 /\ c \notin High \cup Low

\* char::encode_utf16.
UnitsOf(c) ==
    IF c < 65536 THEN <<c>>
    ELSE <<55296 + (c - 65536) \div 1024, 56320 + ((c - 65536) % 1024)>>

Utf16(s) == FlattenSeq([i \in 1..Len(s) |-> UnitsOf(s[i])])

\* The scalar value of a surrogate pair.
Combine(high, low) == 65536 + (high - 55296) * 1024 + (low - 56320)

\* How the loop that both are read in ends: at the first place where they differ, or at
\* the end of one of them.
Compare(x, y) ==
    LET k == Max({k \in 0..Len(x) : k <= Len(y) /\ \A i \in 1..k : x[i] = y[i]})
    IN  IF k < Len(x) /\ k < Len(y) THEN x[k + 1] - y[k + 1] ELSE Len(x) - Len(y)

\* Mutant of CmpUtf16: the order of scalar values, which is that of UTF-8 bytes.
CmpUtf16_Scalars(a, b) == Compare(a, b)

\* cmp_utf16: negative, zero or positive as a is less than, equal to or greater
\* than b.
CmpUtf16(a, b) == Compare(Utf16(a), Utf16(b))

\* The lexicographic order.
LexLess(a, b) ==
    \E k \in 0..Len(a) :
        /\ k < Len(b)
        /\ \A i \in 1..k : a[i] = b[i]
        /\ k < Len(a) => a[k + 1] < b[k + 1]
=============================================================================

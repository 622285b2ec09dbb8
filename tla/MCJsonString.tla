---------------------------- MODULE MCJsonString ----------------------------
(***************************************************************************)
(* JsonString over spellings of up to three pieces: characters, the escapes of   *)
(* each kind, halves of surrogate pairs in either order, and texts that mean     *)
(* nothing.                                                                *)
(***************************************************************************)
EXTENDS JsonString

Piece(text, units) == [text |-> text, units |-> units]

\* A backslash, the letter u and four hexadecimal digits.
Unicode(a, b, c, d) == <<92, 117, a, b, c, d>>

MCPieces == {
    Piece(<<122>>, <<122>>), Piece(<<47>>, <<47>>),      \* z and the slash
    Piece(<<65374>>, <<65374>>),                         \* U+FF5E
    Piece(<<128512>>, <<55357, 56832>>),                 \* U+1F600
    Piece(<<92, 110>>, <<10>>), Piece(<<92, 47>>, <<47>>), Piece(<<92, 34>>, <<34>>),
    Piece(<<92, 92>>, <<92>>),
    Piece(Unicode(48, 48, 55, 97), <<122>>),             \* z again
    Piece(Unicode(48, 48, 49, 70), <<31>>), Piece(Unicode(48, 48, 48, 56), <<8>>),
    Piece(Unicode(68, 56, 51, 68), <<55357>>),           \* a high surrogate
    Piece(Unicode(100, 101, 48, 48), <<56832>>),         \* a low surrogate
    Piece(Unicode(69, 48, 48, 48), <<57344>>),           \* U+E000
    Piece(<<31>>, <<>>), Piece(<<92, 120>>, <<>>), Piece(<<92, 117, 48, 122>>, <<>>)}

\* A text that is closed, one that something follows, and three cut off.
MCEndings == {<<34>>, <<34, 44>>, <<>>, <<92>>, <<92, 117, 48>>}
=============================================================================

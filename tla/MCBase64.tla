------------------------------ MODULE MCBase64 ------------------------------
(***************************************************************************)
(* Instances of Base64 for TLC.                                            *)
(***************************************************************************)
EXTENDS Base64

SeqUpTo(S, n) == UNION {[1 .. k -> S] : k \in 0 .. n}

\* Short texts over bytes with all and no bits set, "/", "?", DEL, "A" and a
\* byte with the sign bit; and one that is longer than the accumulator.
SomeBytes == {0, 47, 63, 65, 127, 128, 255}
SomeTexts == SeqUpTo(SomeBytes, 4) \cup {[k \in 1 .. 10 |-> (37 * k) % 256]}

\* Codes with whitespace, padding and illegal characters anywhere.
SomeCodes == SeqUpTo({0, 41, Slash, Pad, Space, Illegal}, 5)
=============================================================================

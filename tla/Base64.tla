------------------------------- MODULE Base64 -------------------------------
(***************************************************************************)
(* Base64Coder (src/jepsen/utils/base64.cpp): the loops of the encoder,    *)
(* whose result cachedWget uses as a file name, and of the decoder.        *)
(*                                                                         *)
(* A character of a code is the index it has in b64_table, so that 63 is   *)
(* the slash; the characters without an index are Pad ('='), Space (any    *)
(* isspace accepts) and Illegal (the rest, and every negative char). Both  *)
(* loops shift into one accumulator of Width bits that overflows.          *)
(***************************************************************************)
EXTENDS Integers, Sequences, FiniteSets

CONSTANTS Texts,            \* byte strings to encode
          Codes,            \* character strings to decode
          Width,            \* bits of an unsigned int
          Asserts           \* is the program built with assertions?

Byte    == 0 .. 255
Digit   == 0 .. 63
Pad     == 64
Space   == 65
Illegal == 66
Slash   == 63

ASSUME Base64Assumption ==
  /\ Texts \subseteq Seq(Byte)
  /\ Codes \subseteq Seq(Digit \cup {Pad, Space, Illegal})
  /\ Width \in Nat /\ Width >= 16
  /\ Asserts \in BOOLEAN

VARIABLES
  pc,               \* "encoding", "encoded" or "aborted" by an assertion;
                    \* "decoding", "decoded" or "thrown"
  bindata,          \* the text given to base64_encode
  ascdata,          \* the code given to base64_decode
  i,                \* how many elements of it the loop has taken
  bits_collected, accumulator,
  retval,           \* what is returned
  outpos            \* how many digits the encoder has put there

args == <<bindata, ascdata>>
vars == <<pc, args, i, bits_collected, accumulator, retval, outpos>>

-----------------------------------------------------------------------------
Wrap(n) == n % (2 ^ Width)

\* Mutant: a negative char is not cut to its eight bits before the "or".
SignExtended(n, b) ==
  IF b >= 128 THEN 2 ^ Width - 256 + b ELSE Wrap(accumulator * 2 ^ n + b)

\* The integer arithmetic of the code.
ShiftIn(n, b)   == Wrap(accumulator * 2 ^ n + b)
LastBits(n, s)  == (accumulator \div 2 ^ s) % 2 ^ n

\* The length of the code of n bytes.
PaddedSize(n) == ((n + 2) \div 3) * 4

\* A call of the encoder or of the decoder.
Encode(t) ==
  /\ pc = "encoding" /\ bindata = t /\ ascdata = <<>>
  /\ retval = [k \in 1 .. PaddedSize(Len(t)) |-> Pad]

Decode(c) == pc = "decoding" /\ bindata = <<>> /\ ascdata = c /\ retval = <<>>

Init ==
  /\ (\E t \in Texts : Encode(t)) \/ \E c \in Codes : Decode(c)
  /\ i = 0 /\ bits_collected = 0 /\ accumulator = 0 /\ outpos = 0

\* The for of base64_encode takes a byte once the while has stopped.
Take ==
  /\ pc = "encoding" /\ i < Len(bindata) /\ bits_collected < 6
  /\ accumulator' = ShiftIn(8, bindata[i + 1])
  /\ bits_collected' = bits_collected + 8
  /\ i' = i + 1
  /\ UNCHANGED <<pc, args, retval, outpos>>

\* retval[outpos++] = b64_table[digit].
Put(digit) ==
  /\ outpos' = outpos + 1
  /\ retval' = [retval EXCEPT ![outpos + 1] = digit]

\* A round of the while of base64_encode.
Emit ==
  /\ pc = "encoding" /\ bits_collected >= 6
  /\ bits_collected' = bits_collected - 6
  /\ Put(LastBits(6, bits_collected'))
  /\ UNCHANGED <<pc, args, i, accumulator>>

\* Mutant: the trailing bits are not moved to the upper end of their digit.
NoTrailingShift(n) == accumulator

\* accumulator <<= 6 - bits_collected.
TrailingShift(n) == Wrap(accumulator * 2 ^ (6 - n))

\* The assertions on outpos. The type of size() - 2 is unsigned: without any
\* digits it is the largest number.
SizeAsserted(digits, size) == size >= 2 /\ size - 2 <= digits /\ digits <= size

\* The loop is over: the trailing bits, if any, make the last digit.
Flush ==
  /\ pc = "encoding" /\ i = Len(bindata) /\ bits_collected < 6
  /\ IF bits_collected > 0
     THEN /\ accumulator' = TrailingShift(bits_collected)
          /\ Put(accumulator' % 2 ^ 6)
     ELSE UNCHANGED <<accumulator, retval, outpos>>
  /\ pc' = IF Asserts /\ ~SizeAsserted(outpos', Len(retval')) THEN "aborted" ELSE "encoded"
  /\ UNCHANGED <<args, i, bits_collected>>

\* The code that was just made is given to the decoder.
DecodeCode ==
  /\ pc = "encoded" /\ pc' = "decoding"
  /\ ascdata' = retval /\ retval' = <<>>
  /\ i' = 0 /\ bits_collected' = 0 /\ accumulator' = 0
  /\ UNCHANGED <<bindata, outpos>>

\* Mutant: padding ends the code with an exception.
SkipSpace(c) == c = Space

\* Whitespace and padding are skipped.
Skips(c) == c \in {Space, Pad}

\* A round of the for of base64_decode.
Read ==
  /\ pc = "decoding" /\ i < Len(ascdata)
  /\ LET c == ascdata[i + 1]
         n == bits_collected + 6
     IN
     \/ /\ Skips(c)
        /\ i' = i + 1
        /\ UNCHANGED <<pc, accumulator, bits_collected, retval>>
     \/ /\ ~Skips(c) /\ c \notin Digit
        /\ pc' = "thrown"
        /\ UNCHANGED <<i, accumulator, bits_collected, retval>>
     \/ /\ c \in Digit
        /\ i' = i + 1
        /\ accumulator' = ShiftIn(6, c)
        /\ bits_collected' = IF n >= 8 THEN n - 8 ELSE n
        /\ retval' = IF n >= 8
                     THEN Append(retval, (accumulator' \div 2 ^ bits_collected') % 2 ^ 8)
                     ELSE retval
        /\ UNCHANGED pc
  /\ UNCHANGED <<args, outpos>>

ReturnText ==
  /\ pc = "decoding" /\ i = Len(ascdata)
  /\ pc' = "decoded"
  /\ UNCHANGED <<args, i, bits_collected, accumulator, retval, outpos>>

Next == Take \/ Emit \/ Flush \/ DecodeCode \/ Read \/ ReturnText
Spec == Init /\ [][Next]_vars

-----------------------------------------------------------------------------
(***************************************************************************)
(* Reference: a code is the bits of a text, six to the digit.              *)
(***************************************************************************)

\* Bit k of a string of numbers of width bits, the first one upwards from 0;
\* behind the end there are zeros.
Bit(s, width, k) ==
  LET n == k \div width
  IN  IF n < Len(s) THEN (s[n + 1] \div 2 ^ (width - 1 - (k % width))) % 2 ELSE 0

SixBits(s, k) ==
  32 * Bit(s, 8, k) + 16 * Bit(s, 8, k + 1) + 8 * Bit(s, 8, k + 2)
    + 4 * Bit(s, 8, k + 3) + 2 * Bit(s, 8, k + 4) + Bit(s, 8, k + 5)

EightBits(s, k) ==
  128 * Bit(s, 6, k) + 64 * Bit(s, 6, k + 1) + 32 * Bit(s, 6, k + 2) + 16 * Bit(s, 6, k + 3)
    + 8 * Bit(s, 6, k + 4) + 4 * Bit(s, 6, k + 5) + 2 * Bit(s, 6, k + 6) + Bit(s, 6, k + 7)

CodeOf(t) ==
  [k \in 1 .. PaddedSize(Len(t)) |->
     IF 6 * (k - 1) < 8 * Len(t) THEN SixBits(t, 6 * (k - 1)) ELSE Pad]

\* The digits of a code: number r is the one at the place up to which there
\* are r of them.
DigitPlaces(c, k) == {j \in 1 .. k : c[j] \in Digit}
Rank(c, k)        == Cardinality(DigitPlaces(c, k))

Digits(c) ==
  [r \in 1 .. Rank(c, Len(c)) |->
     c[CHOOSE k \in DigitPlaces(c, Len(c)) : Rank(c, k) = r]]

TextOf(c) ==
  LET d == Digits(c)
  IN  [k \in 1 .. (6 * Len(d)) \div 8 |-> EightBits(d, 8 * (k - 1))]

-----------------------------------------------------------------------------
(***************************************************************************)
(* Properties.                                                             *)
(***************************************************************************)

\* The ranges of the variables. What is put into the code stays in it.
TypeOK ==
  /\ pc \in {"encoding", "encoded", "aborted", "decoding", "decoded", "thrown"}
  /\ bindata \in Seq(Byte)
  /\ ascdata \in Seq(Digit \cup {Pad, Space, Illegal})
  /\ i \in Nat
  /\ bits_collected \in 0 .. 13
  /\ accumulator \in 0 .. (2 ^ Width - 1)
  /\ retval \in Seq(Byte)
  /\ outpos \in Nat

\* The encoder makes the code of the text, although bits that were put long
\* ago overflow at the upper end of the accumulator (base64.cpp:30-42). Only
\* the empty text fails an assertion, that on size() - 2 (base64.cpp:39-44).
EncodesText ==
  /\ pc = "encoded" => retval = CodeOf(bindata)
  /\ pc = "aborted" => bindata = <<>>

\* The decoder refuses what has a character that is none of a code, wherever
\* it stands, and otherwise returns the whole bytes in the digits, however
\* they are spaced and padded (base64.cpp:55-71).
DecodesOrThrows ==
  /\ pc = "thrown"  => \E k \in DOMAIN ascdata : ascdata[k] = Illegal
  /\ pc = "decoded" => /\ \A k \in DOMAIN ascdata : ascdata[k] # Illegal
                       /\ retval = TextOf(ascdata)

\* The code of an ASCII url is the name of a file in the cache directory, and
\* not a path into a directory that is missing there, unless a question mark
\* (or DEL) is one of its third, sixth, ... characters (Control.cpp:21-22).
SlashInName ==
  pc = "encoded" /\ (\A k \in DOMAIN bindata : bindata[k] < 128) =>
    ((\E k \in DOMAIN retval : retval[k] = Slash) <=>
       \E k \in DOMAIN bindata : k % 3 = 0 /\ bindata[k] \in {63, 127})
=============================================================================

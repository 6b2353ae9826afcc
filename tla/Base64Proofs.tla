----------------------------- MODULE Base64Proofs -----------------------------
(***************************************************************************)
(* Proofs about Base64, for all texts and codes of any length, and every   *)
(* accumulator of at least 16 bits.                                        *)
(***************************************************************************)
EXTENDS Base64, FiniteSetTheorems, FunctionTheorems, SequenceTheorems, TLAPS

-----------------------------------------------------------------------------
(***************************************************************************)
(* The accumulator. What overflows at its upper end does not touch its     *)
(* last 16 bits, because 2^16 divides the modulus.                         *)
(***************************************************************************)

\* A set of a + b elements has as many subsets as there are pairs of subsets
\* of its first a and its last b elements.
LEMMA PowerOfSum ==
  ASSUME NEW a \in Nat, NEW b \in Nat
  PROVE  2 ^ (a + b) = 2 ^ a * 2 ^ b
<1> DEFINE A == 1 .. a
           B == a + 1 .. a + b
           C == 1 .. a + b
           f == [x \in SUBSET C |-> <<x \cap A, x \cap B>>]
<1>1. IsFiniteSet(A) /\ Cardinality(A) = a
  BY FS_Interval
<1>2. IsFiniteSet(B) /\ Cardinality(B) = b
  <2>1. a + 1 \in Int /\ a + b \in Int
    OBVIOUS
  <2>2. Cardinality(B) = IF a + 1 > a + b THEN 0 ELSE a + b - (a + 1) + 1
    BY <2>1, FS_Interval
  <2> QED BY <2>1, <2>2, FS_Interval
<1>3. IsFiniteSet(C) /\ Cardinality(C) = a + b
  <2>1. 1 \in Int /\ a + b \in Int
    OBVIOUS
  <2>2. Cardinality(C) = IF 1 > a + b THEN 0 ELSE a + b - 1 + 1
    BY <2>1, FS_Interval
  <2>3. IsFiniteSet(C)
    BY <2>1, FS_Interval
  <2> HIDE DEF C, f
  <2> QED BY <2>1, <2>2, <2>3
<1>4. /\ IsFiniteSet(SUBSET A) /\ Cardinality(SUBSET A) = 2 ^ a
      /\ IsFiniteSet(SUBSET B) /\ Cardinality(SUBSET B) = 2 ^ b
      /\ IsFiniteSet(SUBSET C) /\ Cardinality(SUBSET C) = 2 ^ (a + b)
  <2> HIDE DEF A, B, C
  <2> QED BY <1>1, <1>2, <1>3, FS_SUBSET
<1>5. C = A \cup B /\ A \cap B = {}
  OBVIOUS
<1> HIDE DEF A, B, C
<1>6. f \in Bijection(SUBSET C, (SUBSET A) \X (SUBSET B))
  <2>1. \A x \in SUBSET C : x \cap A \in SUBSET A /\ x \cap B \in SUBSET B
    OBVIOUS
  <2>2. \A x \in SUBSET C : f[x] = <<x \cap A, x \cap B>>
    OBVIOUS
  <2>3. f \in [SUBSET C -> (SUBSET A) \X (SUBSET B)]
    BY <2>1, Zenon
  <2> HIDE DEF f
  <2>4. ASSUME NEW x \in SUBSET C, NEW y \in SUBSET C, f[x] = f[y]
        PROVE  x = y
    <3>1. x \cap A = y \cap A /\ x \cap B = y \cap B
      BY <2>2, <2>4
    <3> QED BY <3>1, <1>5
  <2>5. ASSUME NEW u \in SUBSET A, NEW v \in SUBSET B
        PROVE  \E x \in SUBSET C : f[x] = <<u, v>>
    <3>1. u \cup v \in SUBSET C
      BY <1>5
    <3>2. (u \cup v) \cap A = u /\ (u \cup v) \cap B = v
      BY <1>5
    <3>3. f[u \cup v] = <<u, v>>
      BY <2>2, <3>1, <3>2
    <3> QED BY <3>1, <3>3
  <2>6. \A p \in (SUBSET A) \X (SUBSET B) : \E x \in SUBSET C : f[x] = p
    BY <2>5
  <2>7. f \in Injection(SUBSET C, (SUBSET A) \X (SUBSET B))
    <3>1. DOMAIN f = SUBSET C
      BY <2>3
    <3>2. IsInjective(f)
      BY <2>4, <3>1, Zenon DEF IsInjective
    <3> QED BY <2>3, <3>2, Zenon DEF Injection
  <2>8. f \in Surjection(SUBSET C, (SUBSET A) \X (SUBSET B))
    BY <2>3, <2>6, Zenon DEF Surjection
  <2> QED BY <2>7, <2>8, Zenon DEF Bijection
<1> HIDE DEF f
<1>7. Cardinality((SUBSET A) \X (SUBSET B)) = Cardinality(SUBSET C)
  <2>1. ExistsBijection(SUBSET C, (SUBSET A) \X (SUBSET B))
    BY <1>6 DEF ExistsBijection
  <2> QED BY <1>4, <2>1, FS_Bijection
<1>8. Cardinality((SUBSET A) \X (SUBSET B)) = Cardinality(SUBSET A) * Cardinality(SUBSET B)
  BY <1>4, FS_Product
<1> QED BY <1>4, <1>7, <1>8

\* The modulus of the accumulator is a multiple of 2^16.
LEMMA Modulus == 2 ^ Width \in Nat /\ \E k \in Nat \ {0} : 2 ^ Width = 65536 * k
<1> DEFINE k == 2 ^ (Width - 16)
<1>1. Width - 16 \in Nat /\ Width = 16 + (Width - 16)
  BY Base64Assumption
<1>2. 2 ^ Width = 2 ^ 16 * k
  BY <1>1, PowerOfSum
<1>3. k \in Nat /\ k # 0
  <2> DEFINE S == 1 .. Width - 16
  <2>1. IsFiniteSet(S) /\ Cardinality(S) = Width - 16
    BY <1>1, FS_Interval
  <2>2. IsFiniteSet(SUBSET S) /\ Cardinality(SUBSET S) = k
    BY <2>1, FS_SUBSET
  <2>3. {} \in SUBSET S
    OBVIOUS
  <2> HIDE DEF S, k
  <2> QED BY <2>2, <2>3, FS_EmptySet, FS_CardinalityType
<1> HIDE DEF k
<1> QED BY <1>2, <1>3

\* Two numbers with the same last 16 bits.
SameTail(m, n) == m % 65536 = n % 65536

\* Wrap keeps the last 16 bits.
LEMMA WrapKeeps ==
  ASSUME NEW n \in Nat
  PROVE  /\ Wrap(n) \in Nat /\ Wrap(n) \in 0 .. 2 ^ Width - 1
         /\ SameTail(Wrap(n), n)
<1>1. PICK k \in Nat \ {0} : 2 ^ Width = 65536 * k
  BY Modulus
<1> DEFINE M == 65536 * k
           q == n \div M
           r == n % M
           z == k * q
<1>2. M \in Nat /\ M > 0
  BY <1>1
<1>3. n = M * q + r /\ q \in Int /\ r \in 0 .. M - 1
  <2> HIDE DEF M
  <2> QED BY <1>2
<1>4. M * q = 65536 * z /\ z \in Int
  BY <1>3
<1>5. r % 65536 = n % 65536
  <2> HIDE DEF M, q, r, z
  <2> QED BY <1>2, <1>3, <1>4
<1>6. Wrap(n) = r /\ r \in Nat
  <2> HIDE DEF q, z
  <2> QED BY <1>1, <1>3 DEF Wrap
<1> HIDE DEF M, q, r, z
<1> QED BY <1>1, <1>3, <1>5, <1>6 DEF SameTail, M
-----------------------------------------------------------------------------
(***************************************************************************)
(* The reference, by groups of three bytes or four digits instead of bits. *)
(***************************************************************************)

\* Element k of a string; there are zeros around it.
At(s, k) == IF k \in 1 .. Len(s) THEN s[k] ELSE 0

\* Each bit halves the number.
LEMMA Halves ==
  ASSUME NEW b \in Nat
  PROVE  /\ b         = 2 * (b \div 2) + (b % 2)
         /\ b \div 2  = 2 * (b \div 4) + ((b \div 2) % 2)
         /\ b \div 4  = 2 * (b \div 8) + ((b \div 4) % 2)
         /\ b \div 8  = 2 * (b \div 16) + ((b \div 8) % 2)
         /\ b \div 16 = 2 * (b \div 32) + ((b \div 16) % 2)
         /\ b \div 32 = 2 * (b \div 64) + ((b \div 32) % 2)
         /\ b \div 64 = 2 * (b \div 128) + ((b \div 64) % 2)
OBVIOUS

\* The first two, four and six bits of a byte.
LEMMA HighBitsOfByte ==
  ASSUME NEW b \in 0 .. 255
  PROVE  /\ 2 * ((b \div 128) % 2) + ((b \div 64) % 2) = b \div 64
         /\ 8 * ((b \div 128) % 2) + 4 * ((b \div 64) % 2) + 2 * ((b \div 32) % 2)
              + ((b \div 16) % 2) = b \div 16
         /\ 32 * ((b \div 128) % 2) + 16 * ((b \div 64) % 2) + 8 * ((b \div 32) % 2)
              + 4 * ((b \div 16) % 2) + 2 * ((b \div 8) % 2) + ((b \div 4) % 2) = b \div 4
<1>1. (b \div 128) % 2 = b \div 128
  OBVIOUS
<1> QED BY <1>1, Halves

\* The first two, four and six bits of a digit.
LEMMA HighBitsOfDigit ==
  ASSUME NEW b \in 0 .. 63
  PROVE  /\ 2 * ((b \div 32) % 2) + ((b \div 16) % 2) = b \div 16
         /\ 8 * ((b \div 32) % 2) + 4 * ((b \div 16) % 2) + 2 * ((b \div 8) % 2)
              + ((b \div 4) % 2) = b \div 4
         /\ 32 * ((b \div 32) % 2) + 16 * ((b \div 16) % 2) + 8 * ((b \div 8) % 2)
              + 4 * ((b \div 4) % 2) + 2 * ((b \div 2) % 2) + (b % 2) = b
<1>1. (b \div 32) % 2 = b \div 32
  OBVIOUS
<1> QED BY <1>1, Halves

\* The last two, four and six bits of either.
LEMMA LowBits ==
  ASSUME NEW b \in Nat
  PROVE  /\ 2 * ((b \div 2) % 2) + (b % 2) = b % 4
         /\ 8 * ((b \div 8) % 2) + 4 * ((b \div 4) % 2) + 2 * ((b \div 2) % 2) + (b % 2) = b % 16
         /\ 32 * ((b \div 32) % 2) + 16 * ((b \div 16) % 2) + 8 * ((b \div 8) % 2)
              + 4 * ((b \div 4) % 2) + 2 * ((b \div 2) % 2) + (b % 2) = b % 64
<1>1. /\ b % 4  = b - 4 * (b \div 4)
      /\ b % 16 = b - 16 * (b \div 16)
      /\ b % 64 = b - 64 * (b \div 64)
  OBVIOUS
<1> QED BY <1>1, Halves

LEMMA AtType ==
  ASSUME NEW S, 0 \in S, NEW s \in Seq(S), NEW k \in Int
  PROVE  At(s, k) \in S
<1>1. CASE k \in 1 .. Len(s)
  BY <1>1, ElementOfSeq DEF At
<1>2. CASE k \notin 1 .. Len(s)
  BY <1>2 DEF At
<1> QED BY <1>1, <1>2

\* The powers of two that the bits of an element are divided by.
LEMMA Powers ==
  ASSUME NEW e \in 0 .. 7
  PROVE  2 ^ e \in {1, 2, 4, 8, 16, 32, 64, 128}
<1>1. e = 0 => 2 ^ e = 1
  OBVIOUS
<1>2. e = 1 => 2 ^ e = 2
  OBVIOUS
<1>3. e = 2 => 2 ^ e = 4
  OBVIOUS
<1>4. e = 3 => 2 ^ e = 8
  OBVIOUS
<1>5. e = 4 => 2 ^ e = 16
  OBVIOUS
<1>6. e = 5 => 2 ^ e = 32
  OBVIOUS
<1>7. e = 6 => 2 ^ e = 64
  OBVIOUS
<1>8. e = 7 => 2 ^ e = 128
  OBVIOUS
<1>9. e \in {0, 1, 2, 3, 4, 5, 6, 7}
  OBVIOUS
<1> DEFINE p == 2 ^ e
<1> HIDE DEF p
<1>10. p \in {1, 2, 4, 8, 16, 32, 64, 128}
  BY <1>1, <1>2, <1>3, <1>4, <1>5, <1>6, <1>7, <1>8, <1>9 DEF p
<1> QED BY <1>10 DEF p

\* Bit j of an element, for the two widths of the coder.
LEMMA BitOfElement ==
  ASSUME NEW S, NEW s \in Seq(S), NEW m \in Nat, NEW j \in Nat, NEW w \in {6, 8}, j < w
  PROVE  Bit(s, w, w * m + j) = (At(s, m + 1) \div 2 ^ (w - 1 - j)) % 2
<1>1. (w * m + j) \div w = m /\ (w * m + j) % w = j
  <2>1. CASE w = 6
    BY <2>1
  <2>2. CASE w = 8
    BY <2>2
  <2> QED BY <2>1, <2>2
<1>2. m < Len(s) <=> m + 1 \in 1 .. Len(s)
  BY LenProperties
<1> DEFINE p == 2 ^ (w - 1 - j)
<1>3. p \in {1, 2, 4, 8, 16, 32, 64, 128}
  <2>1. w - 1 - j \in 0 .. 7
    OBVIOUS
  <2> QED BY <2>1, Powers
<1>4. 0 \div p = 0 /\ 0 % 2 = 0
  <2> HIDE DEF p
  <2> QED BY <1>3
<1>5. Bit(s, w, w * m + j) = IF m < Len(s) THEN (s[m + 1] \div p) % 2 ELSE 0
  BY <1>1, Zenon DEF Bit
<1> HIDE DEF p
<1>6. Bit(s, w, w * m + j) = (At(s, m + 1) \div p) % 2
  <2>1. CASE m < Len(s)
    BY <1>2, <1>5, <2>1 DEF At
  <2>2. CASE ~(m < Len(s))
    BY <1>2, <1>4, <1>5, <2>2 DEF At
  <2> QED BY <2>1, <2>2
<1> QED BY <1>6 DEF p
\* The bits of a byte.
LEMMA BitsOfByte ==
  ASSUME NEW s \in Seq(Byte), NEW m \in Nat
  PROVE  /\ Bit(s, 8, 8 * m + 0) = (At(s, m + 1) \div 128) % 2
         /\ Bit(s, 8, 8 * m + 1) = (At(s, m + 1) \div 64) % 2
         /\ Bit(s, 8, 8 * m + 2) = (At(s, m + 1) \div 32) % 2
         /\ Bit(s, 8, 8 * m + 3) = (At(s, m + 1) \div 16) % 2
         /\ Bit(s, 8, 8 * m + 4) = (At(s, m + 1) \div 8) % 2
         /\ Bit(s, 8, 8 * m + 5) = (At(s, m + 1) \div 4) % 2
         /\ Bit(s, 8, 8 * m + 6) = (At(s, m + 1) \div 2) % 2
         /\ Bit(s, 8, 8 * m + 7) = At(s, m + 1) % 2
<1>1. At(s, m + 1) \in Nat
  <2>1. 0 \in Byte /\ Byte \subseteq Nat /\ m + 1 \in Int
    BY DEF Byte
  <2>2. At(s, m + 1) \in Byte
    BY <2>1, AtType
  <2> QED BY <2>1, <2>2
<1>2. \A j \in 0 .. 7 : Bit(s, 8, 8 * m + j) = (At(s, m + 1) \div 2 ^ (7 - j)) % 2
  <2> SUFFICES ASSUME NEW j \in 0 .. 7
               PROVE  Bit(s, 8, 8 * m + j) = (At(s, m + 1) \div 2 ^ (7 - j)) % 2
    OBVIOUS
  <2>1. j \in Nat /\ j < 8 /\ 8 - 1 - j = 7 - j
    OBVIOUS
  <2> QED BY <2>1, BitOfElement
<1>3. 7 - 0 = 7 /\ 2 ^ 7 = 128
  OBVIOUS
<1>4. 7 - 1 = 6 /\ 2 ^ 6 = 64
  OBVIOUS
<1>5. 7 - 2 = 5 /\ 2 ^ 5 = 32
  OBVIOUS
<1>6. 7 - 3 = 4 /\ 2 ^ 4 = 16
  OBVIOUS
<1>7. 7 - 4 = 3 /\ 2 ^ 3 = 8
  OBVIOUS
<1>8. 7 - 5 = 2 /\ 2 ^ 2 = 4
  OBVIOUS
<1>9. 7 - 6 = 1 /\ 2 ^ 1 = 2
  OBVIOUS
<1>10. 7 - 7 = 0 /\ 2 ^ 0 = 1
  OBVIOUS
<1>11. At(s, m + 1) \div 1 = At(s, m + 1)
  BY <1>1
<1> HIDE DEF At, Bit
<1> QED BY <1>2, <1>3, <1>4, <1>5, <1>6, <1>7, <1>8, <1>9, <1>10, <1>11

\* The bits of a digit.
LEMMA BitsOfDigit ==
  ASSUME NEW s \in Seq(Digit), NEW m \in Nat
  PROVE  /\ Bit(s, 6, 6 * m + 0) = (At(s, m + 1) \div 32) % 2
         /\ Bit(s, 6, 6 * m + 1) = (At(s, m + 1) \div 16) % 2
         /\ Bit(s, 6, 6 * m + 2) = (At(s, m + 1) \div 8) % 2
         /\ Bit(s, 6, 6 * m + 3) = (At(s, m + 1) \div 4) % 2
         /\ Bit(s, 6, 6 * m + 4) = (At(s, m + 1) \div 2) % 2
         /\ Bit(s, 6, 6 * m + 5) = At(s, m + 1) % 2
<1>1. At(s, m + 1) \in Nat
  <2>1. 0 \in Digit /\ Digit \subseteq Nat /\ m + 1 \in Int
    BY DEF Digit
  <2>2. At(s, m + 1) \in Digit
    BY <2>1, AtType
  <2> QED BY <2>1, <2>2
<1>2. \A j \in 0 .. 5 : Bit(s, 6, 6 * m + j) = (At(s, m + 1) \div 2 ^ (5 - j)) % 2
  <2> SUFFICES ASSUME NEW j \in 0 .. 5
               PROVE  Bit(s, 6, 6 * m + j) = (At(s, m + 1) \div 2 ^ (5 - j)) % 2
    OBVIOUS
  <2>1. j \in Nat /\ j < 6 /\ 6 - 1 - j = 5 - j
    OBVIOUS
  <2> QED BY <2>1, BitOfElement
<1>3. 5 - 0 = 5 /\ 2 ^ 5 = 32
  OBVIOUS
<1>4. 5 - 1 = 4 /\ 2 ^ 4 = 16
  OBVIOUS
<1>5. 5 - 2 = 3 /\ 2 ^ 3 = 8
  OBVIOUS
<1>6. 5 - 3 = 2 /\ 2 ^ 2 = 4
  OBVIOUS
<1>7. 5 - 4 = 1 /\ 2 ^ 1 = 2
  OBVIOUS
<1>8. 5 - 5 = 0 /\ 2 ^ 0 = 1
  OBVIOUS
<1>9. At(s, m + 1) \div 1 = At(s, m + 1)
  BY <1>1
<1> HIDE DEF At, Bit
<1> QED BY <1>2, <1>3, <1>4, <1>5, <1>6, <1>7, <1>8, <1>9

\* The number with the six given bits.
Six(u, v, w, x, y, z) == 32 * u + 16 * v + 8 * w + 4 * x + 2 * y + z

\* The four digits of three bytes a, b and c.
LEMMA FirstDigit ==
  ASSUME NEW a \in 0 .. 255
  PROVE  Six((a \div 128) % 2, (a \div 64) % 2, (a \div 32) % 2,
              (a \div 16) % 2, (a \div 8) % 2, (a \div 4) % 2) = a \div 4
BY HighBitsOfByte DEF Six

LEMMA SecondDigit ==
  ASSUME NEW a \in 0 .. 255, NEW b \in 0 .. 255
  PROVE  Six((a \div 2) % 2, a % 2, (b \div 128) % 2,
              (b \div 64) % 2, (b \div 32) % 2, (b \div 16) % 2) = 16 * (a % 4) + (b \div 16)
<1>1. 2 * ((a \div 2) % 2) + (a % 2) = a % 4
  BY LowBits
<1>2. 8 * ((b \div 128) % 2) + 4 * ((b \div 64) % 2) + 2 * ((b \div 32) % 2)
        + ((b \div 16) % 2) = b \div 16
  BY HighBitsOfByte
<1> QED BY <1>1, <1>2 DEF Six

LEMMA ThirdDigit ==
  ASSUME NEW b \in 0 .. 255, NEW c \in 0 .. 255
  PROVE  Six((b \div 8) % 2, (b \div 4) % 2, (b \div 2) % 2,
              b % 2, (c \div 128) % 2, (c \div 64) % 2) = 4 * (b % 16) + (c \div 64)
<1>1. 8 * ((b \div 8) % 2) + 4 * ((b \div 4) % 2) + 2 * ((b \div 2) % 2) + (b % 2) = b % 16
  BY LowBits
<1>2. 2 * ((c \div 128) % 2) + ((c \div 64) % 2) = c \div 64
  BY HighBitsOfByte
<1> QED BY <1>1, <1>2 DEF Six

LEMMA FourthDigit ==
  ASSUME NEW c \in 0 .. 255
  PROVE  Six((c \div 32) % 2, (c \div 16) % 2, (c \div 8) % 2,
              (c \div 4) % 2, (c \div 2) % 2, c % 2) = c % 64
BY LowBits DEF Six

\* Three bytes make four digits (base64.cpp:30-36).
LEMMA DigitsOfBytes ==
  ASSUME NEW s \in Seq(Byte), NEW q \in Nat
  PROVE  /\ SixBits(s, 24 * q)      = At(s, 3 * q + 1) \div 4
         /\ SixBits(s, 24 * q + 6)  = 16 * (At(s, 3 * q + 1) % 4) + (At(s, 3 * q + 2) \div 16)
         /\ SixBits(s, 24 * q + 12) = 4 * (At(s, 3 * q + 2) % 16) + (At(s, 3 * q + 3) \div 64)
         /\ SixBits(s, 24 * q + 18) = At(s, 3 * q + 3) % 64
<1>1. /\ 3 * q \in Nat /\ 3 * q + 1 \in Nat /\ 3 * q + 2 \in Nat /\ 3 * q + 3 \in Nat
      /\ 3 * q + 1 + 1 = 3 * q + 2 /\ 3 * q + 2 + 1 = 3 * q + 3
  OBVIOUS
<1> DEFINE a == At(s, 3 * q + 1)
           b == At(s, 3 * q + 2)
           c == At(s, 3 * q + 3)
<1>2. a \in 0 .. 255 /\ b \in 0 .. 255 /\ c \in 0 .. 255
  <2>1. 0 \in Byte
    BY DEF Byte
  <2>2. At(s, 3 * q + 1) \in Byte /\ At(s, 3 * q + 2) \in Byte /\ At(s, 3 * q + 3) \in Byte
    BY <1>1, <2>1, AtType
  <2> QED BY <2>2 DEF Byte
<1>3. /\ Bit(s, 8, 24 * q) = (a \div 128) % 2
      /\ Bit(s, 8, 24 * q + 1) = (a \div 64) % 2
      /\ Bit(s, 8, 24 * q + 2) = (a \div 32) % 2
      /\ Bit(s, 8, 24 * q + 3) = (a \div 16) % 2
      /\ Bit(s, 8, 24 * q + 4) = (a \div 8) % 2
      /\ Bit(s, 8, 24 * q + 5) = (a \div 4) % 2
      /\ Bit(s, 8, 24 * q + 6) = (a \div 2) % 2
      /\ Bit(s, 8, 24 * q + 7) = a % 2
  <2>1. /\ 8 * (3 * q) = 24 * q /\ 8 * (3 * q) + 1 = 24 * q + 1
        /\ 8 * (3 * q) + 2 = 24 * q + 2 /\ 8 * (3 * q) + 3 = 24 * q + 3
        /\ 8 * (3 * q) + 4 = 24 * q + 4 /\ 8 * (3 * q) + 5 = 24 * q + 5
        /\ 8 * (3 * q) + 6 = 24 * q + 6 /\ 8 * (3 * q) + 7 = 24 * q + 7
    OBVIOUS
  <2> HIDE DEF At, Bit
  <2>2. /\ Bit(s, 8, 8 * (3 * q)) = (a \div 128) % 2
        /\ Bit(s, 8, 8 * (3 * q) + 1) = (a \div 64) % 2
        /\ Bit(s, 8, 8 * (3 * q) + 2) = (a \div 32) % 2
        /\ Bit(s, 8, 8 * (3 * q) + 3) = (a \div 16) % 2
        /\ Bit(s, 8, 8 * (3 * q) + 4) = (a \div 8) % 2
        /\ Bit(s, 8, 8 * (3 * q) + 5) = (a \div 4) % 2
        /\ Bit(s, 8, 8 * (3 * q) + 6) = (a \div 2) % 2
        /\ Bit(s, 8, 8 * (3 * q) + 7) = a % 2
    BY <1>1, BitsOfByte
  <2> QED BY <2>1, <2>2
<1>4. /\ Bit(s, 8, 24 * q + 8) = (b \div 128) % 2
      /\ Bit(s, 8, 24 * q + 9) = (b \div 64) % 2
      /\ Bit(s, 8, 24 * q + 10) = (b \div 32) % 2
      /\ Bit(s, 8, 24 * q + 11) = (b \div 16) % 2
      /\ Bit(s, 8, 24 * q + 12) = (b \div 8) % 2
      /\ Bit(s, 8, 24 * q + 13) = (b \div 4) % 2
      /\ Bit(s, 8, 24 * q + 14) = (b \div 2) % 2
      /\ Bit(s, 8, 24 * q + 15) = b % 2
  <2>1. /\ 8 * (3 * q + 1) = 24 * q + 8 /\ 8 * (3 * q + 1) + 1 = 24 * q + 9
        /\ 8 * (3 * q + 1) + 2 = 24 * q + 10 /\ 8 * (3 * q + 1) + 3 = 24 * q + 11
        /\ 8 * (3 * q + 1) + 4 = 24 * q + 12 /\ 8 * (3 * q + 1) + 5 = 24 * q + 13
        /\ 8 * (3 * q + 1) + 6 = 24 * q + 14 /\ 8 * (3 * q + 1) + 7 = 24 * q + 15
    OBVIOUS
  <2> HIDE DEF At, Bit
  <2> DEFINE m == 3 * q + 1
  <2>3. m \in Nat /\ b = At(s, m + 1)
    BY <1>1
  <2> HIDE DEF m, b
  <2>4. /\ Bit(s, 8, 8 * m) = (b \div 128) % 2
        /\ Bit(s, 8, 8 * m + 1) = (b \div 64) % 2
        /\ Bit(s, 8, 8 * m + 2) = (b \div 32) % 2
        /\ Bit(s, 8, 8 * m + 3) = (b \div 16) % 2
        /\ Bit(s, 8, 8 * m + 4) = (b \div 8) % 2
        /\ Bit(s, 8, 8 * m + 5) = (b \div 4) % 2
        /\ Bit(s, 8, 8 * m + 6) = (b \div 2) % 2
        /\ Bit(s, 8, 8 * m + 7) = b % 2
    BY <2>3, BitsOfByte
  <2> QED BY <2>1, <2>4 DEF m
<1>5. /\ Bit(s, 8, 24 * q + 16) = (c \div 128) % 2
      /\ Bit(s, 8, 24 * q + 17) = (c \div 64) % 2
      /\ Bit(s, 8, 24 * q + 18) = (c \div 32) % 2
      /\ Bit(s, 8, 24 * q + 19) = (c \div 16) % 2
      /\ Bit(s, 8, 24 * q + 20) = (c \div 8) % 2
      /\ Bit(s, 8, 24 * q + 21) = (c \div 4) % 2
      /\ Bit(s, 8, 24 * q + 22) = (c \div 2) % 2
      /\ Bit(s, 8, 24 * q + 23) = c % 2
  <2>1. /\ 8 * (3 * q + 2) = 24 * q + 16 /\ 8 * (3 * q + 2) + 1 = 24 * q + 17
        /\ 8 * (3 * q + 2) + 2 = 24 * q + 18 /\ 8 * (3 * q + 2) + 3 = 24 * q + 19
        /\ 8 * (3 * q + 2) + 4 = 24 * q + 20 /\ 8 * (3 * q + 2) + 5 = 24 * q + 21
        /\ 8 * (3 * q + 2) + 6 = 24 * q + 22 /\ 8 * (3 * q + 2) + 7 = 24 * q + 23
    OBVIOUS
  <2> HIDE DEF At, Bit
  <2> DEFINE m == 3 * q + 2
  <2>3. m \in Nat /\ c = At(s, m + 1)
    BY <1>1
  <2> HIDE DEF m, c
  <2>4. /\ Bit(s, 8, 8 * m) = (c \div 128) % 2
        /\ Bit(s, 8, 8 * m + 1) = (c \div 64) % 2
        /\ Bit(s, 8, 8 * m + 2) = (c \div 32) % 2
        /\ Bit(s, 8, 8 * m + 3) = (c \div 16) % 2
        /\ Bit(s, 8, 8 * m + 4) = (c \div 8) % 2
        /\ Bit(s, 8, 8 * m + 5) = (c \div 4) % 2
        /\ Bit(s, 8, 8 * m + 6) = (c \div 2) % 2
        /\ Bit(s, 8, 8 * m + 7) = c % 2
    BY <2>3, BitsOfByte
  <2> QED BY <2>1, <2>4 DEF m
<1> HIDE DEF a, b, c
<1>6. SixBits(s, 24 * q) = a \div 4
  <2>1. SixBits(s, 24 * q) = Six((a \div 128) % 2, (a \div 64) % 2, (a \div 32) % 2,
                           (a \div 16) % 2, (a \div 8) % 2, (a \div 4) % 2)
    BY <1>3 DEF SixBits, Six
  <2> QED BY <1>2, <2>1, FirstDigit
<1>7. SixBits(s, 24 * q + 6) = 16 * (a % 4) + (b \div 16)
  <2>1. SixBits(s, 24 * q + 6) = Six((a \div 2) % 2, a % 2, (b \div 128) % 2,
                           (b \div 64) % 2, (b \div 32) % 2, (b \div 16) % 2)
    <3>1. /\ 24 * q + 6 + 1 = 24 * q + 7
          /\ 24 * q + 6 + 2 = 24 * q + 8
          /\ 24 * q + 6 + 3 = 24 * q + 9
          /\ 24 * q + 6 + 4 = 24 * q + 10
          /\ 24 * q + 6 + 5 = 24 * q + 11
      OBVIOUS
    <3> QED BY <3>1, <1>3, <1>4 DEF SixBits, Six
  <2> QED BY <1>2, <2>1, SecondDigit
<1>8. SixBits(s, 24 * q + 12) = 4 * (b % 16) + (c \div 64)
  <2>1. SixBits(s, 24 * q + 12) = Six((b \div 8) % 2, (b \div 4) % 2, (b \div 2) % 2,
                           b % 2, (c \div 128) % 2, (c \div 64) % 2)
    <3>1. /\ 24 * q + 12 + 1 = 24 * q + 13
          /\ 24 * q + 12 + 2 = 24 * q + 14
          /\ 24 * q + 12 + 3 = 24 * q + 15
          /\ 24 * q + 12 + 4 = 24 * q + 16
          /\ 24 * q + 12 + 5 = 24 * q + 17
      OBVIOUS
    <3> QED BY <3>1, <1>4, <1>5 DEF SixBits, Six
  <2> QED BY <1>2, <2>1, ThirdDigit
<1>9. SixBits(s, 24 * q + 18) = c % 64
  <2>1. SixBits(s, 24 * q + 18) = Six((c \div 32) % 2, (c \div 16) % 2, (c \div 8) % 2,
                           (c \div 4) % 2, (c \div 2) % 2, c % 2)
    <3>1. /\ 24 * q + 18 + 1 = 24 * q + 19
          /\ 24 * q + 18 + 2 = 24 * q + 20
          /\ 24 * q + 18 + 3 = 24 * q + 21
          /\ 24 * q + 18 + 4 = 24 * q + 22
          /\ 24 * q + 18 + 5 = 24 * q + 23
      OBVIOUS
    <3> QED BY <3>1, <1>5 DEF SixBits, Six
  <2> QED BY <1>2, <2>1, FourthDigit
<1> QED BY <1>6, <1>7, <1>8, <1>9 DEF a, b, c

\* The number with the eight given bits.
Eight(s, t, u, v, w, x, y, z) ==
  128 * s + 64 * t + 32 * u + 16 * v + 8 * w + 4 * x + 2 * y + z

\* The three bytes of four digits a, b, c and d.
LEMMA FirstByte ==
  ASSUME NEW a \in 0 .. 63, NEW b \in 0 .. 63
  PROVE  Eight((a \div 32) % 2, (a \div 16) % 2, (a \div 8) % 2, (a \div 4) % 2,
                (a \div 2) % 2, a % 2, (b \div 32) % 2, (b \div 16) % 2) = 4 * a + (b \div 16)
<1>1. 32 * ((a \div 32) % 2) + 16 * ((a \div 16) % 2) + 8 * ((a \div 8) % 2)
        + 4 * ((a \div 4) % 2) + 2 * ((a \div 2) % 2) + (a % 2) = a
  BY HighBitsOfDigit
<1>2. 2 * ((b \div 32) % 2) + ((b \div 16) % 2) = b \div 16
  BY HighBitsOfDigit
<1> QED BY <1>1, <1>2 DEF Eight

LEMMA SecondByte ==
  ASSUME NEW b \in 0 .. 63, NEW c \in 0 .. 63
  PROVE  Eight((b \div 8) % 2, (b \div 4) % 2, (b \div 2) % 2, b % 2,
                (c \div 32) % 2, (c \div 16) % 2, (c \div 8) % 2, (c \div 4) % 2) = 16 * (b % 16) + (c \div 4)
<1>1. 8 * ((b \div 8) % 2) + 4 * ((b \div 4) % 2) + 2 * ((b \div 2) % 2) + (b % 2) = b % 16
  BY LowBits
<1>2. 8 * ((c \div 32) % 2) + 4 * ((c \div 16) % 2) + 2 * ((c \div 8) % 2)
        + ((c \div 4) % 2) = c \div 4
  BY HighBitsOfDigit
<1> QED BY <1>1, <1>2 DEF Eight

LEMMA ThirdByte ==
  ASSUME NEW c \in 0 .. 63, NEW d \in 0 .. 63
  PROVE  Eight((c \div 2) % 2, c % 2, (d \div 32) % 2, (d \div 16) % 2,
                (d \div 8) % 2, (d \div 4) % 2, (d \div 2) % 2, d % 2) = 64 * (c % 4) + d
<1>1. 2 * ((c \div 2) % 2) + (c % 2) = c % 4
  BY LowBits
<1>2. 32 * ((d \div 32) % 2) + 16 * ((d \div 16) % 2) + 8 * ((d \div 8) % 2)
        + 4 * ((d \div 4) % 2) + 2 * ((d \div 2) % 2) + (d % 2) = d
  BY HighBitsOfDigit
<1> QED BY <1>1, <1>2 DEF Eight

\* Four digits make three bytes (base64.cpp:55-71).
LEMMA BytesOfDigits ==
  ASSUME NEW s \in Seq(Digit), NEW q \in Nat
  PROVE  /\ EightBits(s, 24 * q)      = 4 * At(s, 4 * q + 1) + (At(s, 4 * q + 2) \div 16)
         /\ EightBits(s, 24 * q + 8)  = 16 * (At(s, 4 * q + 2) % 16) + (At(s, 4 * q + 3) \div 4)
         /\ EightBits(s, 24 * q + 16) = 64 * (At(s, 4 * q + 3) % 4) + At(s, 4 * q + 4)
<1>1. /\ 4 * q \in Nat /\ 4 * q + 1 \in Nat /\ 4 * q + 2 \in Nat /\ 4 * q + 3 \in Nat
      /\ 4 * q + 4 \in Nat
      /\ 4 * q + 1 + 1 = 4 * q + 2 /\ 4 * q + 2 + 1 = 4 * q + 3 /\ 4 * q + 3 + 1 = 4 * q + 4
  OBVIOUS
<1> DEFINE a == At(s, 4 * q + 1)
           b == At(s, 4 * q + 2)
           c == At(s, 4 * q + 3)
           d == At(s, 4 * q + 4)
<1>2. a \in 0 .. 63 /\ b \in 0 .. 63 /\ c \in 0 .. 63 /\ d \in 0 .. 63
  <2>1. 0 \in Digit
    BY DEF Digit
  <2>2. /\ At(s, 4 * q + 1) \in Digit /\ At(s, 4 * q + 2) \in Digit
        /\ At(s, 4 * q + 3) \in Digit /\ At(s, 4 * q + 4) \in Digit
    BY <1>1, <2>1, AtType
  <2> QED BY <2>2 DEF Digit
<1>3. /\ Bit(s, 6, 24 * q) = (a \div 32) % 2
      /\ Bit(s, 6, 24 * q + 1) = (a \div 16) % 2
      /\ Bit(s, 6, 24 * q + 2) = (a \div 8) % 2
      /\ Bit(s, 6, 24 * q + 3) = (a \div 4) % 2
      /\ Bit(s, 6, 24 * q + 4) = (a \div 2) % 2
      /\ Bit(s, 6, 24 * q + 5) = a % 2
  <2>1. /\ 6 * (4 * q) = 24 * q /\ 6 * (4 * q) + 1 = 24 * q + 1
        /\ 6 * (4 * q) + 2 = 24 * q + 2 /\ 6 * (4 * q) + 3 = 24 * q + 3
        /\ 6 * (4 * q) + 4 = 24 * q + 4 /\ 6 * (4 * q) + 5 = 24 * q + 5
    OBVIOUS
  <2> DEFINE m == 4 * q
  <2>2. m \in Nat /\ a = At(s, m + 1)
    BY <1>1
  <2> HIDE DEF m, a, At, Bit
  <2>3. /\ Bit(s, 6, 6 * m) = (a \div 32) % 2
        /\ Bit(s, 6, 6 * m + 1) = (a \div 16) % 2
        /\ Bit(s, 6, 6 * m + 2) = (a \div 8) % 2
        /\ Bit(s, 6, 6 * m + 3) = (a \div 4) % 2
        /\ Bit(s, 6, 6 * m + 4) = (a \div 2) % 2
        /\ Bit(s, 6, 6 * m + 5) = a % 2
    BY <2>2, BitsOfDigit
  <2> QED BY <2>1, <2>3 DEF m
<1>4. /\ Bit(s, 6, 24 * q + 6) = (b \div 32) % 2
      /\ Bit(s, 6, 24 * q + 7) = (b \div 16) % 2
      /\ Bit(s, 6, 24 * q + 8) = (b \div 8) % 2
      /\ Bit(s, 6, 24 * q + 9) = (b \div 4) % 2
      /\ Bit(s, 6, 24 * q + 10) = (b \div 2) % 2
      /\ Bit(s, 6, 24 * q + 11) = b % 2
  <2>1. /\ 6 * (4 * q + 1) = 24 * q + 6 /\ 6 * (4 * q + 1) + 1 = 24 * q + 7
        /\ 6 * (4 * q + 1) + 2 = 24 * q + 8 /\ 6 * (4 * q + 1) + 3 = 24 * q + 9
        /\ 6 * (4 * q + 1) + 4 = 24 * q + 10 /\ 6 * (4 * q + 1) + 5 = 24 * q + 11
    OBVIOUS
  <2> DEFINE m == 4 * q + 1
  <2>2. m \in Nat /\ b = At(s, m + 1)
    BY <1>1
  <2> HIDE DEF m, b, At, Bit
  <2>3. /\ Bit(s, 6, 6 * m) = (b \div 32) % 2
        /\ Bit(s, 6, 6 * m + 1) = (b \div 16) % 2
        /\ Bit(s, 6, 6 * m + 2) = (b \div 8) % 2
        /\ Bit(s, 6, 6 * m + 3) = (b \div 4) % 2
        /\ Bit(s, 6, 6 * m + 4) = (b \div 2) % 2
        /\ Bit(s, 6, 6 * m + 5) = b % 2
    BY <2>2, BitsOfDigit
  <2> QED BY <2>1, <2>3 DEF m
<1>5. /\ Bit(s, 6, 24 * q + 12) = (c \div 32) % 2
      /\ Bit(s, 6, 24 * q + 13) = (c \div 16) % 2
      /\ Bit(s, 6, 24 * q + 14) = (c \div 8) % 2
      /\ Bit(s, 6, 24 * q + 15) = (c \div 4) % 2
      /\ Bit(s, 6, 24 * q + 16) = (c \div 2) % 2
      /\ Bit(s, 6, 24 * q + 17) = c % 2
  <2>1. /\ 6 * (4 * q + 2) = 24 * q + 12 /\ 6 * (4 * q + 2) + 1 = 24 * q + 13
        /\ 6 * (4 * q + 2) + 2 = 24 * q + 14 /\ 6 * (4 * q + 2) + 3 = 24 * q + 15
        /\ 6 * (4 * q + 2) + 4 = 24 * q + 16 /\ 6 * (4 * q + 2) + 5 = 24 * q + 17
    OBVIOUS
  <2> DEFINE m == 4 * q + 2
  <2>2. m \in Nat /\ c = At(s, m + 1)
    BY <1>1
  <2> HIDE DEF m, c, At, Bit
  <2>3. /\ Bit(s, 6, 6 * m) = (c \div 32) % 2
        /\ Bit(s, 6, 6 * m + 1) = (c \div 16) % 2
        /\ Bit(s, 6, 6 * m + 2) = (c \div 8) % 2
        /\ Bit(s, 6, 6 * m + 3) = (c \div 4) % 2
        /\ Bit(s, 6, 6 * m + 4) = (c \div 2) % 2
        /\ Bit(s, 6, 6 * m + 5) = c % 2
    BY <2>2, BitsOfDigit
  <2> QED BY <2>1, <2>3 DEF m
<1>6. /\ Bit(s, 6, 24 * q + 18) = (d \div 32) % 2
      /\ Bit(s, 6, 24 * q + 19) = (d \div 16) % 2
      /\ Bit(s, 6, 24 * q + 20) = (d \div 8) % 2
      /\ Bit(s, 6, 24 * q + 21) = (d \div 4) % 2
      /\ Bit(s, 6, 24 * q + 22) = (d \div 2) % 2
      /\ Bit(s, 6, 24 * q + 23) = d % 2
  <2>1. /\ 6 * (4 * q + 3) = 24 * q + 18 /\ 6 * (4 * q + 3) + 1 = 24 * q + 19
        /\ 6 * (4 * q + 3) + 2 = 24 * q + 20 /\ 6 * (4 * q + 3) + 3 = 24 * q + 21
        /\ 6 * (4 * q + 3) + 4 = 24 * q + 22 /\ 6 * (4 * q + 3) + 5 = 24 * q + 23
    OBVIOUS
  <2> DEFINE m == 4 * q + 3
  <2>2. m \in Nat /\ d = At(s, m + 1)
    BY <1>1
  <2> HIDE DEF m, d, At, Bit
  <2>3. /\ Bit(s, 6, 6 * m) = (d \div 32) % 2
        /\ Bit(s, 6, 6 * m + 1) = (d \div 16) % 2
        /\ Bit(s, 6, 6 * m + 2) = (d \div 8) % 2
        /\ Bit(s, 6, 6 * m + 3) = (d \div 4) % 2
        /\ Bit(s, 6, 6 * m + 4) = (d \div 2) % 2
        /\ Bit(s, 6, 6 * m + 5) = d % 2
    BY <2>2, BitsOfDigit
  <2> QED BY <2>1, <2>3 DEF m
<1> HIDE DEF a, b, c, d
<1>7. EightBits(s, 24 * q) = 4 * a + (b \div 16)
  <2>1. EightBits(s, 24 * q) = Eight((a \div 32) % 2, (a \div 16) % 2, (a \div 8) % 2, (a \div 4) % 2,
                             (a \div 2) % 2, a % 2, (b \div 32) % 2, (b \div 16) % 2)
    BY <1>3, <1>4 DEF EightBits, Eight
  <2> QED BY <1>2, <2>1, FirstByte
<1>8. EightBits(s, 24 * q + 8) = 16 * (b % 16) + (c \div 4)
  <2>1. EightBits(s, 24 * q + 8) = Eight((b \div 8) % 2, (b \div 4) % 2, (b \div 2) % 2, b % 2,
                             (c \div 32) % 2, (c \div 16) % 2, (c \div 8) % 2, (c \div 4) % 2)
    <3>1. /\ 24 * q + 8 + 1 = 24 * q + 9
          /\ 24 * q + 8 + 2 = 24 * q + 10
          /\ 24 * q + 8 + 3 = 24 * q + 11
          /\ 24 * q + 8 + 4 = 24 * q + 12
          /\ 24 * q + 8 + 5 = 24 * q + 13
          /\ 24 * q + 8 + 6 = 24 * q + 14
          /\ 24 * q + 8 + 7 = 24 * q + 15
      OBVIOUS
    <3> QED BY <3>1, <1>4, <1>5 DEF EightBits, Eight
  <2> QED BY <1>2, <2>1, SecondByte
<1>9. EightBits(s, 24 * q + 16) = 64 * (c % 4) + d
  <2>1. EightBits(s, 24 * q + 16) = Eight((c \div 2) % 2, c % 2, (d \div 32) % 2, (d \div 16) % 2,
                             (d \div 8) % 2, (d \div 4) % 2, (d \div 2) % 2, d % 2)
    <3>1. /\ 24 * q + 16 + 1 = 24 * q + 17
          /\ 24 * q + 16 + 2 = 24 * q + 18
          /\ 24 * q + 16 + 3 = 24 * q + 19
          /\ 24 * q + 16 + 4 = 24 * q + 20
          /\ 24 * q + 16 + 5 = 24 * q + 21
          /\ 24 * q + 16 + 6 = 24 * q + 22
          /\ 24 * q + 16 + 7 = 24 * q + 23
      OBVIOUS
    <3> QED BY <3>1, <1>5, <1>6 DEF EightBits, Eight
  <2> QED BY <1>2, <2>1, ThirdByte
<1> QED BY <1>7, <1>8, <1>9 DEF a, b, c, d

-----------------------------------------------------------------------------
(***************************************************************************)
(* The encoder.                                                            *)
(***************************************************************************)

\* The last 16 bits of the accumulator are the two bytes taken last.
LastTwo(x, a, b) == x % 65536 = 256 * a + b

\* All bits of n bytes have been put out in o digits, but for the last w.
Held(n, o, w) == 8 * n = 6 * o + w

\* A byte that is shifted in pushes the older ones up (base64.cpp:31).
LEMMA ShiftByte ==
  ASSUME NEW x \in Nat, NEW a \in 0 .. 255, NEW b \in 0 .. 255, NEW c \in 0 .. 255,
         LastTwo(x, a, b)
  PROVE  LastTwo(x * 256 + c, b, c)
BY DEF LastTwo

\* A byte is shifted in; what overflows is lost.
InAccumulator(x) == x \in 0 .. 2 ^ Width - 1

LEMMA ShiftAndWrap ==
  ASSUME NEW x \in Nat, NEW a \in 0 .. 255, NEW b \in 0 .. 255, NEW c \in 0 .. 255,
         LastTwo(x, a, b)
  PROVE  /\ InAccumulator(Wrap(x * 256 + c))
         /\ LastTwo(Wrap(x * 256 + c), b, c)
<1> DEFINE y == x * 256 + c
<1>1. LastTwo(y, b, c) /\ y \in Nat
  <2>1. LastTwo(x * 256 + c, b, c)
    BY ShiftByte
  <2> QED BY <2>1
<1> HIDE DEF y
<1>2. Wrap(y) \in 0 .. 2 ^ Width - 1 /\ SameTail(Wrap(y), y)
  BY <1>1, WrapKeeps
<1>3. LastTwo(Wrap(y), b, c)
  BY <1>1, <1>2 DEF SameTail, LastTwo
<1> QED BY <1>2, <1>3 DEF y, InAccumulator

\* The six bits that are put out, for each number of bits that stay
\* (base64.cpp:33-36).
Slices(x, a, b) ==
  /\ (x \div 4) % 64  = b \div 4
  /\ (x \div 16) % 64 = 16 * (a % 4) + (b \div 16)
  /\ (x \div 64) % 64 = 4 * (a % 16) + (b \div 64)
  /\ x % 64           = b % 64

LEMMA SliceOfBytes ==
  ASSUME NEW x \in Nat, NEW a \in 0 .. 255, NEW b \in 0 .. 255,
         LastTwo(x, a, b)
  PROVE  Slices(x, a, b)
<1>1. (x \div 4) % 64 = b \div 4
  BY DEF LastTwo
<1>2. (x \div 16) % 64 = 16 * (a % 4) + (b \div 16)
  BY DEF LastTwo
<1>3. (x \div 64) % 64 = 4 * (a % 16) + (b \div 64)
  BY DEF LastTwo
<1>4. x % 64 = b % 64
  BY DEF LastTwo
<1> QED BY <1>1, <1>2, <1>3, <1>4 DEF Slices

\* The last digit has zeros behind the trailing bits (base64.cpp:38-42).
LEMMA TrailingBits ==
  ASSUME NEW x \in Nat, NEW a \in 0 .. 255, NEW b \in 0 .. 255,
         LastTwo(x, a, b)
  PROVE  /\ (x * 16) % 64 = 16 * (b % 4)
         /\ (x * 4) % 64 = 4 * (b % 16)
<1>1. (x * 16) % 64 = 16 * (b % 4)
  BY DEF LastTwo
<1>2. (x * 4) % 64 = 4 * (b % 16)
  BY DEF LastTwo
<1> QED BY <1>1, <1>2

\* Where the encoder is in its group of three bytes follows from the number
\* of bits it holds.
Place(n, o, w, q) ==
  \/ w = 8  /\ o = 4 * q     /\ n = 3 * q + 1
  \/ w = 10 /\ o = 4 * q + 1 /\ n = 3 * q + 2
  \/ w = 12 /\ o = 4 * q + 2 /\ n = 3 * q + 3
  \/ w = 6  /\ o = 4 * q + 3 /\ n = 3 * q + 3
  \/ w = 2  /\ o = 4 * q + 1 /\ n = 3 * q + 1
  \/ w = 4  /\ o = 4 * q + 2 /\ n = 3 * q + 2

LEMMA PlaceInGroup ==
  ASSUME NEW n \in Nat, NEW o \in Nat, NEW w \in {2, 4, 6, 8, 10, 12}, Held(n, o, w)
  PROVE  \E q \in Nat : Place(n, o, w, q)
<1> DEFINE q == o \div 4
<1>1. q \in Nat
  OBVIOUS
<1>2. Place(n, o, w, q)
  BY DEF Held, Place
<1> HIDE DEF q
<1> QED BY <1>1, <1>2

\* What a round of the while puts out is the next digit of the code.
Emitted(x, w) == (x \div 2 ^ (w - 6)) % 2 ^ 6

LEMMA EmittedDigit ==
  ASSUME NEW t \in Seq(Byte), NEW n \in Nat, NEW o \in Nat, NEW w \in {6, 8, 10, 12},
         Held(n, o, w), NEW x \in Nat, LastTwo(x, At(t, n - 1), At(t, n))
  PROVE  Emitted(x, w) = SixBits(t, 6 * o)
<1> DEFINE a == At(t, n - 1)
           b == At(t, n)
<1>1. a \in 0 .. 255 /\ b \in 0 .. 255
  <2>1. 0 \in Byte
    BY DEF Byte
  <2>2. n - 1 \in Int /\ n \in Int
    OBVIOUS
  <2>3. At(t, n - 1) \in Byte /\ At(t, n) \in Byte
    BY <2>1, <2>2, AtType
  <2> QED BY <2>3 DEF Byte
<1>2. PICK q \in Nat : Place(n, o, w, q)
  <2>1. w \in {2, 4, 6, 8, 10, 12}
    OBVIOUS
  <2> QED BY <2>1, PlaceInGroup
<1>3. /\ 2 ^ 0 = 1 /\ 2 ^ 2 = 4 /\ 2 ^ 4 = 16 /\ 2 ^ 6 = 64
  OBVIOUS
<1>4. LastTwo(x, a, b)
  OBVIOUS
<1> HIDE DEF a, b
<1>5. Slices(x, a, b)
  BY <1>1, <1>4, SliceOfBytes
<1>6. /\ SixBits(t, 24 * q)      = At(t, 3 * q + 1) \div 4
      /\ SixBits(t, 24 * q + 6)  = 16 * (At(t, 3 * q + 1) % 4) + (At(t, 3 * q + 2) \div 16)
      /\ SixBits(t, 24 * q + 12) = 4 * (At(t, 3 * q + 2) % 16) + (At(t, 3 * q + 3) \div 64)
      /\ SixBits(t, 24 * q + 18) = At(t, 3 * q + 3) % 64
  BY DigitsOfBytes
<1>7. CASE w = 8 /\ o = 4 * q /\ n = 3 * q + 1
  <2>1. w - 6 = 2 /\ 6 * o = 24 * q
    BY <1>7
  <2>2. b = At(t, 3 * q + 1)
    BY <1>7, <2>1 DEF a, b
  <2>3. Emitted(x, w) = (x \div 4) % 64
    BY <1>3, <2>1 DEF Emitted
  <2> HIDE DEF At, SixBits
  <2> QED BY <1>1, <1>5, <1>6, <2>1, <2>2, <2>3 DEF Slices
<1>8. CASE w = 10 /\ o = 4 * q + 1 /\ n = 3 * q + 2
  <2>1. w - 6 = 4 /\ 6 * o = 24 * q + 6 /\ n - 1 = 3 * q + 1
    BY <1>8
  <2>2. b = At(t, 3 * q + 2) /\ a = At(t, 3 * q + 1)
    BY <1>8, <2>1 DEF a, b
  <2>3. Emitted(x, w) = (x \div 16) % 64
    BY <1>3, <2>1 DEF Emitted
  <2> HIDE DEF At, SixBits
  <2> QED BY <1>1, <1>5, <1>6, <2>1, <2>2, <2>3 DEF Slices
<1>9. CASE w = 12 /\ o = 4 * q + 2 /\ n = 3 * q + 3
  <2>1. w - 6 = 6 /\ 6 * o = 24 * q + 12 /\ n - 1 = 3 * q + 2
    BY <1>9
  <2>2. b = At(t, 3 * q + 3) /\ a = At(t, 3 * q + 2)
    BY <1>9, <2>1 DEF a, b
  <2>3. Emitted(x, w) = (x \div 64) % 64
    BY <1>3, <2>1 DEF Emitted
  <2> HIDE DEF At, SixBits
  <2> QED BY <1>1, <1>5, <1>6, <2>1, <2>2, <2>3 DEF Slices
<1>10. CASE w = 6 /\ o = 4 * q + 3 /\ n = 3 * q + 3
  <2>1. w - 6 = 0 /\ 6 * o = 24 * q + 18
    BY <1>10
  <2>2. b = At(t, 3 * q + 3)
    BY <1>10, <2>1 DEF a, b
  <2>4. x \div 1 = x
    OBVIOUS
  <2>3. Emitted(x, w) = x % 64
    BY <1>3, <2>1, <2>4 DEF Emitted
  <2> HIDE DEF At, SixBits
  <2> QED BY <1>1, <1>5, <1>6, <2>1, <2>2, <2>3 DEF Slices
<1> QED BY <1>2, <1>7, <1>8, <1>9, <1>10 DEF Place

\* What is put out behind the loop is the last digit of the code.
LEMMA FlushedDigit ==
  ASSUME NEW t \in Seq(Byte), NEW o \in Nat, NEW w \in {2, 4}, Held(Len(t), o, w),
         NEW x \in Nat, LastTwo(x, At(t, Len(t) - 1), At(t, Len(t)))
  PROVE  Wrap(x * 2 ^ (6 - w)) % 2 ^ 6 = SixBits(t, 6 * o)
<1> DEFINE a == At(t, Len(t) - 1)
           b == At(t, Len(t))
           c == At(t, Len(t) + 1)
<1>1. a \in 0 .. 255 /\ b \in 0 .. 255 /\ c = 0
  <2>1. 0 \in Byte
    BY DEF Byte
  <2>2. Len(t) - 1 \in Int /\ Len(t) \in Int
    OBVIOUS
  <2>3. At(t, Len(t) - 1) \in Byte /\ At(t, Len(t)) \in Byte
    BY <2>1, <2>2, AtType
  <2>4. c = 0
    BY <2>2 DEF At
  <2> QED BY <2>3, <2>4 DEF Byte
<1>2. PICK q \in Nat : Place(Len(t), o, w, q)
  <2>1. w \in {2, 4, 6, 8, 10, 12} /\ Len(t) \in Nat
    OBVIOUS
  <2> QED BY <2>1, PlaceInGroup
<1>3. 2 ^ 4 = 16 /\ 2 ^ 2 = 4 /\ 2 ^ 6 = 64
  OBVIOUS
<1>4. LastTwo(x, a, b)
  OBVIOUS
<1> HIDE DEF a, b, c
<1>5. /\ (x * 16) % 64 = 16 * (b % 4)
      /\ (x * 4) % 64 = 4 * (b % 16)
  BY <1>1, <1>4, TrailingBits
<1>6. /\ SixBits(t, 24 * q + 6)  = 16 * (At(t, 3 * q + 1) % 4) + (At(t, 3 * q + 2) \div 16)
      /\ SixBits(t, 24 * q + 12) = 4 * (At(t, 3 * q + 2) % 16) + (At(t, 3 * q + 3) \div 64)
  BY DigitsOfBytes
<1>7. \A n \in Nat : Wrap(n) % 64 = n % 64
  <2> SUFFICES ASSUME NEW n \in Nat PROVE Wrap(n) % 64 = n % 64
    OBVIOUS
  <2>1. Wrap(n) \in Nat /\ SameTail(Wrap(n), n)
    BY WrapKeeps
  <2> DEFINE u == Wrap(n)
  <2> HIDE DEF u
  <2>2. u \in Nat /\ SameTail(u, n)
    BY <2>1 DEF u
  <2>3. u % 64 = n % 64
    BY <2>2 DEF SameTail
  <2> QED BY <2>3 DEF u
<1>8. x * 16 \in Nat /\ x * 4 \in Nat
  OBVIOUS
<1>9. CASE w = 2 /\ o = 4 * q + 1 /\ Len(t) = 3 * q + 1
  <2>1. 6 - w = 4 /\ 6 * o = 24 * q + 6 /\ Len(t) + 1 = 3 * q + 2
    BY <1>9
  <2>2. b = At(t, 3 * q + 1) /\ At(t, 3 * q + 2) = 0
    BY <1>1, <1>9, <2>1 DEF b, c
  <2>3. Wrap(x * 2 ^ (6 - w)) % 2 ^ 6 = (x * 16) % 64
    BY <1>3, <1>7, <1>8, <2>1
  <2>4. 0 \div 16 = 0 /\ 16 * (b % 4) + 0 = 16 * (b % 4)
    BY <1>1
  <2> HIDE DEF At, SixBits
  <2> QED BY <1>5, <1>6, <2>1, <2>2, <2>3, <2>4
<1>10. CASE w = 4 /\ o = 4 * q + 2 /\ Len(t) = 3 * q + 2
  <2>1. 6 - w = 2 /\ 6 * o = 24 * q + 12 /\ Len(t) + 1 = 3 * q + 3
    BY <1>10
  <2>2. b = At(t, 3 * q + 2) /\ At(t, 3 * q + 3) = 0
    BY <1>1, <1>10, <2>1 DEF b, c
  <2>3. Wrap(x * 2 ^ (6 - w)) % 2 ^ 6 = (x * 4) % 64
    BY <1>3, <1>7, <1>8, <2>1
  <2>4. 0 \div 64 = 0 /\ 4 * (b % 16) + 0 = 4 * (b % 16)
    BY <1>1
  <2> HIDE DEF At, SixBits
  <2> QED BY <1>5, <1>6, <2>1, <2>2, <2>3, <2>4
<1> QED BY <1>2, <1>9, <1>10 DEF Place

-----------------------------------------------------------------------------
(***************************************************************************)
(* The digits of a code: they are numbered without a gap, in the order of  *)
(* their places.                                                           *)
(***************************************************************************)
LEMMA PlacesAreFinite ==
  ASSUME NEW c, NEW k \in Nat
  PROVE  IsFiniteSet(DigitPlaces(c, k)) /\ Rank(c, k) \in Nat
<1>1. IsFiniteSet(1 .. k)
  <2>1. 1 \in Int /\ k \in Int
    OBVIOUS
  <2> QED BY <2>1, FS_Interval
<1>2. DigitPlaces(c, k) \in SUBSET (1 .. k)
  BY DEF DigitPlaces
<1>3. IsFiniteSet(DigitPlaces(c, k))
  BY <1>1, <1>2, FS_Subset
<1> QED BY <1>3, FS_CardinalityType DEF Rank

\* The rank counts a place if there is a digit.
LEMMA NextRank ==
  ASSUME NEW c, NEW k \in Nat
  PROVE  Rank(c, k + 1) = IF c[k + 1] \in Digit THEN Rank(c, k) + 1 ELSE Rank(c, k)
<1>1. CASE c[k + 1] \in Digit
  <2>1. DigitPlaces(c, k + 1) = DigitPlaces(c, k) \cup {k + 1} /\ k + 1 \notin DigitPlaces(c, k)
    BY <1>1 DEF DigitPlaces
  <2>2. IsFiniteSet(DigitPlaces(c, k))
    BY PlacesAreFinite
  <2> QED BY <1>1, <2>1, <2>2, FS_AddElement DEF Rank
<1>2. CASE c[k + 1] \notin Digit
  <2>1. DigitPlaces(c, k + 1) = DigitPlaces(c, k)
    BY <1>2 DEF DigitPlaces
  <2> QED BY <1>2, <2>1 DEF Rank
<1> QED BY <1>1, <1>2

LEMMA FirstRank == ASSUME NEW c PROVE Rank(c, 0) = 0
<1>1. DigitPlaces(c, 0) = {}
  BY DEF DigitPlaces
<1> QED BY <1>1, FS_EmptySet DEF Rank

LEMMA CardinalityOfRange == ASSUME NEW k \in Nat PROVE Cardinality(1 .. k) = k
<1>1. 1 \in Int /\ k \in Int
  OBVIOUS
<1>2. Cardinality(1 .. k) = IF 1 > k THEN 0 ELSE k - 1 + 1
  BY <1>1, FS_Interval
<1> QED BY <1>2

LEMMA RankGrows ==
  ASSUME NEW c, NEW j \in Nat, NEW k \in Nat, j <= k
  PROVE  Rank(c, j) <= Rank(c, k)
<1>1. DigitPlaces(c, j) \in SUBSET DigitPlaces(c, k)
  BY DEF DigitPlaces
<1>2. IsFiniteSet(DigitPlaces(c, k))
  BY PlacesAreFinite
<1> QED BY <1>1, <1>2, FS_Subset DEF Rank

\* A digit comes after all digits before it.
LEMMA RankOfDigit ==
  ASSUME NEW c, NEW n \in Nat, NEW k \in DigitPlaces(c, n)
  PROVE  /\ k \in 1 .. n /\ c[k] \in Digit
         /\ Rank(c, k) \in 1 .. Rank(c, n)
         /\ \A j \in 0 .. k - 1 : Rank(c, j) < Rank(c, k)
<1>1. k \in 1 .. n /\ c[k] \in Digit
  BY DEF DigitPlaces
<1>2. k - 1 \in Nat /\ k = k - 1 + 1 /\ k \in Nat /\ k <= n
  BY <1>1
<1>3. Rank(c, k) = Rank(c, k - 1) + 1
  BY <1>1, <1>2, NextRank
<1>4. Rank(c, k - 1) \in Nat /\ Rank(c, n) \in Nat /\ Rank(c, k) \in Nat
  BY <1>2, PlacesAreFinite
<1>5. Rank(c, k) <= Rank(c, n)
  BY <1>2, RankGrows
<1>6. ASSUME NEW j \in 0 .. k - 1 PROVE Rank(c, j) < Rank(c, k)
  <2>1. j \in Nat /\ j <= k - 1
    BY <1>2
  <2>2. Rank(c, j) <= Rank(c, k - 1) /\ Rank(c, j) \in Nat
    BY <1>2, <2>1, RankGrows, PlacesAreFinite
  <2> QED BY <1>3, <1>4, <2>2
<1> QED BY <1>1, <1>3, <1>4, <1>5, <1>6

LEMMA RankIsInjective ==
  ASSUME NEW c, NEW n \in Nat, NEW j \in DigitPlaces(c, n), NEW k \in DigitPlaces(c, n),
         Rank(c, j) = Rank(c, k)
  PROVE  j = k
<1>1. j \in 1 .. n /\ k \in 1 .. n
  BY RankOfDigit
<1>2. ~(j < k)
  <2> SUFFICES ASSUME j < k PROVE FALSE
    OBVIOUS
  <2>1. j \in 0 .. k - 1
    BY <1>1
  <2>2. Rank(c, j) < Rank(c, k) /\ Rank(c, k) \in Nat
    BY <1>1, <2>1, RankOfDigit, PlacesAreFinite
  <2> QED BY <2>2
<1>3. ~(k < j)
  <2> SUFFICES ASSUME k < j PROVE FALSE
    OBVIOUS
  <2>1. k \in 0 .. j - 1
    BY <1>1
  <2>2. Rank(c, k) < Rank(c, j) /\ Rank(c, k) \in Nat
    BY <1>1, <2>1, RankOfDigit, PlacesAreFinite
  <2> QED BY <2>2
<1> QED BY <1>1, <1>2, <1>3

\* As many different numbers as there are digits: every number up to that.
LEMMA EveryRankIsTaken ==
  ASSUME NEW c, NEW n \in Nat, NEW r \in 1 .. Rank(c, n)
  PROVE  \E k \in DigitPlaces(c, n) : Rank(c, k) = r
<1> DEFINE P == DigitPlaces(c, n)
           R == 1 .. Rank(c, n)
           f == [k \in P |-> Rank(c, k)]
<1>1. Rank(c, n) \in Nat /\ IsFiniteSet(P) /\ Cardinality(P) = Rank(c, n)
  BY PlacesAreFinite DEF Rank
<1>2. IsFiniteSet(R) /\ Cardinality(R) = Rank(c, n)
  <2> DEFINE m == Rank(c, n)
  <2>1. m \in Nat
    BY <1>1
  <2> HIDE DEF m
  <2>2. IsFiniteSet(1 .. m) /\ Cardinality(1 .. m) = m
    <3>1. 1 \in Int /\ m \in Int
      BY <2>1
    <3> QED BY <2>1, <3>1, FS_Interval, CardinalityOfRange
  <2> QED BY <2>2 DEF m
<1>3. \A k \in P : Rank(c, k) \in R
  BY RankOfDigit
<1>4. f \in [P -> R]
  <2> HIDE DEF P, R
  <2> QED BY <1>3
<1>5. f \in Injection(P, R)
  <2>1. \A j, k \in P : f[j] = f[k] => j = k
    BY RankIsInjective
  <2> HIDE DEF P, R, f
  <2> QED BY <1>4, <2>1, Fun_IsInj
<1>6. f \in Surjection(P, R)
  <2> HIDE DEF P, R, f
  <2> QED BY <1>1, <1>2, <1>5, FS_Injection
<1>7. PICK k \in P : f[k] = r
  <2> HIDE DEF P, f
  <2> QED BY <1>6 DEF Surjection
<1> QED BY <1>7

\* Digits has each digit of the code at its number.
LEMMA DigitsOfCode ==
  ASSUME NEW S, NEW c \in Seq(S)
  PROVE  /\ Digits(c) \in Seq(Digit) /\ Len(Digits(c)) = Rank(c, Len(c))
         /\ \A k \in DigitPlaces(c, Len(c)) : Digits(c)[Rank(c, k)] = c[k]
<1> DEFINE n == Len(c)
           m == Rank(c, n)
           At1(r) == CHOOSE k \in DigitPlaces(c, n) : Rank(c, k) = r
<1>1. n \in Nat /\ m \in Nat
  BY PlacesAreFinite
<1>2. \A r \in 1 .. m : At1(r) \in DigitPlaces(c, n) /\ Rank(c, At1(r)) = r
  BY <1>1, EveryRankIsTaken
<1>3. \A r \in 1 .. m : c[At1(r)] \in Digit
  BY <1>1, <1>2, RankOfDigit
<1>4. Digits(c) = [r \in 1 .. m |-> c[At1(r)]]
  BY DEF Digits
<1> HIDE DEF n, m, At1
<1>5. Digits(c) \in Seq(Digit) /\ Len(Digits(c)) = m
  BY <1>1, <1>3, <1>4
<1>6. ASSUME NEW k \in DigitPlaces(c, n) PROVE Digits(c)[Rank(c, k)] = c[k]
  <2>1. Rank(c, k) \in 1 .. m
    BY <1>1, RankOfDigit DEF m
  <2>2. At1(Rank(c, k)) = k
    BY <1>1, <1>2, <2>1, RankIsInjective
  <2> QED BY <1>4, <2>1, <2>2
<1> QED BY <1>5, <1>6 DEF n, m

-----------------------------------------------------------------------------
(***************************************************************************)
(* The decoder.                                                            *)
(***************************************************************************)

\* The last 12 bits of the accumulator are the two digits taken last.
LastDigits(x, a, b) == x % 4096 = 64 * a + b

\* All bits of r digits have been put out in n bytes, but for the last w.
Kept(r, n, w) == 6 * r = 8 * n + w

\* A byte that is put out with the next digit takes two bits from those kept.
LEMMA NextByteKept ==
  ASSUME NEW r \in Nat, NEW n \in Nat, NEW w \in {2, 4, 6}, Kept(r, n, w)
  PROVE  Kept(r + 1, n + 1, w - 2)
BY DEF Kept

\* A digit that is shifted in pushes the older ones up (base64.cpp:65).
LEMMA ShiftDigit ==
  ASSUME NEW x \in Nat, NEW a \in 0 .. 63, NEW b \in 0 .. 63, NEW c \in 0 .. 63,
         LastDigits(x, a, b)
  PROVE  LastDigits(x * 64 + c, b, c)
BY DEF LastDigits

LEMMA ShiftAndWrapDigit ==
  ASSUME NEW x \in Nat, NEW a \in 0 .. 63, NEW b \in 0 .. 63, NEW c \in 0 .. 63,
         LastDigits(x, a, b)
  PROVE  /\ InAccumulator(Wrap(x * 64 + c))
         /\ LastDigits(Wrap(x * 64 + c), b, c)
<1> DEFINE y == x * 64 + c
<1>1. LastDigits(y, b, c) /\ y \in Nat
  <2>1. LastDigits(x * 64 + c, b, c)
    BY ShiftDigit
  <2> QED BY <2>1
<1> HIDE DEF y
<1>2. /\ Wrap(y) \in 0 .. 2 ^ Width - 1 /\ SameTail(Wrap(y), y)
      /\ Wrap(y) \in Nat
  BY <1>1, WrapKeeps
<1>3. Wrap(y) % 4096 = y % 4096
  <2> DEFINE u == Wrap(y)
  <2>1. u \in Nat /\ SameTail(u, y)
    BY <1>2
  <2> HIDE DEF u
  <2>2. u % 4096 = y % 4096
    BY <1>1, <2>1 DEF SameTail
  <2> QED BY <2>2 DEF u
<1>4. LastDigits(Wrap(y), b, c)
  BY <1>1, <1>3 DEF LastDigits
<1> QED BY <1>2, <1>4 DEF y, InAccumulator

\* The eight bits that are put out, for each number of bits that stay
\* (base64.cpp:67-70).
ByteSlices(x, a, b) ==
  /\ (x \div 16) % 256 = 4 * a + (b \div 16)
  /\ (x \div 4) % 256  = 16 * (a % 16) + (b \div 4)
  /\ x % 256           = 64 * (a % 4) + b

LEMMA SliceOfDigits ==
  ASSUME NEW x \in Nat, NEW a \in 0 .. 63, NEW b \in 0 .. 63, LastDigits(x, a, b)
  PROVE  ByteSlices(x, a, b)
<1>1. (x \div 16) % 256 = 4 * a + (b \div 16)
  BY DEF LastDigits
<1>2. (x \div 4) % 256 = 16 * (a % 16) + (b \div 4)
  BY DEF LastDigits
<1>3. x % 256 = 64 * (a % 4) + b
  BY DEF LastDigits
<1> QED BY <1>1, <1>2, <1>3 DEF ByteSlices

\* Where the decoder is in its group of four digits when a byte is complete.
PlaceInFour(r, n, w, q) ==
  \/ w = 4 /\ n = 3 * q     /\ r = 4 * q + 2
  \/ w = 2 /\ n = 3 * q + 1 /\ r = 4 * q + 3
  \/ w = 0 /\ n = 3 * q + 2 /\ r = 4 * q + 4

LEMMA PlaceOfByte ==
  ASSUME NEW r \in Nat, NEW n \in Nat, NEW w \in {0, 2, 4}, Kept(r, n + 1, w)
  PROVE  \E q \in Nat : PlaceInFour(r, n, w, q)
<1> DEFINE q == n \div 3
<1>1. q \in Nat
  OBVIOUS
<1>2. PlaceInFour(r, n, w, q)
  BY DEF Kept, PlaceInFour
<1> HIDE DEF q
<1> QED BY <1>1, <1>2

LEMMA ByteOut ==
  ASSUME NEW x \in Nat, NEW w \in 0 .. 7
  PROVE  (x \div 2 ^ w) % 2 ^ 8 \in Byte
<1> DEFINE p == 2 ^ w
<1>1. p \in {1, 2, 4, 8, 16, 32, 64, 128}
  BY Powers
<1>2. 2 ^ 8 = 256
  OBVIOUS
<1> HIDE DEF p
<1>3. x \div p \in Nat
  BY <1>1
<1>4. \A y \in Nat : y % 256 \in 0 .. 255
  OBVIOUS
<1> QED BY <1>2, <1>3, <1>4 DEF p, Byte

\* What is appended to the text is its next byte.
Complete(x, w) == (x \div 2 ^ w) % 2 ^ 8

LEMMA DecodedByte ==
  ASSUME NEW d \in Seq(Digit), NEW r \in Nat, NEW n \in Nat, NEW w \in {0, 2, 4},
         Kept(r, n + 1, w), NEW x \in Nat, LastDigits(x, At(d, r - 1), At(d, r))
  PROVE  Complete(x, w) = EightBits(d, 8 * n)
<1> DEFINE a == At(d, r - 1)
           b == At(d, r)
<1>1. a \in 0 .. 63 /\ b \in 0 .. 63
  <2>1. 0 \in Digit
    BY DEF Digit
  <2>2. r - 1 \in Int /\ r \in Int
    OBVIOUS
  <2>3. At(d, r - 1) \in Digit /\ At(d, r) \in Digit
    BY <2>1, <2>2, AtType
  <2> QED BY <2>3 DEF Digit
<1>2. PICK q \in Nat : PlaceInFour(r, n, w, q)
  BY PlaceOfByte
<1>3. 2 ^ 0 = 1 /\ 2 ^ 2 = 4 /\ 2 ^ 4 = 16 /\ 2 ^ 8 = 256
  OBVIOUS
<1>4. LastDigits(x, a, b)
  OBVIOUS
<1> HIDE DEF a, b
<1>5. ByteSlices(x, a, b)
  BY <1>1, <1>4, SliceOfDigits
<1>6. /\ EightBits(d, 24 * q)      = 4 * At(d, 4 * q + 1) + (At(d, 4 * q + 2) \div 16)
      /\ EightBits(d, 24 * q + 8)  = 16 * (At(d, 4 * q + 2) % 16) + (At(d, 4 * q + 3) \div 4)
      /\ EightBits(d, 24 * q + 16) = 64 * (At(d, 4 * q + 3) % 4) + At(d, 4 * q + 4)
  BY BytesOfDigits
<1>7. CASE w = 4 /\ n = 3 * q /\ r = 4 * q + 2
  <2>1. 8 * n = 24 * q /\ r - 1 = 4 * q + 1
    BY <1>7
  <2>2. b = At(d, 4 * q + 2) /\ a = At(d, 4 * q + 1)
    BY <1>7, <2>1 DEF a, b
  <2>4. Complete(x, w) = (x \div 16) % 256
    BY <1>3, <1>7 DEF Complete
  <2> HIDE DEF At, EightBits
  <2> QED BY <1>1, <1>5, <1>6, <2>1, <2>2, <2>4 DEF ByteSlices
<1>8. CASE w = 2 /\ n = 3 * q + 1 /\ r = 4 * q + 3
  <2>1. 8 * n = 24 * q + 8 /\ r - 1 = 4 * q + 2
    BY <1>8
  <2>2. b = At(d, 4 * q + 3) /\ a = At(d, 4 * q + 2)
    BY <1>8, <2>1 DEF a, b
  <2>4. Complete(x, w) = (x \div 4) % 256
    BY <1>3, <1>8 DEF Complete
  <2> HIDE DEF At, EightBits
  <2> QED BY <1>1, <1>5, <1>6, <2>1, <2>2, <2>4 DEF ByteSlices
<1>9. CASE w = 0 /\ n = 3 * q + 2 /\ r = 4 * q + 4
  <2>1. 8 * n = 24 * q + 16 /\ r - 1 = 4 * q + 3
    BY <1>9
  <2>2. b = At(d, 4 * q + 4) /\ a = At(d, 4 * q + 3)
    BY <1>9, <2>1 DEF a, b
  <2>3. x \div 1 = x
    OBVIOUS
  <2>4. Complete(x, w) = x % 256
    BY <1>3, <1>9, <2>3 DEF Complete
  <2> HIDE DEF At, EightBits
  <2> QED BY <1>1, <1>5, <1>6, <2>1, <2>2, <2>4 DEF ByteSlices
<1> QED BY <1>2, <1>7, <1>8, <1>9 DEF PlaceInFour

-----------------------------------------------------------------------------
(***************************************************************************)
(* The inductive invariant.                                                *)
(***************************************************************************)

\* The first o digits of the code of t, and padding behind them.
Written(t, o) ==
  [k \in 1 .. PaddedSize(Len(t)) |-> IF k <= o THEN CodeOf(t)[k] ELSE Pad]

Encoding ==
  pc = "encoding" =>
    /\ i <= Len(bindata)
    /\ bits_collected \in {0, 2, 4, 6, 8, 10, 12}
    /\ Held(i, outpos, bits_collected)
    /\ LastTwo(accumulator, At(bindata, i - 1), At(bindata, i))
    /\ retval = Written(bindata, outpos)

\* Of the code all is written but for at most two characters of padding.
Encoded ==
  pc \in {"encoded", "aborted"} =>
    /\ retval = CodeOf(bindata)
    /\ pc = "aborted" <=> Asserts /\ bindata = <<>>

\* The bits of the digits before place i are in the text and the accumulator.
Decoding ==
  pc \in {"decoding", "decoded", "thrown"} =>
    /\ i <= Len(ascdata)
    /\ \A k \in 1 .. i : ascdata[k] # Illegal
    /\ bits_collected \in {0, 2, 4, 6}
    /\ Kept(Rank(ascdata, i), Len(retval), bits_collected)
    /\ LastDigits(accumulator, At(Digits(ascdata), Rank(ascdata, i) - 1),
                               At(Digits(ascdata), Rank(ascdata, i)))
    /\ \A k \in 1 .. Len(retval) : retval[k] = EightBits(Digits(ascdata), 8 * (k - 1))

Decoded ==
  /\ pc = "decoded" => i = Len(ascdata)
  /\ pc = "thrown"  => i < Len(ascdata) /\ ascdata[i + 1] = Illegal

\* What is decoded behind the encoder is the code it has made.
Chained ==
  pc \in {"decoding", "decoded", "thrown"} /\ bindata # <<>> => ascdata = CodeOf(bindata)

IInv == TypeOK /\ Encoding /\ Encoded /\ Decoding /\ Decoded /\ Chained

-----------------------------------------------------------------------------
(***************************************************************************)
(* The code of a text, and what has been written of it.                    *)
(***************************************************************************)
LEMMA BitType ==
  ASSUME NEW t \in Seq(Byte), NEW k \in Nat
  PROVE  Bit(t, 8, k) \in {0, 1}
<1> DEFINE m == k \div 8
           j == k % 8
           b == At(t, m + 1)
           p == 2 ^ (8 - 1 - j)
<1>1. m \in Nat /\ j \in 0 .. 7 /\ k = 8 * m + j
  OBVIOUS
<1> HIDE DEF m, j
<1>2. b \in Nat
  <2>1. 0 \in Byte /\ Byte \subseteq Nat /\ m + 1 \in Int
    BY <1>1 DEF Byte
  <2>2. At(t, m + 1) \in Byte
    BY <2>1, AtType
  <2> QED BY <2>1, <2>2
<1>3. p \in {1, 2, 4, 8, 16, 32, 64, 128}
  <2>1. 8 - 1 - j \in 0 .. 7
    BY <1>1
  <2> QED BY <2>1, Powers
<1>4. Bit(t, 8, 8 * m + j) = (b \div p) % 2
  <2>1. j \in Nat /\ j < 8
    BY <1>1
  <2> QED BY <1>1, <2>1, BitOfElement
<1> HIDE DEF b, p
<1>5. (b \div p) % 2 \in {0, 1}
  BY <1>2, <1>3
<1> QED BY <1>1, <1>4, <1>5

LEMMA SixBitsType ==
  ASSUME NEW t \in Seq(Byte), NEW k \in Nat
  PROVE  SixBits(t, k) \in Digit
<1>1. /\ k + 1 \in Nat /\ k + 2 \in Nat /\ k + 3 \in Nat /\ k + 4 \in Nat /\ k + 5 \in Nat
  OBVIOUS
<1>2. /\ Bit(t, 8, k) \in {0, 1} /\ Bit(t, 8, k + 1) \in {0, 1} /\ Bit(t, 8, k + 2) \in {0, 1}
      /\ Bit(t, 8, k + 3) \in {0, 1} /\ Bit(t, 8, k + 4) \in {0, 1} /\ Bit(t, 8, k + 5) \in {0, 1}
  BY <1>1, BitType
<1>3. SixBits(t, k) = Six(Bit(t, 8, k), Bit(t, 8, k + 1), Bit(t, 8, k + 2),
                          Bit(t, 8, k + 3), Bit(t, 8, k + 4), Bit(t, 8, k + 5))
  BY DEF SixBits, Six
<1>4. \A u, v, w, x, y, z \in {0, 1} : Six(u, v, w, x, y, z) \in Digit
  BY DEF Six, Digit
<1> QED BY <1>2, <1>3, <1>4

LEMMA CodeOfText ==
  ASSUME NEW t \in Seq(Byte)
  PROVE  /\ PaddedSize(Len(t)) \in Nat
         /\ CodeOf(t) \in Seq(Digit \cup {Pad}) /\ Len(CodeOf(t)) = PaddedSize(Len(t))
         /\ DOMAIN CodeOf(t) = 1 .. PaddedSize(Len(t))
         /\ \A k \in 1 .. PaddedSize(Len(t)) :
              CodeOf(t)[k] = IF 6 * (k - 1) < 8 * Len(t) THEN SixBits(t, 6 * (k - 1)) ELSE Pad
<1> DEFINE n == PaddedSize(Len(t))
           v(k) == IF 6 * (k - 1) < 8 * Len(t) THEN SixBits(t, 6 * (k - 1)) ELSE Pad
<1>1. n \in Nat
  BY DEF PaddedSize
<1>2. CodeOf(t) = [k \in 1 .. n |-> v(k)]
  BY DEF CodeOf
<1>3. ASSUME NEW k \in 1 .. n PROVE v(k) \in Digit \cup {Pad}
  <2>1. 6 * (k - 1) \in Nat
    BY <1>1
  <2> QED BY <2>1, SixBitsType
<1> HIDE DEF n, v
<1>4. CodeOf(t) \in Seq(Digit \cup {Pad}) /\ Len(CodeOf(t)) = n /\ DOMAIN CodeOf(t) = 1 .. n
  BY <1>1, <1>2, <1>3
<1> QED BY <1>1, <1>2, <1>4 DEF n, v

\* Digits are codes, and padding can be taken for a byte.
LEMMA WrittenType ==
  ASSUME NEW t \in Seq(Byte), NEW o \in Nat
  PROVE  /\ Written(t, o) \in Seq(Byte) /\ Len(Written(t, o)) = PaddedSize(Len(t))
         /\ DOMAIN Written(t, o) = 1 .. PaddedSize(Len(t))
<1> DEFINE n == PaddedSize(Len(t))
           v(k) == IF k <= o THEN CodeOf(t)[k] ELSE Pad
<1>1. n \in Nat
  BY CodeOfText
<1>2. \A k \in 1 .. n : v(k) \in Byte
  <2>1. \A k \in 1 .. n : CodeOf(t)[k] \in Digit \cup {Pad}
    BY CodeOfText, ElementOfSeq
  <2> QED BY <2>1 DEF Digit, Pad, Byte
<1>3. Written(t, o) = [k \in 1 .. n |-> v(k)]
  BY DEF Written
<1> HIDE DEF n, v
<1>4. Written(t, o) \in Seq(Byte) /\ Len(Written(t, o)) = n /\ DOMAIN Written(t, o) = 1 .. n
  BY <1>1, <1>2, <1>3
<1> QED BY <1>4 DEF n

\* Put adds the next digit (base64.cpp:35, 41).
LEMMA NextDigit ==
  ASSUME NEW t \in Seq(Byte), NEW o \in Nat, 6 * o < 8 * Len(t)
  PROVE  [Written(t, o) EXCEPT ![o + 1] = SixBits(t, 6 * o)] = Written(t, o + 1)
<1> DEFINE n == PaddedSize(Len(t))
           f == [Written(t, o) EXCEPT ![o + 1] = SixBits(t, 6 * o)]
<1>1. n \in Nat
  BY CodeOfText
<1>2. ASSUME NEW k \in 1 .. n
      PROVE  f[k] = IF k <= o + 1 THEN CodeOf(t)[k] ELSE Pad
  <2>1. CASE k = o + 1
    <3>1. f[k] = SixBits(t, 6 * o)
      BY <2>1 DEF Written
    <3>2. CodeOf(t)[k] = IF 6 * (k - 1) < 8 * Len(t) THEN SixBits(t, 6 * (k - 1)) ELSE Pad
      BY CodeOfText
    <3>3. 6 * (k - 1) = 6 * o /\ k <= o + 1
      BY <2>1
    <3> QED BY <3>1, <3>2, <3>3
  <2>2. CASE k # o + 1
    <3>1. f[k] = IF k <= o THEN CodeOf(t)[k] ELSE Pad
      BY <2>2 DEF Written
    <3>2. k <= o <=> k <= o + 1
      BY <1>1, <2>2
    <3> QED BY <3>1, <3>2
  <2> QED BY <2>1, <2>2
<1>3. DOMAIN f = 1 .. n /\ f = [k \in 1 .. n |-> f[k]]
  BY DEF Written
<1> HIDE DEF f, n
<1> QED BY <1>2, <1>3 DEF Written, f, n

-----------------------------------------------------------------------------
(***************************************************************************)
(* The invariant, step by step.                                            *)
(***************************************************************************)
LEMMA AccumulatorIsNat == TypeOK => accumulator \in Nat
BY Modulus DEF TypeOK

LEMMA ZeroInRange == 0 \in 0 .. 2 ^ Width - 1
<1> DEFINE m == 2 ^ Width
<1>1. \E k \in Nat \ {0} : m = 65536 * k
  BY Modulus
<1> HIDE DEF m
<1>2. 0 \in 0 .. m - 1
  BY <1>1
<1> QED BY <1>2 DEF m

LEMMA InitIInv == Init => IInv
<1> SUFFICES ASSUME Init PROVE IInv
  OBVIOUS
<1>1. i = 0 /\ bits_collected = 0 /\ accumulator = 0 /\ outpos = 0
  BY DEF Init
<1>2. accumulator \in 0 .. 2 ^ Width - 1
  BY <1>1, ZeroInRange
<1>3. CASE \E t \in Texts : Encode(t)
  <2>1. PICK t \in Texts : Encode(t)
    BY <1>3
  <2>2. t \in Seq(Byte) /\ bindata = t /\ ascdata = <<>> /\ pc = "encoding"
        /\ retval = [k \in 1 .. PaddedSize(Len(t)) |-> Pad]
    BY <2>1, Base64Assumption DEF Encode
  <2>3. retval = Written(bindata, 0)
    BY <2>2 DEF Written
  <2>4. retval \in Seq(Byte)
    BY <2>2, <2>3, WrittenType
  <2>5. TypeOK
    BY <1>1, <1>2, <2>2, <2>4 DEF TypeOK
  <2>6. Held(0, 0, 0) /\ LastTwo(0, At(bindata, 0 - 1), At(bindata, 0))
    BY <2>2 DEF Held, LastTwo, At
  <2>7. Encoding
    BY <1>1, <2>2, <2>3, <2>6 DEF Encoding
  <2> QED BY <2>2, <2>5, <2>7 DEF IInv, Encoded, Decoding, Decoded, Chained
<1>4. CASE \E c \in Codes : Decode(c)
  <2>1. PICK c \in Codes : Decode(c)
    BY <1>4
  <2>2. ascdata \in Seq(Digit \cup {Pad, Space, Illegal})
        /\ bindata = <<>> /\ pc = "decoding" /\ retval = <<>>
    BY <2>1, Base64Assumption DEF Decode
  <2>3. TypeOK
    BY <1>1, <1>2, <2>2 DEF TypeOK
  <2>4. Rank(ascdata, 0) = 0 /\ Kept(0, 0, 0)
    BY FirstRank DEF Kept
  <2>5. LastDigits(0, At(Digits(ascdata), 0 - 1), At(Digits(ascdata), 0))
    BY DEF LastDigits, At
  <2>6. Decoding
    BY <1>1, <2>2, <2>4, <2>5 DEF Decoding
  <2> QED BY <2>2, <2>3, <2>6 DEF IInv, Encoding, Encoded, Decoded, Chained
<1> QED BY <1>3, <1>4 DEF Init

LEMMA TakeStep == IInv /\ Take => IInv'
<1> SUFFICES ASSUME IInv, Take PROVE IInv'
  OBVIOUS
<1>1. /\ TypeOK /\ pc = "encoding" /\ pc' = pc /\ bindata' = bindata /\ ascdata' = ascdata
      /\ i < Len(bindata) /\ i' = i + 1 /\ bits_collected < 6
      /\ bits_collected' = bits_collected + 8
      /\ accumulator' = Wrap(accumulator * 2 ^ 8 + bindata[i + 1])
      /\ retval' = retval /\ outpos' = outpos
      /\ bits_collected \in {0, 2, 4, 6, 8, 10, 12}
      /\ Held(i, outpos, bits_collected)
      /\ LastTwo(accumulator, At(bindata, i - 1), At(bindata, i))
      /\ retval = Written(bindata, outpos)
  BY DEF IInv, Encoding, Take, args, ShiftIn
<1>2. i \in Nat /\ outpos \in Nat /\ bindata \in Seq(Byte) /\ accumulator \in Nat
      /\ Len(bindata) \in Nat
  BY <1>1, AccumulatorIsNat DEF TypeOK
<1>3. bits_collected' \in {8, 10, 12}
  BY <1>1
<1> DEFINE a == At(bindata, i - 1)
           b == At(bindata, i)
           c == At(bindata, i + 1)
<1>4. a \in 0 .. 255 /\ b \in 0 .. 255 /\ c \in 0 .. 255 /\ c = bindata[i + 1]
  <2>1. 0 \in Byte /\ i - 1 \in Int /\ i \in Int /\ i + 1 \in Int /\ i + 1 \in 1 .. Len(bindata)
    BY <1>1, <1>2 DEF Byte
  <2>2. a \in Byte /\ b \in Byte /\ c \in Byte
    BY <1>2, <2>1, AtType
  <2>3. c = bindata[i + 1]
    BY <2>1 DEF At
  <2> QED BY <2>2, <2>3 DEF Byte
<1>5. accumulator' = Wrap(accumulator * 256 + c)
  <2>1. 2 ^ 8 = 256
    OBVIOUS
  <2> QED BY <1>1, <1>4, <2>1
<1>6. LastTwo(accumulator, a, b)
  BY <1>1
<1> HIDE DEF a, b, c
<1>7. accumulator' \in 0 .. 2 ^ Width - 1 /\ LastTwo(accumulator', b, c)
  <2>1. accumulator \in Nat /\ a \in 0 .. 255 /\ b \in 0 .. 255 /\ c \in 0 .. 255
    BY <1>2, <1>4
  <2>2. InAccumulator(Wrap(accumulator * 256 + c)) /\ LastTwo(Wrap(accumulator * 256 + c), b, c)
    BY <1>6, <2>1, ShiftAndWrap
  <2> QED BY <1>5, <2>2 DEF InAccumulator
<1>8. LastTwo(accumulator', At(bindata', i' - 1), At(bindata', i'))
  <2>1. i' - 1 = i
    BY <1>1, <1>2
  <2> QED BY <1>1, <1>7, <2>1 DEF b, c
<1>9. Held(i', outpos', bits_collected') /\ i' <= Len(bindata')
  BY <1>1, <1>2, <1>3 DEF Held
<1>10. TypeOK'
  BY <1>1, <1>2, <1>3, <1>7 DEF TypeOK
<1>11. Encoding'
  BY <1>1, <1>3, <1>8, <1>9 DEF Encoding
<1> QED BY <1>1, <1>10, <1>11 DEF IInv, Encoded, Decoding, Decoded, Chained

LEMMA EmitStep == IInv /\ Emit => IInv'
<1> SUFFICES ASSUME IInv, Emit PROVE IInv'
  OBVIOUS
<1>1. /\ TypeOK /\ pc = "encoding" /\ pc' = pc /\ bindata' = bindata /\ ascdata' = ascdata
      /\ i' = i /\ i <= Len(bindata) /\ bits_collected >= 6
      /\ bits_collected' = bits_collected - 6
      /\ accumulator' = accumulator
      /\ retval' = [retval EXCEPT ![outpos + 1] = (accumulator \div 2 ^ bits_collected') % 2 ^ 6]
      /\ outpos' = outpos + 1
      /\ bits_collected \in {0, 2, 4, 6, 8, 10, 12}
      /\ Held(i, outpos, bits_collected)
      /\ LastTwo(accumulator, At(bindata, i - 1), At(bindata, i))
      /\ retval = Written(bindata, outpos)
  BY DEF IInv, Encoding, Emit, Put, args, LastBits
<1>2. i \in Nat /\ outpos \in Nat /\ bindata \in Seq(Byte) /\ accumulator \in Nat
      /\ Len(bindata) \in Nat
  BY <1>1, AccumulatorIsNat DEF TypeOK
<1>3. bits_collected \in {6, 8, 10, 12} /\ bits_collected' \in {0, 2, 4, 6}
  BY <1>1
<1>4. (accumulator \div 2 ^ bits_collected') % 2 ^ 6 = SixBits(bindata, 6 * outpos)
  <2>1. Emitted(accumulator, bits_collected) = SixBits(bindata, 6 * outpos)
    BY <1>1, <1>2, <1>3, EmittedDigit
  <2>2. bits_collected' = bits_collected - 6
    BY <1>1
  <2> QED BY <2>1, <2>2, Zenon DEF Emitted
<1>5. 6 * outpos < 8 * Len(bindata)
  BY <1>1, <1>2, <1>3 DEF Held
<1>6. retval' = Written(bindata', outpos')
  BY <1>1, <1>2, <1>4, <1>5, NextDigit
<1>7. retval' \in Seq(Byte) /\ outpos' \in Nat
  <2>1. bindata' \in Seq(Byte) /\ outpos' \in Nat
    BY <1>1, <1>2
  <2> QED BY <1>6, <2>1, WrittenType
<1>8. Held(i', outpos', bits_collected')
  BY <1>1, <1>2, <1>3 DEF Held
<1>9. TypeOK'
  BY <1>1, <1>2, <1>3, <1>7 DEF TypeOK
<1>10. Encoding'
  BY <1>1, <1>3, <1>6, <1>8 DEF Encoding
<1> QED BY <1>1, <1>9, <1>10 DEF IInv, Encoded, Decoding, Decoded, Chained

\* The code is complete when its digits have all bits of the text.
LEMMA AllWritten ==
  ASSUME NEW t \in Seq(Byte), NEW o \in Nat, 8 * Len(t) <= 6 * o, 6 * o < 8 * Len(t) + 6
  PROVE  /\ Written(t, o) = CodeOf(t)
         /\ PaddedSize(Len(t)) - 2 <= o /\ o <= PaddedSize(Len(t))
<1> DEFINE n == PaddedSize(Len(t))
           v(k) == IF 6 * (k - 1) < 8 * Len(t) THEN SixBits(t, 6 * (k - 1)) ELSE Pad
<1>1. n \in Nat /\ Len(t) \in Nat
  BY CodeOfText
<1>2. n - 2 <= o /\ o <= n
  BY <1>1 DEF PaddedSize
<1>3. ASSUME NEW k \in 1 .. n
      PROVE  (IF k <= o THEN CodeOf(t)[k] ELSE Pad) = v(k)
  <2>1. CodeOf(t)[k] = v(k)
    BY CodeOfText
  <2>2. k \in Nat
    BY <1>1
  <2>3. CASE k <= o
    BY <2>1, <2>3
  <2>4. CASE ~(k <= o)
    <3>1. ~(6 * (k - 1) < 8 * Len(t))
      BY <1>1, <2>2, <2>4
    <3> QED BY <2>4, <3>1
  <2> QED BY <2>3, <2>4
<1>4. Written(t, o) = [k \in 1 .. n |-> v(k)]
  <2> HIDE DEF n, v
  <2>1. Written(t, o) = [k \in 1 .. n |-> IF k <= o THEN CodeOf(t)[k] ELSE Pad]
    BY DEF Written, n
  <2> QED BY <1>3, <2>1
<1>5. CodeOf(t) = [k \in 1 .. n |-> v(k)]
  BY DEF CodeOf
<1> HIDE DEF v
<1> QED BY <1>2, <1>4, <1>5

LEMMA FlushStep == IInv /\ Flush => IInv'
<1> SUFFICES ASSUME IInv, Flush PROVE IInv'
  OBVIOUS
<1>1. /\ TypeOK /\ pc = "encoding" /\ pc' \in {"encoded", "aborted"}
      /\ bindata' = bindata /\ ascdata' = ascdata
      /\ i' = i /\ i = Len(bindata) /\ bits_collected < 6
      /\ bits_collected' = bits_collected
      /\ bits_collected \in {0, 2, 4, 6, 8, 10, 12}
      /\ Held(i, outpos, bits_collected)
      /\ LastTwo(accumulator, At(bindata, i - 1), At(bindata, i))
      /\ retval = Written(bindata, outpos)
  BY DEF IInv, Encoding, Flush, args
<1>2. i \in Nat /\ outpos \in Nat /\ bindata \in Seq(Byte) /\ accumulator \in Nat
      /\ accumulator \in 0 .. 2 ^ Width - 1 /\ Len(bindata) \in Nat
  BY <1>1, AccumulatorIsNat DEF TypeOK
<1>3. /\ accumulator' \in 0 .. 2 ^ Width - 1 /\ outpos' \in Nat
      /\ 8 * Len(bindata) <= 6 * outpos' /\ 6 * outpos' < 8 * Len(bindata) + 6
      /\ retval' = Written(bindata, outpos')
  <2>1. CASE bits_collected = 0
    <3>1. accumulator' = accumulator /\ retval' = retval /\ outpos' = outpos
      BY <2>1 DEF Flush
    <3>2. 8 * Len(bindata) = 6 * outpos
      BY <1>1, <1>2, <2>1 DEF Held
    <3>3. 8 * Len(bindata) <= 6 * outpos /\ 6 * outpos < 8 * Len(bindata) + 6
      BY <1>2, <3>2
    <3> QED BY <1>1, <1>2, <3>1, <3>3
  <2>2. CASE bits_collected \in {2, 4}
    <3>1. /\ accumulator' = Wrap(accumulator * 2 ^ (6 - bits_collected))
          /\ outpos' = outpos + 1
          /\ retval' = [retval EXCEPT ![outpos + 1] = accumulator' % 2 ^ 6]
      BY <2>2 DEF Flush, Put, TrailingShift
    <3>2. accumulator' \in 0 .. 2 ^ Width - 1
      <4>1. 2 ^ 4 = 16 /\ 2 ^ 2 = 4
        OBVIOUS
      <4>2. 6 - bits_collected = 4 \/ 6 - bits_collected = 2
        BY <2>2
      <4>3. accumulator * 16 \in Nat /\ accumulator * 4 \in Nat
        BY <1>2
      <4>4. Wrap(accumulator * 16) \in 0 .. 2 ^ Width - 1 /\ Wrap(accumulator * 4) \in 0 .. 2 ^ Width - 1
        BY <4>3, WrapKeeps
      <4> QED BY <3>1, <4>1, <4>2, <4>4
    <3>3. Wrap(accumulator * 2 ^ (6 - bits_collected)) % 2 ^ 6 = SixBits(bindata, 6 * outpos)
      BY <1>1, <1>2, <2>2, FlushedDigit
    <3>4. /\ 6 * outpos < 8 * Len(bindata)
          /\ 8 * Len(bindata) <= 6 * (outpos + 1) /\ 6 * (outpos + 1) < 8 * Len(bindata) + 6
      BY <1>1, <1>2, <2>2 DEF Held
    <3>5. [retval EXCEPT ![outpos + 1] = SixBits(bindata, 6 * outpos)] = Written(bindata, outpos + 1)
      BY <1>1, <1>2, <3>4, NextDigit
    <3>6. retval' = Written(bindata, outpos')
      BY <3>1, <3>3, <3>5
    <3>7. outpos' = outpos + 1
      BY <3>1
    <3> QED BY <1>2, <3>2, <3>4, <3>6, <3>7
  <2>3. bits_collected = 0 \/ bits_collected \in {2, 4}
    BY <1>1
  <2> QED BY <2>1, <2>2, <2>3, Zenon
<1>4. retval' = CodeOf(bindata) /\ PaddedSize(Len(bindata)) - 2 <= outpos'
      /\ outpos' <= PaddedSize(Len(bindata))
  BY <1>2, <1>3, AllWritten
<1>5. retval' \in Seq(Byte) /\ Len(retval') = PaddedSize(Len(bindata))
  BY <1>2, <1>3, WrittenType
<1>6. SizeAsserted(outpos', Len(retval')) <=> bindata # <<>>
  <2>1. PaddedSize(Len(bindata)) >= 2 <=> Len(bindata) > 0
    BY <1>2 DEF PaddedSize
  <2>2. Len(bindata) > 0 <=> bindata # <<>>
    BY <1>2
  <2> QED BY <1>4, <1>5, <2>1, <2>2 DEF SizeAsserted
<1>8. pc' = IF Asserts /\ bindata = <<>> THEN "aborted" ELSE "encoded"
  BY <1>6 DEF Flush
<1>9. Encoded'
  BY <1>1, <1>4, <1>8 DEF Encoded
<1>7. TypeOK'
  BY <1>1, <1>2, <1>3, <1>5 DEF TypeOK
<1> QED BY <1>1, <1>9, <1>7 DEF IInv, Encoding, Decoding, Decoded, Chained

\* The decoder starts with no digit taken (base64.cpp:48-54).
LEMMA NothingDecoded ==
  ASSUME NEW c
  PROVE  /\ Rank(c, 0) = 0 /\ Kept(0, 0, 0)
         /\ LastDigits(0, At(Digits(c), 0 - 1), At(Digits(c), 0))
<1>1. Rank(c, 0) = 0 /\ Kept(0, 0, 0)
  BY FirstRank DEF Kept
<1>2. LastDigits(0, At(Digits(c), 0 - 1), At(Digits(c), 0))
  BY DEF LastDigits, At
<1> QED BY <1>1, <1>2

LEMMA DecodeCodeStep == IInv /\ DecodeCode => IInv'
<1> SUFFICES ASSUME IInv, DecodeCode PROVE IInv'
  OBVIOUS
<1>1. /\ TypeOK /\ pc' = "decoding" /\ bindata' = bindata /\ outpos' = outpos
      /\ ascdata' = CodeOf(bindata) /\ retval' = <<>>
      /\ i' = 0 /\ bits_collected' = 0 /\ accumulator' = 0
  BY DEF IInv, Encoded, DecodeCode
<1>2. ascdata' \in Seq(Digit \cup {Pad, Space, Illegal})
  <2>1. bindata \in Seq(Byte)
    BY <1>1 DEF TypeOK
  <2>2. CodeOf(bindata) \in Seq(Digit \cup {Pad})
    BY <2>1, CodeOfText
  <2> QED BY <1>1, <2>2
<1>3. TypeOK'
  BY <1>1, <1>2, ZeroInRange DEF TypeOK
<1>4. Decoding'
  BY <1>1, <1>2, NothingDecoded DEF Decoding
<1> QED BY <1>1, <1>3, <1>4 DEF IInv, Encoding, Encoded, Decoded, Chained

LEMMA ReadStep == IInv /\ Read => IInv'
<1> SUFFICES ASSUME IInv, Read PROVE IInv'
  OBVIOUS
<1> DEFINE c == ascdata[i + 1]
           r == Rank(ascdata, i)
           d == Digits(ascdata)
<1>1. /\ TypeOK /\ pc = "decoding" /\ i < Len(ascdata)
      /\ bindata' = bindata /\ ascdata' = ascdata /\ outpos' = outpos
      /\ \A k \in 1 .. i : ascdata[k] # Illegal
      /\ bits_collected \in {0, 2, 4, 6}
      /\ Kept(r, Len(retval), bits_collected)
      /\ LastDigits(accumulator, At(d, r - 1), At(d, r))
      /\ \A k \in 1 .. Len(retval) : retval[k] = EightBits(d, 8 * (k - 1))
  BY DEF IInv, Decoding, Read, args
<1>2. /\ i \in Nat /\ ascdata \in Seq(Digit \cup {Pad, Space, Illegal}) /\ accumulator \in Nat
      /\ retval \in Seq(Byte) /\ Len(retval) \in Nat /\ Len(ascdata) \in Nat
  BY <1>1, AccumulatorIsNat DEF TypeOK
<1>3. r \in Nat /\ d \in Seq(Digit) /\ Len(d) = Rank(ascdata, Len(ascdata))
  BY <1>2, PlacesAreFinite, DigitsOfCode
<1>4. /\ i + 1 \in 1 .. Len(ascdata)
      /\ c \in Digit \cup {Pad, Space, Illegal}
      /\ Rank(ascdata, i + 1) = IF c \in Digit THEN r + 1 ELSE r
  <2>1. i + 1 \in 1 .. Len(ascdata)
    BY <1>1, <1>2
  <2> QED BY <1>2, <2>1, NextRank, ElementOfSeq
<1>5. Pad \notin Digit /\ Space \notin Digit /\ Illegal \notin Digit /\ Illegal # Pad /\ Illegal # Space
  BY DEF Pad, Space, Illegal, Digit
<1>6. ASSUME c # Illegal PROVE \A k \in 1 .. i + 1 : ascdata[k] # Illegal
  BY <1>1, <1>2, <1>6
<1>7. CASE Skips(c)
  <2>0. i' = i + 1 /\ UNCHANGED <<pc, accumulator, bits_collected, retval>>
    BY <1>5, <1>7 DEF Read, Skips
  <2>1. c \notin Digit /\ c # Illegal
    BY <1>5, <1>7 DEF Skips
  <2>2. Rank(ascdata, i + 1) = r
    BY <1>4, <2>1
  <2>3. TypeOK'
    BY <1>1, <1>2, <2>0 DEF TypeOK
  <2>4. i + 1 <= Len(ascdata)
    BY <1>4
  <2> HIDE DEF c, r, d
  <2>5. Rank(ascdata', i') = r /\ Digits(ascdata') = d /\ i' <= Len(ascdata')
    BY <1>1, <2>0, <2>2, <2>4 DEF d
  <2>6. Decoding'
    BY <1>1, <1>6, <2>0, <2>1, <2>5 DEF Decoding
  <2> QED BY <1>1, <2>0, <2>3, <2>6 DEF IInv, Encoding, Encoded, Decoded, Chained
<1>8. CASE c = Illegal
  <2>1. pc' = "thrown" /\ UNCHANGED <<i, accumulator, bits_collected, retval>>
    BY <1>5, <1>8 DEF Read, Skips
  <2>2. TypeOK'
    BY <1>1, <2>1 DEF TypeOK
  <2>3. Decoded'
    BY <1>1, <1>8, <2>1 DEF Decoded
  <2> HIDE DEF c
  <2>4. i' <= Len(ascdata')
    BY <1>1, <1>2, <2>1
  <2>5. Decoding'
    BY <1>1, <2>1, <2>4 DEF Decoding
  <2> QED BY <1>1, <2>1, <2>2, <2>3, <2>5 DEF IInv, Encoding, Encoded, Chained
<1>9. CASE c \in Digit
  <2> DEFINE n == bits_collected + 6
  <2>0. /\ i' = i + 1 /\ pc' = pc
        /\ accumulator' = ShiftIn(6, c)
        /\ bits_collected' = IF n >= 8 THEN n - 8 ELSE n
        /\ retval' = IF n >= 8
                     THEN Append(retval, Complete(accumulator', bits_collected'))
                     ELSE retval
    BY <1>5, <1>9 DEF Read, Skips, Complete
  <2> DEFINE a == At(d, r - 1)
             b == At(d, r)
  <2>1. c # Illegal /\ Rank(ascdata, i + 1) = r + 1
    BY <1>4, <1>5, <1>9
  <2>2. a \in 0 .. 63 /\ b \in 0 .. 63 /\ c \in 0 .. 63
    <3>1. 0 \in Digit /\ r - 1 \in Int /\ r \in Int
      BY <1>3 DEF Digit
    <3>2. a \in Digit /\ b \in Digit
      <4> HIDE DEF d, r
      <4> QED BY <1>3, <3>1, AtType
    <3> QED BY <1>9, <3>2 DEF Digit
  <2>3. At(d, r + 1) = c
    <3>1. i + 1 \in DigitPlaces(ascdata, Len(ascdata))
      BY <1>4, <1>9 DEF DigitPlaces
    <3>2. Digits(ascdata)[Rank(ascdata, i + 1)] = ascdata[i + 1]
      BY <1>2, <3>1, DigitsOfCode
    <3>3. Rank(ascdata, i + 1) \in 1 .. Rank(ascdata, Len(ascdata))
      BY <1>2, <3>1, RankOfDigit
    <3>4. d[r + 1] = c /\ r + 1 \in 1 .. Len(d)
      BY <1>3, <2>1, <3>2, <3>3
    <3> HIDE DEF d, r, c
    <3> QED BY <3>4 DEF At
  <2>4. LastDigits(accumulator, a, b)
    BY <1>1
  <2> HIDE DEF a, b, c
  <2>5. /\ accumulator' \in 0 .. 2 ^ Width - 1 /\ accumulator' \in Nat
        /\ LastDigits(accumulator', b, c)
    <3>1. 2 ^ 6 = 64
      OBVIOUS
    <3>2. accumulator' = Wrap(accumulator * 64 + c)
      BY <2>0, <3>1 DEF ShiftIn
    <3>3. InAccumulator(Wrap(accumulator * 64 + c)) /\ LastDigits(Wrap(accumulator * 64 + c), b, c)
      BY <1>2, <2>2, <2>4, ShiftAndWrapDigit
    <3>4. accumulator * 64 + c \in Nat
      BY <1>2, <2>2
    <3>5. Wrap(accumulator * 64 + c) \in Nat
      BY <3>4, WrapKeeps
    <3> QED BY <3>2, <3>3, <3>5 DEF InAccumulator
  <2>6. LastDigits(accumulator', At(d, (r + 1) - 1), At(d, r + 1))
    <3>1. (r + 1) - 1 = r
      BY <1>3
    <3> QED BY <2>3, <2>5, <3>1 DEF b
  <2> HIDE DEF d, r
  <2>7. /\ bits_collected' \in {0, 2, 4, 6}
        /\ retval' \in Seq(Byte)
        /\ Kept(r + 1, Len(retval'), bits_collected')
        /\ \A k \in 1 .. Len(retval') : retval'[k] = EightBits(d, 8 * (k - 1))
    <3>1. CASE bits_collected = 0
      <4>1. bits_collected' = 6 /\ retval' = retval
        BY <2>0, <3>1
      <4>2. Kept(r + 1, Len(retval), 6)
        <5>1. Kept(r, Len(retval), 0)
          BY <1>1, <3>1
        <5> QED BY <1>2, <1>3, <5>1 DEF Kept
      <4>3. bits_collected' \in {0, 2, 4, 6}
        BY <4>1
      <4> QED BY <1>1, <1>2, <4>1, <4>2, <4>3, Zenon
    <3>2. CASE bits_collected \in {2, 4, 6}
      <4> DEFINE m == Len(retval)
                 v == EightBits(d, 8 * m)
      <4>1. /\ bits_collected' = bits_collected - 2
            /\ retval' = Append(retval, Complete(accumulator', bits_collected'))
            /\ bits_collected' \in {0, 2, 4}
        BY <2>0, <3>2
      <4>2. Kept(r + 1, m + 1, bits_collected')
        <5>1. Kept(r, Len(retval), bits_collected) /\ bits_collected' = bits_collected - 2
          BY <1>1, <4>1
        <5>2. Kept(r + 1, Len(retval) + 1, bits_collected - 2)
          BY <1>2, <1>3, <3>2, <5>1, NextByteKept
        <5> QED BY <5>1, <5>2
      <4>3. Complete(accumulator', bits_collected') = v
        <5>1. r + 1 \in Nat /\ m \in Nat
          BY <1>2, <1>3
        <5> HIDE DEF m
        <5> QED BY <1>3, <2>5, <2>6, <4>1, <4>2, <5>1, DecodedByte
      <4>4. v \in Byte
        <5>1. Complete(accumulator', bits_collected') \in Byte
          <6>1. bits_collected' \in 0 .. 7
            BY <4>1
          <6> QED BY <2>5, <6>1, ByteOut DEF Complete
        <5> QED BY <4>3, <5>1
      <4> HIDE DEF v
      <4>5. retval' = Append(retval, v)
        BY <4>1, <4>3
      <4>6. /\ retval' \in Seq(Byte) /\ Len(retval') = m + 1 /\ retval'[m + 1] = v
            /\ \A k \in 1 .. m : retval'[k] = retval[k]
        BY <1>2, <4>4, <4>5
      <4>7. ASSUME NEW k \in 1 .. m + 1 PROVE retval'[k] = EightBits(d, 8 * (k - 1))
        <5>1. CASE k = m + 1
          <6>1. 8 * (k - 1) = 8 * m
            BY <1>2, <5>1
          <6> QED BY <4>6, <5>1, <6>1 DEF v
        <5>2. CASE k \in 1 .. m
          BY <1>1, <4>6, <5>2
        <5> QED BY <1>2, <5>1, <5>2
      <4> QED BY <4>1, <4>2, <4>6, <4>7
    <3> QED BY <1>1, <3>1, <3>2
  <2>8. TypeOK'
    <3>1. bits_collected' \in 0 .. 13 /\ i' \in Nat
      BY <1>2, <2>0, <2>7
    <3> QED BY <1>1, <2>0, <2>5, <2>7, <3>1 DEF TypeOK
  <2>9. Rank(ascdata', i') = r + 1 /\ Digits(ascdata') = d /\ i' <= Len(ascdata')
    BY <1>1, <1>4, <2>0, <2>1 DEF d
  <2>10. Decoding'
    <3>1. \A k \in 1 .. i' : ascdata'[k] # Illegal
      BY <1>1, <1>6, <2>0, <2>1
    <3>2. Kept(Rank(ascdata', i'), Len(retval'), bits_collected')
      BY <2>7, <2>9
    <3>3. LastDigits(accumulator', At(Digits(ascdata'), Rank(ascdata', i') - 1),
                                   At(Digits(ascdata'), Rank(ascdata', i')))
      BY <2>6, <2>9, Zenon
    <3>4. \A k \in 1 .. Len(retval') : retval'[k] = EightBits(Digits(ascdata'), 8 * (k - 1))
      BY <2>7, <2>9
    <3>5. bits_collected' \in {0, 2, 4, 6} /\ i' <= Len(ascdata')
      BY <2>7, <2>9
    <3> QED BY <3>1, <3>2, <3>3, <3>4, <3>5, Zenon DEF Decoding
  <2> QED BY <1>1, <2>0, <2>8, <2>10 DEF IInv, Encoding, Encoded, Decoded, Chained
<1>10. Skips(c) \/ c = Illegal \/ c \in Digit
  BY <1>4 DEF Skips
<1> QED BY <1>7, <1>8, <1>9, <1>10

LEMMA ReturnTextStep == IInv /\ ReturnText => IInv'
<1> SUFFICES ASSUME IInv, ReturnText PROVE IInv'
  OBVIOUS
<1>1. /\ pc = "decoding" /\ pc' = "decoded" /\ i = Len(ascdata)
      /\ UNCHANGED <<bindata, ascdata, i, bits_collected, accumulator, retval, outpos>>
  BY DEF ReturnText, args
<1>2. TypeOK'
  BY <1>1 DEF IInv, TypeOK
<1>3. Decoding' /\ Decoded'
  BY <1>1 DEF IInv, Decoding, Decoded
<1> QED BY <1>1, <1>2, <1>3 DEF IInv, Encoding, Encoded, Chained

LEMMA SameState == IInv /\ UNCHANGED vars => IInv'
BY DEF vars, args, IInv, TypeOK, Encoding, Encoded, Decoding, Decoded, Chained

-----------------------------------------------------------------------------
(***************************************************************************)
(* The digits of the code of a text are its first characters, and the      *)
(* bytes in them are the text.                                             *)
(***************************************************************************)

\* d has the m digits of the code of t, and these have all bits of t.
DigitsOf(d, t, m) ==
  /\ d \in Seq(Digit) /\ Len(d) = m /\ m \in Nat
  /\ 8 * Len(t) <= 6 * m /\ 6 * m < 8 * Len(t) + 6
  /\ \A j \in 1 .. m : d[j] = SixBits(t, 6 * (j - 1))

LEMMA DigitsOfText ==
  ASSUME NEW t \in Seq(Byte)
  PROVE  DigitsOf(Digits(CodeOf(t)), t, (8 * Len(t) + 5) \div 6)
<1> DEFINE c == CodeOf(t)
           n == PaddedSize(Len(t))
           m == (8 * Len(t) + 5) \div 6
<1>1. /\ n \in Nat /\ c \in Seq(Digit \cup {Pad}) /\ Len(c) = n /\ Len(t) \in Nat
      /\ \A k \in 1 .. n :
           c[k] = IF 6 * (k - 1) < 8 * Len(t) THEN SixBits(t, 6 * (k - 1)) ELSE Pad
  BY CodeOfText
<1>2. m \in Nat /\ 8 * Len(t) <= 6 * m /\ 6 * m < 8 * Len(t) + 6
  BY <1>1
<1>3. m <= n
  BY <1>1 DEF PaddedSize
<1> HIDE DEF c, n, m
<1>4. \A j \in 1 .. m : c[j] = SixBits(t, 6 * (j - 1)) /\ c[j] \in Digit
  <2> SUFFICES ASSUME NEW j \in 1 .. m
               PROVE  c[j] = SixBits(t, 6 * (j - 1)) /\ c[j] \in Digit
    OBVIOUS
  <2>1. j \in 1 .. n /\ 6 * (j - 1) \in Nat /\ 6 * (j - 1) < 8 * Len(t)
    BY <1>1, <1>2, <1>3
  <2>2. c[j] = SixBits(t, 6 * (j - 1))
    BY <1>1, <2>1
  <2> QED BY <2>1, <2>2, SixBitsType
<1>5. \A j \in 1 .. n : c[j] \in Digit => j <= m
  <2> SUFFICES ASSUME NEW j \in 1 .. n, ~(j <= m) PROVE c[j] \notin Digit
    OBVIOUS
  <2>1. ~(6 * (j - 1) < 8 * Len(t))
    BY <1>1, <1>2
  <2>2. c[j] = Pad
    BY <1>1, <2>1
  <2> QED BY <2>2 DEF Pad, Digit
<1>6. \A k \in 0 .. m : Rank(c, k) = k
  <2> SUFFICES ASSUME NEW k \in 0 .. m PROVE Rank(c, k) = k
    OBVIOUS
  <2>1. k \in Nat /\ \A j \in 1 .. k : j \in 1 .. m
    BY <1>2
  <2>2. DigitPlaces(c, k) = 1 .. k
    BY <1>4, <2>1 DEF DigitPlaces
  <2> QED BY <2>1, <2>2, CardinalityOfRange DEF Rank
<1>7. Rank(c, n) = m
  <2>1. DigitPlaces(c, n) = 1 .. m
    BY <1>1, <1>2, <1>3, <1>4, <1>5 DEF DigitPlaces
  <2> QED BY <1>2, <2>1, CardinalityOfRange DEF Rank
<1>8. Digits(c) \in Seq(Digit) /\ Len(Digits(c)) = m
  BY <1>1, <1>7, DigitsOfCode
<1>9. \A j \in 1 .. m : Digits(c)[j] = SixBits(t, 6 * (j - 1))
  <2> SUFFICES ASSUME NEW j \in 1 .. m PROVE Digits(c)[j] = c[j]
    BY <1>4
  <2>1. j \in DigitPlaces(c, n)
    BY <1>1, <1>2, <1>3, <1>4 DEF DigitPlaces
  <2>2. Digits(c)[Rank(c, j)] = c[j]
    BY <1>1, <2>1, DigitsOfCode
  <2>3. Rank(c, j) = j
    BY <1>2, <1>6
  <2> QED BY <2>2, <2>3
<1>10. DigitsOf(Digits(c), t, m)
  BY <1>2, <1>8, <1>9 DEF DigitsOf
<1> QED BY <1>10 DEF c, m

\* The three bytes of a group come back from its digits.
Back(a, b, c) ==
  /\ 4 * (a \div 4) + ((16 * (a % 4) + (b \div 16)) \div 16) = a
  /\ 16 * ((16 * (a % 4) + (b \div 16)) % 16) + ((4 * (b % 16) + (c \div 64)) \div 4) = b
  /\ 64 * ((4 * (b % 16) + (c \div 64)) % 4) + (c % 64) = c

LEMMA BytesBack ==
  ASSUME NEW a \in 0 .. 255, NEW b \in 0 .. 255, NEW c \in 0 .. 255
  PROVE  Back(a, b, c)
<1>1. 4 * (a \div 4) + ((16 * (a % 4) + (b \div 16)) \div 16) = a
  OBVIOUS
<1>2. 16 * ((16 * (a % 4) + (b \div 16)) % 16) + ((4 * (b % 16) + (c \div 64)) \div 4) = b
  OBVIOUS
<1>3. 64 * ((4 * (b % 16) + (c \div 64)) % 4) + (c % 64) = c
  OBVIOUS
<1> QED BY <1>1, <1>2, <1>3 DEF Back

LEMMA ByteBack ==
  ASSUME NEW t \in Seq(Byte), NEW d, NEW m, DigitsOf(d, t, m), NEW k \in 1 .. Len(t)
  PROVE  EightBits(d, 8 * (k - 1)) = t[k]
<1>1. /\ d \in Seq(Digit) /\ Len(d) = m /\ m \in Nat /\ Len(t) \in Nat
      /\ 8 * Len(t) <= 6 * m /\ 6 * m < 8 * Len(t) + 6
      /\ \A j \in 1 .. m : d[j] = SixBits(t, 6 * (j - 1))
  BY DEF DigitsOf
<1>2. PICK q \in Nat : k \in {3 * q + 1, 3 * q + 2, 3 * q + 3}
  <2> DEFINE q == (k - 1) \div 3
  <2>1. k \in Nat \ {0}
    BY <1>1
  <2>2. q \in Nat /\ k \in {3 * q + 1, 3 * q + 2, 3 * q + 3}
    BY <2>1
  <2> HIDE DEF q
  <2> QED BY <2>2
<1> DEFINE a == At(t, 3 * q + 1)
           b == At(t, 3 * q + 2)
           c == At(t, 3 * q + 3)
<1>3. Back(a, b, c)
  <2>1. 0 \in Byte /\ 3 * q + 1 \in Int /\ 3 * q + 2 \in Int /\ 3 * q + 3 \in Int
    BY DEF Byte
  <2>2. a \in Byte /\ b \in Byte /\ c \in Byte
    BY <2>1, AtType
  <2> HIDE DEF a, b, c
  <2> QED BY <2>2, BytesBack DEF Byte
<1>4. /\ SixBits(t, 24 * q)      = a \div 4
      /\ SixBits(t, 24 * q + 6)  = 16 * (a % 4) + (b \div 16)
      /\ SixBits(t, 24 * q + 12) = 4 * (b % 16) + (c \div 64)
      /\ SixBits(t, 24 * q + 18) = c % 64
  BY DigitsOfBytes
<1>5. /\ EightBits(d, 24 * q)      = 4 * At(d, 4 * q + 1) + (At(d, 4 * q + 2) \div 16)
      /\ EightBits(d, 24 * q + 8)  = 16 * (At(d, 4 * q + 2) % 16) + (At(d, 4 * q + 3) \div 4)
      /\ EightBits(d, 24 * q + 16) = 64 * (At(d, 4 * q + 3) % 4) + At(d, 4 * q + 4)
  BY <1>1, BytesOfDigits
<1>6. \A j \in 1 .. m : At(d, j) = SixBits(t, 6 * (j - 1))
  BY <1>1 DEF At
<1>7. /\ 6 * ((4 * q + 1) - 1) = 24 * q /\ 6 * ((4 * q + 2) - 1) = 24 * q + 6
      /\ 6 * ((4 * q + 3) - 1) = 24 * q + 12 /\ 6 * ((4 * q + 4) - 1) = 24 * q + 18
  OBVIOUS
<1>8. CASE k = 3 * q + 1
  <2>1. 4 * q + 1 \in 1 .. m /\ 4 * q + 2 \in 1 .. m /\ 8 * (k - 1) = 24 * q
    BY <1>1, <1>8
  <2>2. At(d, 4 * q + 1) = a \div 4 /\ At(d, 4 * q + 2) = 16 * (a % 4) + (b \div 16)
    <3> HIDE DEF a, b, c
    <3> QED BY <1>4, <1>6, <1>7, <2>1
  <2>3. a = t[k]
    BY <1>8 DEF At
  <2> HIDE DEF a, b, c
  <2> QED BY <1>3, <1>5, <2>1, <2>2, <2>3 DEF Back
<1>9. CASE k = 3 * q + 2
  <2>1. 4 * q + 2 \in 1 .. m /\ 4 * q + 3 \in 1 .. m /\ 8 * (k - 1) = 24 * q + 8
    BY <1>1, <1>9
  <2>2. /\ At(d, 4 * q + 2) = 16 * (a % 4) + (b \div 16)
        /\ At(d, 4 * q + 3) = 4 * (b % 16) + (c \div 64)
    <3> HIDE DEF a, b, c
    <3> QED BY <1>4, <1>6, <1>7, <2>1
  <2>3. b = t[k]
    BY <1>9 DEF At
  <2> HIDE DEF a, b, c
  <2> QED BY <1>3, <1>5, <2>1, <2>2, <2>3 DEF Back
<1>10. CASE k = 3 * q + 3
  <2>1. 4 * q + 3 \in 1 .. m /\ 4 * q + 4 \in 1 .. m /\ 8 * (k - 1) = 24 * q + 16
    BY <1>1, <1>10
  <2>2. At(d, 4 * q + 3) = 4 * (b % 16) + (c \div 64) /\ At(d, 4 * q + 4) = c % 64
    <3> HIDE DEF a, b, c
    <3> QED BY <1>4, <1>6, <1>7, <2>1
  <2>3. c = t[k]
    BY <1>10 DEF At
  <2> HIDE DEF a, b, c
  <2> QED BY <1>3, <1>5, <2>1, <2>2, <2>3 DEF Back
<1> QED BY <1>2, <1>8, <1>9, <1>10

\* Decoding the code of a text gives the text.
LEMMA TextBack == ASSUME NEW t \in Seq(Byte) PROVE TextOf(CodeOf(t)) = t
<1> DEFINE d == Digits(CodeOf(t))
           m == (8 * Len(t) + 5) \div 6
           n == Len(t)
           v(k) == EightBits(d, 8 * (k - 1))
<1>1. DigitsOf(d, t, m)
  BY DigitsOfText
<1>2. (6 * Len(d)) \div 8 = n /\ n \in Nat
  <2> HIDE DEF d, m
  <2>1. Len(d) = m /\ m \in Nat /\ 8 * n <= 6 * m /\ 6 * m < 8 * n + 6 /\ n \in Nat
    BY <1>1 DEF DigitsOf
  <2> HIDE DEF n
  <2>2. (6 * m) \div 8 = n
    BY <2>1
  <2> QED BY <2>1, <2>2
<1>3. \A k \in 1 .. n : v(k) = t[k]
  <2> HIDE DEF d, m
  <2> QED BY <1>1, ByteBack
<1>4. TextOf(CodeOf(t)) = [k \in 1 .. (6 * Len(d)) \div 8 |-> v(k)]
  BY DEF TextOf
<1>5. t = [k \in 1 .. n |-> t[k]]
  OBVIOUS
<1> HIDE DEF v, n, d, m
<1> QED BY <1>2, <1>3, <1>4, <1>5

\* There is no character in the code of a text that the decoder refuses.
LEMMA CodeIsLegal ==
  ASSUME NEW t \in Seq(Byte), NEW k \in DOMAIN CodeOf(t)
  PROVE  CodeOf(t)[k] # Illegal
<1>1. CodeOf(t)[k] \in Digit \cup {Pad}
  BY CodeOfText, ElementOfSeq
<1>2. Illegal \notin Digit \cup {Pad}
  BY DEF Digit, Pad, Illegal
<1> QED BY <1>1, <1>2

-----------------------------------------------------------------------------
(***************************************************************************)
(* What the invariant says of a code and of a text.                        *)
(***************************************************************************)
LEMMA TextDecoded == IInv => DecodesOrThrows
<1> SUFFICES ASSUME IInv PROVE DecodesOrThrows
  OBVIOUS
<1>1. TypeOK /\ Decoding /\ Decoded
  BY DEF IInv
<1>2. i \in Nat /\ ascdata \in Seq(Digit \cup {Pad, Space, Illegal}) /\ Len(ascdata) \in Nat
      /\ retval \in Seq(Byte) /\ Len(retval) \in Nat /\ DOMAIN ascdata = 1 .. Len(ascdata)
  BY <1>1 DEF TypeOK
<1>3. pc = "thrown" => \E k \in DOMAIN ascdata : ascdata[k] = Illegal
  <2> SUFFICES ASSUME pc = "thrown" PROVE \E k \in DOMAIN ascdata : ascdata[k] = Illegal
    OBVIOUS
  <2>1. i + 1 \in DOMAIN ascdata /\ ascdata[i + 1] = Illegal
    BY <1>1, <1>2 DEF Decoded
  <2> QED BY <2>1
<1>4. ASSUME pc = "decoded"
      PROVE  (\A k \in DOMAIN ascdata : ascdata[k] # Illegal) /\ retval = TextOf(ascdata)
  <2> DEFINE d == Digits(ascdata)
             m == Rank(ascdata, Len(ascdata))
             n == Len(retval)
             v(k) == EightBits(d, 8 * (k - 1))
  <2>1. /\ \A k \in 1 .. Len(ascdata) : ascdata[k] # Illegal
        /\ bits_collected \in {0, 2, 4, 6}
        /\ Kept(m, n, bits_collected)
        /\ \A k \in 1 .. n : retval[k] = v(k)
    BY <1>1, <1>4 DEF Decoding, Decoded
  <2>2. Len(d) = m /\ m \in Nat
    BY <1>2, DigitsOfCode, PlacesAreFinite
  <2>3. (6 * Len(d)) \div 8 = n
    <3> HIDE DEF d, m, n
    <3>1. n \in Nat
      BY <1>2 DEF n
    <3>2. (6 * m) \div 8 = n
      BY <2>1, <2>2, <3>1 DEF Kept
    <3> QED BY <2>2, <3>2
  <2>4. TextOf(ascdata) = [k \in 1 .. (6 * Len(d)) \div 8 |-> v(k)]
    BY DEF TextOf
  <2>5. retval = [k \in 1 .. n |-> retval[k]]
    BY <1>2
  <2>6. retval = [k \in 1 .. n |-> v(k)]
    <3> HIDE DEF v, n
    <3> QED BY <2>1, <2>5
  <2> HIDE DEF v, n, d
  <2>7. retval = TextOf(ascdata)
    BY <2>3, <2>4, <2>6
  <2> QED BY <1>2, <2>1, <2>7
<1> QED BY <1>3, <1>4 DEF DecodesOrThrows

\* The digits of an ASCII text: only every fourth one can be the slash.
OnlyFourth(a, b, c) ==
  /\ a \div 4 # 63
  /\ 16 * (a % 4) + (b \div 16) # 63
  /\ 4 * (b % 16) + (c \div 64) # 63
  /\ c % 64 = 63 <=> c \in {63, 127}

LEMMA SlashDigit ==
  ASSUME NEW a \in 0 .. 127, NEW b \in 0 .. 127, NEW c \in 0 .. 127
  PROVE  OnlyFourth(a, b, c)
<1>1. a \div 4 # 63
  OBVIOUS
<1>2. 16 * (a % 4) + (b \div 16) # 63
  OBVIOUS
<1>3. 4 * (b % 16) + (c \div 64) # 63
  OBVIOUS
<1>4. c % 64 = 63 <=> c \in {63, 127}
  OBVIOUS
<1> QED BY <1>1, <1>2, <1>3, <1>4 DEF OnlyFourth

\* A number is in one of the four places of a group.
LEMMA Group ==
  ASSUME NEW k \in Nat \ {0}
  PROVE  \E q \in Nat : k \in {4 * q + 1, 4 * q + 2, 4 * q + 3, 4 * q + 4}
<1> DEFINE q == (k - 1) \div 4
<1>1. q \in Nat /\ k \in {4 * q + 1, 4 * q + 2, 4 * q + 3, 4 * q + 4}
  OBVIOUS
<1> HIDE DEF q
<1> QED BY <1>1

LEMMA SlashInCode ==
  ASSUME NEW t \in Seq(Byte), \A k \in DOMAIN t : t[k] < 128
  PROVE  (\E k \in DOMAIN CodeOf(t) : CodeOf(t)[k] = Slash) <=>
           \E k \in DOMAIN t : k % 3 = 0 /\ t[k] \in {63, 127}
<1> DEFINE n == PaddedSize(Len(t))
<1>1. /\ n \in Nat /\ DOMAIN CodeOf(t) = 1 .. n /\ Len(t) \in Nat /\ DOMAIN t = 1 .. Len(t)
      /\ \A k \in 1 .. n :
           CodeOf(t)[k] = IF 6 * (k - 1) < 8 * Len(t) THEN SixBits(t, 6 * (k - 1)) ELSE Pad
  BY CodeOfText
<1>2. \A k \in Int : At(t, k) \in 0 .. 127
  <2> SUFFICES ASSUME NEW k \in Int PROVE At(t, k) \in 0 .. 127
    OBVIOUS
  <2>1. CASE k \in 1 .. Len(t)
    <3>1. t[k] \in Byte /\ t[k] < 128
      BY <1>1, <2>1, ElementOfSeq
    <3>2. At(t, k) = t[k]
      BY <2>1 DEF At
    <3>3. \A x \in Byte : x < 128 => x \in 0 .. 127
      BY DEF Byte
    <3> QED BY <3>1, <3>2, <3>3
  <2>2. CASE k \notin 1 .. Len(t)
    BY <2>2 DEF At
  <2> QED BY <2>1, <2>2
<1>3. ASSUME NEW k \in 1 .. n, CodeOf(t)[k] = Slash
      PROVE  \E j \in DOMAIN t : j % 3 = 0 /\ t[j] \in {63, 127}
  <2>1. SixBits(t, 6 * (k - 1)) = 63
    BY <1>1, <1>3 DEF Slash, Pad
  <2>2. PICK q \in Nat : k \in {4 * q + 1, 4 * q + 2, 4 * q + 3, 4 * q + 4}
    <3>1. k \in Nat \ {0}
      BY <1>1
    <3> QED BY <3>1, Group
  <2> DEFINE a == At(t, 3 * q + 1)
             b == At(t, 3 * q + 2)
             c == At(t, 3 * q + 3)
  <2>3. a \in 0 .. 127 /\ b \in 0 .. 127 /\ c \in 0 .. 127
    BY <1>2
  <2>4. /\ SixBits(t, 24 * q)      = a \div 4
        /\ SixBits(t, 24 * q + 6)  = 16 * (a % 4) + (b \div 16)
        /\ SixBits(t, 24 * q + 12) = 4 * (b % 16) + (c \div 64)
        /\ SixBits(t, 24 * q + 18) = c % 64
    BY DigitsOfBytes
  <2>5. 6 * (k - 1) \in {24 * q, 24 * q + 6, 24 * q + 12, 24 * q + 18}
    BY <2>2
  <2>6. c \in {63, 127}
    <3> HIDE DEF a, b, c
    <3>1. /\ SixBits(t, 24 * q) # 63 /\ SixBits(t, 24 * q + 6) # 63
          /\ SixBits(t, 24 * q + 12) # 63
          /\ SixBits(t, 24 * q + 18) = 63 => c \in {63, 127}
      <4>1. OnlyFourth(a, b, c)
        BY <2>3, SlashDigit
      <4> QED BY <2>4, <4>1 DEF OnlyFourth
    <3> DEFINE z == 6 * (k - 1)
    <3>2. SixBits(t, z) = 63 /\ z \in {24 * q, 24 * q + 6, 24 * q + 12, 24 * q + 18}
      BY <2>1, <2>5
    <3> HIDE DEF z
    <3> QED BY <3>1, <3>2, Zenon
  <2>7. 3 * q + 3 \in DOMAIN t /\ t[3 * q + 3] = c
    BY <1>1, <2>6 DEF At
  <2>8. (3 * q + 3) % 3 = 0
    OBVIOUS
  <2> QED BY <2>6, <2>7, <2>8
<1>4. ASSUME NEW j \in DOMAIN t, j % 3 = 0, t[j] \in {63, 127}
      PROVE  \E k \in 1 .. n : CodeOf(t)[k] = Slash
  <2>1. PICK q \in Nat : j = 3 * q + 3
    <3> DEFINE q == j \div 3 - 1
    <3>1. j \in 1 .. Len(t)
      BY <1>1
    <3>2. q \in Nat /\ j = 3 * q + 3
      BY <1>1, <1>4, <3>1
    <3> HIDE DEF q
    <3> QED BY <3>2
  <2>2. 3 * q + 3 <= Len(t)
    BY <1>1, <2>1
  <2>3. 4 * q + 4 \in 1 .. n /\ 6 * ((4 * q + 4) - 1) = 24 * q + 18 /\ 24 * q + 18 < 8 * Len(t)
    <3>1. q + 1 <= (Len(t) + 2) \div 3
      BY <1>1, <2>2
    <3>2. 4 * q + 4 <= n
      BY <1>1, <3>1 DEF PaddedSize
    <3> HIDE DEF n
    <3> QED BY <1>1, <2>2, <3>2
  <2> DEFINE c == At(t, 3 * q + 3)
  <2>4. c \in {63, 127}
    BY <1>1, <1>4, <2>1 DEF At
  <2>5. SixBits(t, 24 * q + 18) = c % 64
    BY DigitsOfBytes
  <2> HIDE DEF c, n
  <2>6. c % 64 = 63
    BY <2>4
  <2>7. CodeOf(t)[4 * q + 4] = 63
    BY <1>1, <2>3, <2>5, <2>6
  <2> QED BY <2>3, <2>7 DEF Slash
<1>5. DOMAIN CodeOf(t) = 1 .. n
  BY <1>1
<1> HIDE DEF n
<1> QED BY <1>3, <1>4, <1>5

\* What the loops keep, whatever is encoded or decoded (base64.cpp:17-73).
THEOREM Inductive == Spec => []IInv
<1>1. ASSUME IInv, [Next]_vars PROVE IInv'
  BY <1>1, TakeStep, EmitStep, FlushStep, DecodeCodeStep, ReadStep, ReturnTextStep,
     SameState DEF Next
<1> QED BY <1>1, InitIInv, PTL DEF Spec
\* The variables keep their ranges: six digits of bits never pile up in the
\* accumulator, and nothing is put behind the end of the code.
THEOREM TypeCorrect == Spec => []TypeOK
<1>1. IInv => TypeOK
  BY DEF IInv
<1> QED BY <1>1, Inductive, PTL

\* The encoder makes the code of every text, but that it may abort with the
\* empty one: bits that overflow at the upper end of the accumulator were put
\* out before (base64.cpp:30-42).
THEOREM CodeIsRight == Spec => []EncodesText
<1>1. IInv => EncodesText
  BY DEF IInv, Encoded, EncodesText
<1> QED BY <1>1, Inductive, PTL

\* The assertions behind the encoder's loop hold for every text that is not
\* empty: all of the code has been written but for at most two characters of
\* padding. The empty one fails wherever there are assertions, as size() - 2
\* wraps around (base64.cpp:39-44).
THEOREM AssertionsHold ==
  Spec => [](pc \in {"encoded", "aborted"} => (pc = "aborted" <=> Asserts /\ bindata = <<>>))
<1>1. IInv => (pc \in {"encoded", "aborted"} => (pc = "aborted" <=> Asserts /\ bindata = <<>>))
  BY DEF IInv, Encoded
<1> QED BY <1>1, Inductive, PTL

\* The decoder returns the bytes in the digits of every code, and throws for
\* what is none (base64.cpp:55-71).
THEOREM DecoderIsRight == Spec => []DecodesOrThrows
BY TextDecoded, Inductive, PTL

\* Decoding what was encoded gives back the text, for every text, and never
\* throws: the two loops of base64.cpp are inverse to each other.
THEOREM RoundTrip ==
  Spec => [](pc \in {"decoded", "thrown"} /\ bindata # <<>> => pc = "decoded" /\ retval = bindata)
<1>1. IInv => (pc \in {"decoded", "thrown"} /\ bindata # <<>> =>
                 pc = "decoded" /\ retval = bindata)
  <2> SUFFICES ASSUME IInv, pc \in {"decoded", "thrown"}, bindata # <<>>
               PROVE  pc = "decoded" /\ retval = bindata
    OBVIOUS
  <2>1. ascdata = CodeOf(bindata) /\ bindata \in Seq(Byte) /\ DecodesOrThrows
    BY TextDecoded DEF IInv, Chained, TypeOK
  <2>2. pc = "decoded"
    BY <2>1, CodeIsLegal DEF DecodesOrThrows
  <2> QED BY <2>1, <2>2, TextBack DEF DecodesOrThrows
<1> QED BY <1>1, Inductive, PTL

\* The name of a cached file has a slash only for a question mark or a DEL at
\* a third place of the url (Control.cpp:21-22).
THEOREM NameIsFlat == Spec => []SlashInName
<1>1. IInv => SlashInName
  <2> SUFFICES ASSUME IInv, pc = "encoded", \A k \in DOMAIN bindata : bindata[k] < 128
               PROVE  (\E k \in DOMAIN retval : retval[k] = Slash) <=>
                        \E k \in DOMAIN bindata : k % 3 = 0 /\ bindata[k] \in {63, 127}
    BY DEF SlashInName
  <2>1. retval = CodeOf(bindata) /\ bindata \in Seq(Byte)
    BY DEF IInv, Encoded, TypeOK
  <2> QED BY <2>1, SlashInCode
<1> QED BY <1>1, Inductive, PTL
===============================================================================

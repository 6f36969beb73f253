------------------------------- MODULE Util -------------------------------
(***************************************************************************)
(* Two conversions of common/util.cpp, as operators checked against plain  *)
(* definitions of what they compute.                                       *)
(*                                                                         *)
(* to_dec prints an intx::uint256 in decimal by double-dabble: it copies   *)
(* the four 64-bit words, drops leading zero words, then shifts the words  *)
(* left bit by bit while doubling a buffer of decimal digits.  The words   *)
(* here are WordBits wide, with the digit buffer sized by the same rule    *)
(* (256 / 3 + 1 digits for 64-bit words).  base64_encode turns each three *)
(* bytes into four sextets; a short tail is padded with '=' ('.' in the   *)
(* url alphabet).  A sextet stands for its character: the alphabet is a    *)
(* lookup table.                                                           *)
(***************************************************************************)
EXTENDS Naturals, Sequences

CONSTANTS
    WordBits,       \* bits per uint256 word (64)
    Numbers,        \* the numbers given to to_dec
    ByteStrings     \* the byte strings given to base64_encode

NumWords == 4                           \* intx::uint256::num_words
Base == 2 ^ WordBits
kMask == 2 ^ (WordBits - 1)             \* the top bit of a word
NumDigits == (NumWords * WordBits) \div 3 + 1   \* sizeof(s) - 1

VARIABLES
    input,      \* the call: to_dec(x), or base64_encode(data, url)
    output      \* its result: decimal digits, most significant first, or
                \* sextets and padding characters; << >> before the call

vars == <<input, output>>

-----------------------------------------------------------------------------
(* to_dec                                                                  *)

\* n[idx] = number[idx]: word idx, the least significant first.
Words(x) == [idx \in 0 .. NumWords - 1 |-> (x \div (Base ^ idx)) % Base]

\* Seeded fault for ToDecCorrect: the loop drops a zero word without
\* lowering count.
RECURSIVE DropZeroWordsKeepCount(_, _, _)
DropZeroWordsKeepCount(n, base, count) ==
    IF n[3] = 0 /\ base < 4
    THEN DropZeroWordsKeepCount([n EXCEPT ![3] = n[2], ![2] = n[1], ![1] = n[0], ![base] = 0],
                                base + 1, count)
    ELSE [n |-> n, count |-> count]

\* while (n[3] == 0 && base < 4): shift the words up by one and lower
\* count by one word.
RECURSIVE DropZeroWords(_, _, _)
DropZeroWords(n, base, count) ==
    IF n[3] = 0 /\ base < 4
    THEN DropZeroWords([n EXCEPT ![3] = n[2], ![2] = n[1], ![1] = n[0], ![base] = 0],
                       base + 1, count - WordBits)
    ELSE [n |-> n, count |-> count]

\* The inner loop: s[j] += s[j] - '0' + carry from the last digit down.
RECURSIVE DoubleDigits(_, _, _)
DoubleDigits(s, j, carry) ==
    IF j = 0 THEN s
    ELSE LET d == 2 * s[j] + carry
         IN  DoubleDigits([s EXCEPT ![j] = IF d > 9 THEN d - 10 ELSE d], j - 1,
                          IF d > 9 THEN 1 ELSE 0)

\* One pass of the outer loop: the top bit leaves n[] into the digits.
ShiftIn(n, s) ==
    LET carry == IF n[3] >= kMask THEN 1 ELSE 0
    IN  [n |-> [n EXCEPT ![3] = (2 * n[3] + (IF n[2] >= kMask THEN 1 ELSE 0)) % Base,
                         ![2] = (2 * n[2] + (IF n[1] >= kMask THEN 1 ELSE 0)) % Base,
                         ![1] = (2 * n[1] + (IF n[0] >= kMask THEN 1 ELSE 0)) % Base,
                         ![0] = (2 * n[0]) % Base],
         s |-> DoubleDigits(s, NumDigits, carry)]

RECURSIVE ShiftAll(_, _, _)
ShiftAll(n, s, i) ==
    IF i = 0 THEN s
    ELSE LET r == ShiftIn(n, s) IN ShiftAll(r.n, r.s, i - 1)

\* Skip leading '0's, keeping the last digit.
RECURSIVE SkipZeros(_)
SkipZeros(s) == IF Len(s) > 1 /\ Head(s) = 0 THEN SkipZeros(Tail(s)) ELSE s

ToDecOf(x) ==
    LET w == DropZeroWords(Words(x), 0, NumWords * WordBits)
    IN  SkipZeros(ShiftAll(w.n, [j \in 1 .. NumDigits |-> 0], w.count))

\* The decimal digits of x.
RECURSIVE DecimalDigits(_)
DecimalDigits(x) == IF x < 10 THEN <<x>> ELSE DecimalDigits(x \div 10) \o <<x % 10>>

-----------------------------------------------------------------------------
(* base64_encode                                                           *)

\* Seeded fault for Base64Correct: a one-byte tail shifts its low bits
\* by two, not four.
OneByteTailShort(b0, pad) == << b0 \div 4, (b0 % 4) * 4, pad, pad >>

\* The else branch for a last byte alone: its two low bits, then padding.
OneByteTail(b0, pad) == << b0 \div 4, (b0 % 4) * 16, pad, pad >>

\* One group of base64_encode's loop, from the byte at pos (0-based).
Group(b, pos, pad) ==
    LET len == Len(b)
        b0 == b[pos + 1]
    IN  IF pos + 1 < len
        THEN LET b1 == b[pos + 2]
             IN  IF pos + 2 < len
                 THEN LET b2 == b[pos + 3]
                      IN  << b0 \div 4, (b0 % 4) * 16 + b1 \div 16,
                             (b1 % 16) * 4 + b2 \div 64, b2 % 64 >>
                 ELSE << b0 \div 4, (b0 % 4) * 16 + b1 \div 16, (b1 % 16) * 4, pad >>
        ELSE OneByteTail(b0, pad)

RECURSIVE Base64From(_, _, _)
Base64From(b, pos, pad) ==
    IF pos >= Len(b) THEN << >> ELSE Group(b, pos, pad) \o Base64From(b, pos + 3, pad)

TrailingChar(url) == IF url THEN "." ELSE "="

\* The bits of a byte string, most significant first, and the value of a
\* run of bits.
Bits(b) == LET RECURSIVE BitsFrom(_)
               BitsFrom(i) == IF i > Len(b) THEN << >>
                              ELSE [k \in 1..8 |-> (b[i] \div 2 ^ (8 - k)) % 2] \o BitsFrom(i + 1)
           IN  BitsFrom(1)
RECURSIVE BitsValue(_)
BitsValue(bs) == IF bs = << >> THEN 0 ELSE BitsValue(SubSeq(bs, 1, Len(bs) - 1)) * 2 + bs[Len(bs)]

\* RFC 4648 base 64: the bits in groups of six, the last one filled with
\* zero bits, and the text padded to a multiple of four characters.
Base64Reference(b, pad) ==
    LET bs == Bits(b)
        n  == (Len(bs) + 5) \div 6
        padded == bs \o [k \in 1 .. 6 * n - Len(bs) |-> 0]
    IN  [g \in 1 .. n |-> BitsValue(SubSeq(padded, 6 * g - 5, 6 * g))]
        \o [k \in 1 .. (3 - (Len(b) % 3)) % 3 |-> pad]

-----------------------------------------------------------------------------

Init ==
    /\ input \in [call : {"to_dec"}, x : Numbers]
                \cup [call : {"base64_encode"}, data : ByteStrings, url : BOOLEAN]
    /\ output = << >>

\* to_dec(number).
ToDec ==
    /\ input.call = "to_dec" /\ output = << >>
    /\ output' = ToDecOf(input.x)
    /\ UNCHANGED input

\* base64_encode(bytes_to_encode, len, url).
Base64Encode ==
    /\ input.call = "base64_encode" /\ output = << >>
    /\ output' = Base64From(input.data, 0, TrailingChar(input.url))
    /\ UNCHANGED input

Next == ToDec \/ Base64Encode

Spec == Init /\ [][Next]_vars

-----------------------------------------------------------------------------
(* Properties.                                                             *)

\* to_dec prints every number, zero and the largest included, as its
\* decimal digits with no leading zero.
ToDecCorrect ==
    input.call = "to_dec" /\ output # << >> => output = DecimalDigits(input.x)

\* base64_encode of every byte string is its RFC 4648 encoding, with the
\* alphabet's padding character.
Base64Correct ==
    input.call = "base64_encode" /\ output # << >> =>
        output = Base64Reference(input.data, TrailingChar(input.url))
=============================================================================

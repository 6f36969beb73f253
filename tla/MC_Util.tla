------------------------------ MODULE MC_Util ------------------------------
(* 12-bit numbers in words of three bits, so every count of leading zero *)
(* words and every top bit happens; byte strings of one to four bytes    *)
(* whose bytes together set and clear every bit, so every tail length    *)
(* and every bit of a sextet is seen.                                     *)
EXTENDS Util

MCNumbers == 0 .. 2 ^ (4 * WordBits) - 1
MCByteStrings == UNION { [1 .. k -> {0, 90, 165, 255}] : k \in 1 .. 4 }
=============================================================================

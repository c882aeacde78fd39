----------------------------- MODULE SeqNumbers -----------------------------
(***************************************************************************)
(* Sequence numbers that wrap around and how the code compares them        *)
(* (SeqLowerThan and SeqHigherThan of RTC/SeqManager.cpp).  The code uses  *)
(* 16 bits for RTP, and 8 and 15 bits for the picture ids of VP8.          *)
(***************************************************************************)
EXTENDS Integers

CONSTANT SeqModulus     \* 2^16 for RTP

ASSUME SeqModulusAssumption == SeqModulus \in Nat /\ SeqModulus > 3

Seqs == 0 .. SeqModulus - 1

MaxValue == SeqModulus - 1

\* Arithmetic on an unsigned integer of the code.
Wrap(n) == n % SeqModulus

SeqLowerThan(lhs, rhs) ==
    \/ rhs > lhs /\ rhs - lhs <= MaxValue \div 2
    \/ lhs > rhs /\ lhs - rhs > MaxValue \div 2

SeqHigherThan(lhs, rhs) ==
    \/ lhs > rhs /\ lhs - rhs <= MaxValue \div 2
    \/ rhs > lhs /\ rhs - lhs > MaxValue \div 2
=============================================================================

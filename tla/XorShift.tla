------------------------------- MODULE XorShift -------------------------------
(***************************************************************************)
(* The market maker's generator, XorShift64.cs: a word of Width bits that  *)
(* is shifted and xor-ed with itself three times.  A word is a function    *)
(* from bit numbers to BOOLEAN, 0 the lowest, so that the 64 bits of the   *)
(* code fit.                                                               *)
(***************************************************************************)
EXTENDS Integers

CONSTANTS
  Width,                 \* 64 in the code
  Shift1, Shift2, Shift3,  \* 13, 7 and 17 in the code
  DefaultSeed            \* what a seed of zero is replaced by

Bits  == 0 .. Width - 1
Words == [Bits -> BOOLEAN]
Zero  == [i \in Bits |-> FALSE]

ASSUME XorShiftAssumption ==
  /\ Width \in Nat \ {0}
  /\ {Shift1, Shift2, Shift3} \subseteq Nat \ {0}
  /\ DefaultSeed \in Words \ {Zero}

Left(x, k)  == [i \in Bits |-> i - k \in Bits /\ x[i - k]]
Right(x, k) == [i \in Bits |-> i + k \in Bits /\ x[i + k]]
Xor(x, y)   == [i \in Bits |-> x[i] # y[i]]

\* Mutant: the last step shifts and does not xor.
NextUint64Losing(x) ==
  LET a == Xor(x, Left(x, Shift1))
      b == Xor(a, Right(a, Shift2))
  IN  Left(b, Shift3)

NextUint64(x) ==
  LET a == Xor(x, Left(x, Shift1))
      b == Xor(a, Right(a, Shift2))
  IN  Xor(b, Left(b, Shift3))

Seed(x) == IF x = Zero THEN DefaultSeed ELSE x

\* The number a word stands for, modulo r: Horner's rule from the highest bit.
Residue(x, r) ==
  LET rest[i \in 0 .. Width] ==
        IF i = Width THEN 0 ELSE (2 * rest[i + 1] + (IF x[i] THEN 1 ELSE 0)) % r
  IN  rest[0]

\* Mutant: the upper bound is included.
InRangeInclusive(x, lo, hi) == lo + Residue(x, hi - lo + 1)

\* What Next(minInclusive, maxExclusive) makes of the word it has drawn.
InRange(x, lo, hi) == lo + Residue(x, hi - lo)
=============================================================================

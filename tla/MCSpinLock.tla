----------------------------- MODULE MCSpinLock -----------------------------
(* SpinLock for TLC. *)
EXTENDS SpinLock, TLC

CONSTANTS c1, c2

MCCPU == {c1, c2}
Symmetry == Permutations(MCCPU)
Mixed == {0, 2}
=============================================================================

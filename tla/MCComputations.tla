---------------------------- MODULE MCComputations ----------------------------
(***************************************************************************)
(* Computations on small inputs.  A lot is a set of slots that nothing     *)
(* tells apart: the reports count them.                                    *)
(***************************************************************************)
EXTENDS Computations, TLC

CONSTANTS s1, s2

MCLot == {s1, s2}
AnySlot == Permutations(MCLot)

=============================================================================

------------------------------- MODULE MCKp14 -------------------------------
(***************************************************************************)
(* The analyses of a few orders.                                           *)
(***************************************************************************)
EXTENDS Kp14, TLC

Symmetry == Permutations(Pids)

=============================================================================

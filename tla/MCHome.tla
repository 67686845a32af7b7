------------------------------- MODULE MCHome -------------------------------
(***************************************************************************)
(* Four inode numbers: one is also a device's, one is also that of files   *)
(* outside the data set, and the other two may be swapped.                 *)
(***************************************************************************)
EXTENDS Home, TLC

Plain == Permutations(Inos \ (DevInos \cup ReadInos \cup WriteInos))

=============================================================================

---------------------------- MODULE MCKp14Daemon ----------------------------
(***************************************************************************)
(* A carve of two regions, of which one has neither path nor memory and    *)
(* the other a path and two bytes of memory.                               *)
(***************************************************************************)
EXTENDS Kp14Daemon

MCCarved == [pid |-> 1, regs |-> <<2>>,
             regions |->
                <<[start |-> 2, perms |-> 1, path |-> <<>>,  data |-> <<>>],
                  [start |-> 1, perms |-> 3, path |-> <<2>>, data |-> <<0, 1>>]>>]

=============================================================================

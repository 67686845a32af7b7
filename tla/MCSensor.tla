------------------------------ MODULE MCSensor ------------------------------
(***************************************************************************)
(* The sensor's tripwires on a small instance: process p1 has two threads, *)
(* the agent has one (its calls count until it has registered), and a wire *)
(* trips at the second call.                                               *)
(***************************************************************************)
EXTENDS Sensor, TLC

CONSTANTS t1, t2, t3, p1, agent

MCTgid == t1 :> p1 @@ t2 :> p1 @@ t3 :> agent

MCLimit == [w \in Wires |-> 1]

\* The two threads of p1 are interchangeable.
SiblingSymmetry == Permutations({t1, t2})

=============================================================================

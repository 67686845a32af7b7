----------------------------- MODULE FreezeQueue -----------------------------
(***************************************************************************)
(* What the detection-to-response pipeline promises the hooks, without     *)
(* ring, callback, channel or responder: the records are numbered in the   *)
(* order in which the hooks report, a trap's freeze order waits until it is*)
(* given to the responder or is lost, and orders are given out in the order*)
(* of the records.  An order that was given or lost never waits again.     *)
(***************************************************************************)
EXTENDS Naturals

VARIABLES
    issued,    \* how many records the hooks have reported
    waiting,   \* traps whose order is still to come
    answered,  \* records for which an order was carried out
    lost       \* traps whose order will not come

vars == <<issued, waiting, answered, lost>>

Init == issued = 0 /\ waiting = {} /\ answered = {} /\ lost = {}

\* A hook reports: a trap, which waits or is lost at once, or something else.
Report ==
    /\ issued' = issued + 1
    /\ \/ waiting' = waiting \cup {issued'} /\ UNCHANGED lost
       \/ lost' = lost \cup {issued'} /\ UNCHANGED waiting
       \/ UNCHANGED <<waiting, lost>>
    /\ UNCHANGED answered

\* An order of record i is carried out; none of a later record was.  A record
\* may have several orders, and one whose trap was not recognised may still
\* get an order from a heuristic.
Answer(i) ==
    /\ i \in 1..issued
    /\ \A j \in answered : j <= i
    /\ answered' = answered \cup {i}
    /\ waiting' = waiting \ {i} /\ lost' = lost \ {i}
    /\ UNCHANGED issued

\* Orders are lost, several at a time when the agent goes down.
Lose(S) ==
    /\ S \subseteq waiting
    /\ waiting' = waiting \ S /\ lost' = lost \cup S
    /\ UNCHANGED <<issued, answered>>

Next == \/ Report
        \/ \E i \in 1..issued : Answer(i)
        \/ \E S \in SUBSET waiting : Lose(S)

Spec == Init /\ [][Next]_vars

=============================================================================

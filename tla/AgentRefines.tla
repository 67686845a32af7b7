---------------------------- MODULE AgentRefines ----------------------------
(***************************************************************************)
(* The pipeline of Agent implements the queue of FreezeQueue.              *)
(***************************************************************************)
EXTENDS Agent

TrapIds == {t.id : t \in trips}
LostIds == {l[1] : l \in lost}

FQ == INSTANCE FreezeQueue WITH
        issued   <- nextId - 1,
        waiting  <- TrapIds \ (answered \cup LostIds),
        answered <- answered,
        lost     <- LostIds \ answered

\* Ring, callback, channel, responder and restarts together behave like one
\* queue of freeze orders: they are carried out in the order of the records,
\* a trap that waits either gets its order or is lost, and what was lost or
\* carried out never comes back to wait.
ImplementsFreezeQueue == FQ!Spec

=============================================================================

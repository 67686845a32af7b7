-------------------------- MODULE AgentTrapProofs --------------------------
(***************************************************************************)
(* A trap's record number on its way from the ring to the channel and to   *)
(* the responder: no trap disappears, no order overtakes another, and the  *)
(* pipeline as a whole implements the queue of FreezeQueue, on every       *)
(* instance.                                                               *)
(***************************************************************************)
EXTENDS AgentRefines, AgentProofs

\* Whether InRing holds of a record number, in terms of positions.
At(id, i) == /\ i \in 1..Len(ring) /\ ring[i].id = id /\ ring[i].text \in Traps
             /\ i = 1 => why = "trap"

\* The two ways of saying it agree.
LEMMA InRingAt == \A id : InRing(id) <=> \E i : At(id, i)
BY DEF InRing, At, Unchecked

\* What has left the ring stays accounted for while orders are only added to
\* the channel and the history only grows.
LEMMA Settled ==
    ASSUME TypeOK, NEW id, InChan(id) \/ id \in answered \/ LostFor(id),
           chan' = chan \/ (ring # <<>> /\ Dispatch(Rec)),
           answered \subseteq answered', lost \subseteq lost'
    PROVE  InChan(id)' \/ id \in answered' \/ LostFor(id)'
<1>1. CASE InChan(id)
  <2>1. chan \in Seq(Orders)
    BY DEF TypeOK, AgentTyped
  <2>2. PICK i \in 1..Len(chan) : chan[i].id = id
    BY <1>1 DEF InChan
  <2>3. CASE chan' = chan
    BY <2>2, <2>3 DEF InChan
  <2>4. CASE ring # <<>> /\ chan' = Append(chan, Order(Rec))
    <3>1. i \in 1..Len(chan') /\ chan'[i] = chan[i]
      BY <2>1, <2>2, <2>4
    <3> QED BY <2>2, <3>1 DEF InChan
  <2> QED BY <2>3, <2>4 DEF Dispatch
<1>2. CASE id \in answered
  BY <1>2
<1>3. CASE LostFor(id)
  BY <1>3 DEF LostFor
<1> QED BY <1>1, <1>2, <1>3

\* A new record takes no other record's place.
LEMMA SubmitKeeps ==
    ASSUME TypeOK, NEW p \in Pids, NEW text \in Traps \cup AllPaths,
           NEW comm \in AllComms, Submit(p, text, comm), why' = why,
           NEW n, n = nextId
    PROVE  /\ \A id : InRing(id) => InRing(id)'
           /\ text \in Traps => InRing(n)' \/ LostFor(n)'
           /\ lost \subseteq lost'
<1>1. ASSUME NEW r, r.id = n, r.text = text, ring' = Append(ring, r),
             UNCHANGED lost
      PROVE  /\ \A id : InRing(id) => InRing(id)'
             /\ text \in Traps => InRing(n)' \/ LostFor(n)'
             /\ lost \subseteq lost'
  <2>1. ring \in Seq(Records)
    BY DEF TypeOK, KernelTyped
  <2>2. /\ Len(ring') = Len(ring) + 1 /\ ring'[Len(ring) + 1] = r
        /\ \A i \in 1..Len(ring) : ring'[i] = ring[i]
    BY <1>1, <2>1
  <2>3. ASSUME NEW id, NEW i, At(id, i) PROVE InRing(id)'
    <3>1. i \in 1..Len(ring') /\ ring'[i] = ring[i]
      BY <2>1, <2>2, <2>3 DEF At
    <3> QED BY <2>3, <3>1 DEF At, InRing, Unchecked
  <2>4. text \in Traps => InRing(n)'
    <3>1. Len(ring) + 1 = 1 => why' = "trap"
      BY <2>1 DEF TypeOK, AgentTyped
    <3>2. Len(ring) + 1 \in 1..Len(ring')
      BY <2>1, <2>2
    <3> QED BY <1>1, <2>2, <3>1, <3>2 DEF InRing, Unchecked
  <2> QED BY <1>1, <2>3, <2>4, InRingAt
<1>2. CASE /\ ring' = ring
           /\ lost' = IF text \in Traps
                      THEN lost \cup {<<nextId, "ring_full">>} ELSE lost
  BY <1>2 DEF InRing, Unchecked, LostFor, Reasons
<1>3. ASSUME NEW tail \in StaleTails,
             LET r == [id |-> nextId, pid |-> p, gen |-> gen[p],
                       text |-> text, comm |-> comm, tail |-> tail]
             IN  /\ ring' = Append(ring, r)
                 /\ evidence' = evidence \cup Incriminates(r),
             UNCHANGED lost
      PROVE  /\ \A id : InRing(id) => InRing(id)'
             /\ text \in Traps => InRing(n)' \/ LostFor(n)'
             /\ lost \subseteq lost'
  <2> DEFINE r == [id |-> nextId, pid |-> p, gen |-> gen[p],
                   text |-> text, comm |-> comm, tail |-> tail]
  <2>1. r.id = n /\ r.text = text /\ ring' = Append(ring, r)
    BY <1>3
  <2> HIDE DEF r
  <2> QED BY <1>1, <1>3, <2>1
<1> QED BY <1>2, <1>3 DEF Submit

\* When the callback returns, the other records move up and stay unchecked.
LEMMA ReturnKeeps ==
    ASSUME TypeOK, ring # <<>>, Return, NEW id, NEW i, At(id, i), i # 1
    PROVE  InRing(id)'
<1>1. ring \in Seq(Records) /\ ring' = Tail(ring) /\ why' = "trap"
  BY DEF TypeOK, KernelTyped, Return
<1>2. i \in 1..Len(ring) /\ i - 1 \in 1..Len(ring')
  BY <1>1 DEF At
<1>3. ring'[i - 1] = ring[i]
  BY <1>1, <1>2
<1> QED BY <1>1, <1>2, <1>3 DEF At, InRing, Unchecked

\* Every step keeps every trap accounted for.
LEMMA AccountedStep == TypeOK /\ TrapAccounted /\ [Next]_vars => TrapAccounted'
<1> SUFFICES ASSUME TypeOK, TrapAccounted, [Next]_vars PROVE TrapAccounted'
  OBVIOUS
<1>t. ring \in Seq(Records) /\ chan \in Seq(Orders)
  BY DEF TypeOK, KernelTyped, AgentTyped
<1>a. ASSUME NEW t \in trips
      PROVE  InRing(t.id) \/ InChan(t.id) \/ t.id \in answered \/ LostFor(t.id)
  BY DEF TrapAccounted
\* It is enough to follow the traps that are still in the ring.
<1>k. ASSUME trips' = trips, answered \subseteq answered', lost \subseteq lost',
             chan' = chan \/ (ring # <<>> /\ Dispatch(Rec)),
             \A id : InRing(id) => InRing(id)' \/ InChan(id)' \/ LostFor(id)'
      PROVE  TrapAccounted'
  <2>1. ASSUME NEW t \in trips
        PROVE  InRing(t.id)' \/ InChan(t.id)' \/ t.id \in answered'
                 \/ LostFor(t.id)'
    <3>1. CASE InRing(t.id)
      BY <1>k, <3>1
    <3>2. CASE InChan(t.id) \/ t.id \in answered \/ LostFor(t.id)
      BY <1>k, <3>2, Settled
    <3> QED BY <1>a, <3>1, <3>2
  <2> QED BY <1>k, <2>1 DEF TrapAccounted
<1>u. ASSUME UNCHANGED <<trips, answered, ring, why>>, lost \subseteq lost',
             chan' = chan \/ (ring # <<>> /\ Dispatch(Rec))
      PROVE  TrapAccounted'
  <2>1. \A id : InRing(id) => InRing(id)'
    BY <1>u DEF InRing, Unchecked
  <2> QED BY <1>k, <1>u, <2>1
<1>1. ASSUME NEW p \in Pids, NEW k \in Kinds, NEW c \in Comms, Trip(p, k, c)
      PROVE  TrapAccounted'
  <2>1. /\ trips' = trips \cup {[id |-> nextId, pid |-> p]}
        /\ UNCHANGED <<chan, answered, why>>
    BY <1>1 DEF Trip, loopVars
  <2>n. PICK n : n = nextId
    OBVIOUS
  <2>2. /\ \A id : InRing(id) => InRing(id)'
        /\ InRing(n)' \/ LostFor(n)'
        /\ lost \subseteq lost'
    BY <2>n, <1>1, <2>1, SubmitKeeps, Parameters DEF Trip
  <2>3. ASSUME NEW t \in trips'
        PROVE  InRing(t.id)' \/ InChan(t.id)' \/ t.id \in answered'
                 \/ LostFor(t.id)'
    <3>1. CASE t \in trips
      <4>1. CASE InRing(t.id)
        BY <2>2, <4>1
      <4>2. CASE InChan(t.id) \/ t.id \in answered \/ LostFor(t.id)
        BY <2>1, <2>2, <4>2, Settled
      <4> QED BY <1>a, <3>1, <4>1, <4>2
    <3>2. CASE t = [id |-> n, pid |-> p]
      <4>1. t.id = n
        BY <3>2
      <4> QED BY <2>2, <4>1
    <3> QED BY <2>1, <2>n, <3>1, <3>2
  <2> QED BY <2>3 DEF TrapAccounted
<1>2. ASSUME NEW p \in Pids, NEW f \in Paths, NEW c \in Comms, Exec(p, f, c)
      PROVE  TrapAccounted'
  <2>1. UNCHANGED <<trips, chan, answered, why>>
    BY <1>2 DEF Exec, loopVars
  <2>2. (\A id : InRing(id) => InRing(id)') /\ lost \subseteq lost'
    BY <1>2, <2>1, SubmitKeeps, Parameters DEF Exec
  <2> QED BY <1>k, <2>1, <2>2
<1>3. CASE Bypass
  <2>1. /\ ring # <<>> /\ Return /\ loop = "poll"
        /\ UNCHANGED <<trips, chan, answered>>
        /\ lost' = IF Rec.text \in Traps THEN lost \cup {<<Rec.id, "research">>}
                   ELSE lost
    BY <1>3 DEF Bypass
  <2>2. ASSUME NEW id, NEW i, At(id, i) PROVE InRing(id)' \/ LostFor(id)'
    <3>1. CASE i = 1
      <4>1. Rec.id = id /\ Rec.text \in Traps
        BY <2>1, <2>2, <3>1, RecTyped DEF At
      <4> QED BY <2>1, <4>1 DEF LostFor, Reasons
    <3>2. CASE i # 1
      BY <2>1, <2>2, <3>2, ReturnKeeps
    <3> QED BY <3>1, <3>2
  <2>3. \A id : InRing(id) => InRing(id)' \/ LostFor(id)'
    BY <2>2, InRingAt
  <2>4. lost \subseteq lost'
    BY <2>1
  <2> QED BY <1>k, <2>1, <2>3, <2>4
<1>4. CASE LogEvent
  <2>1. /\ why = "trap" /\ why' = "trap"
        /\ UNCHANGED <<trips, answered, ring, lost, chan>>
    BY <1>4 DEF LogEvent, Check, kernelVars, history, TypeOK, AgentTyped
  <2> QED BY <1>u, <2>1
\* Past the trap order, the record at the head is no longer in the ring's care.
<1>5. ASSUME ring # <<>>, UNCHANGED <<trips, answered>>, lost \subseteq lost',
             chan' = chan \/ Dispatch(Rec),
             Return \/ (ring' = ring /\ why' # "trap"),
             NEW n, n = Rec.id,
             why = "trap" /\ Rec.text \in Traps => InChan(n)' \/ LostFor(n)'
      PROVE  TrapAccounted'
  <2>1. ASSUME NEW id, NEW i, At(id, i)
        PROVE  InRing(id)' \/ InChan(id)' \/ LostFor(id)'
    <3>1. CASE i = 1
      BY <1>5, <2>1, <3>1, RecTyped DEF At
    <3>2. CASE i # 1 /\ Return
      BY <1>5, <2>1, <3>2, ReturnKeeps
    <3>3. CASE i # 1 /\ ring' = ring
      BY <2>1, <3>3 DEF At, InRing, Unchecked
    <3> QED BY <1>5, <3>1, <3>2, <3>3
  <2>2. \A id : InRing(id) => InRing(id)' \/ InChan(id)' \/ LostFor(id)'
    BY <2>1, InRingAt
  <2> QED BY <1>k, <1>5, <2>2
<1>6. CASE CheckTrap \/ YaraMatch \/ YaraClean \/ CheckMock \/ CheckRansom
           \/ Send \/ RollbackEnds
  <2>0. PICK n : n = Rec.id
    OBVIOUS
  <2>1. /\ ring # <<>> /\ UNCHANGED <<trips, answered>> /\ lost \subseteq lost'
        /\ chan' = chan \/ Dispatch(Rec)
    BY <1>6 DEF CheckTrap, YaraMatch, YaraClean, CheckMock, CheckRansom, Send,
       RollbackEnds, Rollback, history, TypeOK, AgentTyped
  \* The trap order still has to be sent.
  <2>2. CASE ring' = ring /\ why' = why /\ chan' = chan
    BY <1>u, <2>1, <2>2
  \* It was not for a trap, or is sent now.
  <2>3. CASE CheckTrap /\ why' # "trap"
    <3>1. /\ why = "trap" /\ ring' = ring /\ ~FilenameIs(Rec, Traps)
          /\ lost' = IF Rec.text \in Traps /\ Rec.tail # {}
                     THEN lost \cup {<<n, "unread">>} ELSE lost
      BY <2>0, <2>3 DEF CheckTrap, Check, Goto, kernelVars
    <3>2. Rec.text \in Traps => LostFor(n)'
      BY <3>1 DEF FilenameIs, LostFor, Reasons
    <3> QED BY <1>5, <2>0, <2>1, <2>3, <3>1, <3>2
  <2>4. CASE Send
    <3>1. ring' = ring /\ why' # "trap"
      BY <2>4 DEF Send, Check, Goto, kernelVars
    <3>2. CASE why = "trap" /\ Len(chan) < ChanCap
      <4>1. chan' = Append(chan, Order(Rec))
        BY <2>4, <3>2 DEF Send, Dispatch
      <4>2. /\ Len(chan) + 1 \in 1..Len(chan')
            /\ chan'[Len(chan) + 1] = Order(Rec)
        BY <1>t, <4>1
      <4>3. Order(Rec).id = n
        BY <2>0 DEF Order
      <4>4. InChan(n)'
        BY <4>2, <4>3 DEF InChan
      <4> QED BY <1>5, <2>0, <2>1, <3>1, <4>4
    <3>3. CASE why = "trap" /\ ~(Len(chan) < ChanCap)
      <4>1. Len(chan) = ChanCap
        BY <1>t, <3>3, Parameters DEF TypeOK, AgentTyped
      <4>2. LostFor(n)'
        BY <2>0, <2>4, <3>3, <4>1 DEF Send, LostFor, Reasons
      <4> QED BY <1>5, <2>0, <2>1, <3>1, <4>2
    <3>4. CASE why # "trap"
      BY <1>5, <2>0, <2>1, <3>1, <3>4
    <3> QED BY <3>2, <3>3, <3>4
  <2>5. CASE YaraMatch \/ YaraClean \/ CheckMock \/ CheckRansom \/ RollbackEnds
    <3>1. why # "trap"
      BY <2>5 DEF YaraMatch, YaraClean, CheckMock, CheckRansom, RollbackEnds,
         Rollback, TypeOK, AgentTyped
    <3>2. Return \/ (ring' = ring /\ why' # "trap")
      BY <2>5, <3>1 DEF YaraMatch, YaraClean, CheckMock, CheckRansom,
         RollbackEnds, Rollback, Check, Goto, kernelVars
    <3> QED BY <1>5, <2>0, <2>1, <3>1, <3>2
  <2>6. ASSUME CheckTrap PROVE \/ ring' = ring /\ why' = why /\ chan' = chan
                               \/ why' # "trap"
    BY <2>6 DEF CheckTrap, Check, Goto, kernelVars
  <2> QED BY <1>6, <2>2, <2>3, <2>4, <2>5, <2>6
<1>7. CASE Freeze
  <2>1. /\ chan # <<>> /\ chan' = Tail(chan) /\ UNCHANGED <<trips, ring, why, lost>>
        /\ answered' = answered \cup {Head(chan).id}
    BY <1>7 DEF Freeze, kernelVars, loopVars
  <2>2. ASSUME NEW t \in trips
        PROVE  InRing(t.id)' \/ InChan(t.id)' \/ t.id \in answered'
                 \/ LostFor(t.id)'
    <3>1. CASE InRing(t.id)
      BY <2>1, <3>1 DEF InRing, Unchecked
    <3>2. CASE InChan(t.id)
      <4>1. PICK i \in 1..Len(chan) : chan[i].id = t.id
        BY <3>2 DEF InChan
      <4>2. CASE i = 1
        BY <1>t, <2>1, <4>1, <4>2
      <4>3. CASE i # 1
        <5>1. i - 1 \in 1..Len(chan') /\ chan'[i - 1] = chan[i]
          BY <1>t, <2>1, <4>1, <4>3
        <5> QED BY <4>1, <5>1 DEF InChan
      <4> QED BY <4>2, <4>3
    <3>3. CASE t.id \in answered \/ LostFor(t.id)
      BY <2>1, <3>3 DEF LostFor
    <3> QED BY <1>a, <3>1, <3>2, <3>3
  <2> QED BY <2>1, <2>2 DEF TrapAccounted
<1>8. CASE \/ ReadMaps \/ ReadMem \/ Package \/ Route \/ MonitorPoll \/ Restart
           \/ Host \/ UNCHANGED vars
  <2>1. UNCHANGED <<trips, answered, lost, ring, why, chan>>
    BY <1>8 DEF ReadMaps, ReadMem, Package, Route, MonitorPoll, Restart, Host,
       ToggleFile, DiskFills, Exit, Spawn, vars, kernelVars, loopVars, history
  <2> QED BY <1>u, <2>1
\* The agent goes down: what its ring or its channel still held is lost.
<1>9. ASSUME NEW S, lost' = lost \cup {<<i, "restart">> : i \in S},
             UNCHANGED <<trips, answered>>,
             (ring' = ring /\ why' = why) \/ RingTraps \subseteq S,
             chan' = chan \/ ChanTraps \subseteq S
      PROVE  TrapAccounted'
  <2>1. \A id \in S : LostFor(id)'
    BY <1>9 DEF LostFor, Reasons
  <2>2. ASSUME NEW t \in trips
        PROVE  InRing(t.id)' \/ InChan(t.id)' \/ t.id \in answered'
                 \/ LostFor(t.id)'
    <3>1. CASE InRing(t.id)
      <4>1. t.id \in RingTraps
        BY <3>1 DEF InRing, RingTraps
      <4>2. CASE ring' = ring /\ why' = why
        BY <3>1, <4>2 DEF InRing, Unchecked
      <4> QED BY <1>9, <2>1, <4>1, <4>2
    <3>2. CASE InChan(t.id)
      <4>1. t.id \in ChanTraps
        BY <2>2, <3>2 DEF InChan, ChanTraps
      <4>2. CASE chan' = chan
        BY <3>2, <4>2 DEF InChan
      <4> QED BY <1>9, <2>1, <4>1, <4>2
    <3>3. CASE t.id \in answered \/ LostFor(t.id)
      BY <1>9, <3>3 DEF LostFor
    <3> QED BY <1>a, <3>1, <3>2, <3>3
  <2> QED BY <1>9, <2>2 DEF TrapAccounted
<1>10. CASE PollError
  BY <1>9, <1>10 DEF PollError
<1>11. CASE ShutdownDone
  BY <1>9, <1>11 DEF ShutdownDone, kernelVars, loopVars
<1>12. CASE Killed
  BY <1>9, <1>12 DEF Killed
<1>13. CASE Hooks
  BY <1>1, <1>2, <1>13 DEF Hooks
<1>14. CASE Callback
  BY <1>3, <1>4, <1>6, <1>14 DEF Callback, Yara
<1>15. CASE Respond
  BY <1>7, <1>8, <1>15 DEF Respond
<1>16. CASE Life
  BY <1>8, <1>10, <1>11, <1>12, <1>16 DEF Life
<1> QED BY <1>8, <1>13, <1>14, <1>15, <1>16 DEF Next

\* For any number of processes and records and any capacity of the ring and of
\* the channel: a trap that fired is in the ring, in the channel, received by
\* the responder, or lost for one of the five named reasons.
THEOREM TrapsAccounted == Spec => []TrapAccounted
<1>1. Init => TypeOK /\ TrapAccounted
  BY AgentTypeInit DEF Init, TrapAccounted
<1>2. TypeOK /\ TrapAccounted /\ [Next]_vars => TypeOK' /\ TrapAccounted'
  BY AgentTypeStep, AccountedStep
<1> QED BY <1>1, <1>2, PTL DEF Spec

-----------------------------------------------------------------------------
(***************************************************************************)
(* First-in first-out from the kernel to the kill.  Every number in use    *)
(* has been issued, what the responder has received is not after anything  *)
(* that is still queued, and the order in hand is one it received.         *)
(***************************************************************************)
RingOrdered == \A i, j \in 1..Len(ring) : i < j => ring[i].id < ring[j].id
ChanOrdered == \A i, j \in 1..Len(chan) : i < j => chan[i].id <= chan[j].id
ChanFirst ==
    \A i \in 1..Len(chan), j \in 1..Len(ring) : NotAfter(chan[i].id, j)
AnsweredFirst ==
    \A a \in answered : /\ \A i \in 1..Len(chan) : a <= chan[i].id
                        /\ \A j \in 1..Len(ring) : NotAfter(a, j)
InHand == resp.at # "idle" => resp.id \in answered
Numbered ==
    /\ \A i \in 1..Len(ring) : ring[i].id < nextId
    /\ \A i \in 1..Len(chan) : chan[i].id < nextId
    /\ \A a \in answered : a < nextId
Fifo == /\ RingOrdered /\ ChanOrdered /\ ChanFirst /\ AnsweredFirst
        /\ InHand /\ Numbered

\* The numbers that are compared are numbers.
LEMMA NumbersTyped ==
    ASSUME TypeOK
    PROVE  /\ ring \in Seq(Records) /\ chan \in Seq(Orders)
           /\ \A i \in 1..Len(ring) : ring[i].id \in Nat
           /\ \A i \in 1..Len(chan) : chan[i].id \in Nat
           /\ \A a \in answered : a \in Nat
           /\ nextId \in Nat
<1>1. ring \in Seq(Records) /\ chan \in Seq(Orders)
  BY DEF TypeOK, KernelTyped, AgentTyped
<1>2. \A i \in 1..Len(ring) : ring[i] \in Records
  BY <1>1
<1>3. \A i \in 1..Len(chan) : chan[i] \in Orders
  BY <1>1
<1> QED BY <1>1, <1>2, <1>3, Parameters DEF Records, Orders, Ids, TypeOK,
        HistoryTyped, KernelTyped

\* The order of the numbers in ring, channel and answers is that of the hooks.
LEMMA FifoOrders == TypeOK /\ Fifo => PipelineOrdered
BY DEF Fifo, RingOrdered, ChanOrdered, ChanFirst, AnsweredFirst, InHand,
       PipelineOrdered

\* A hook gives its record the next number.
LEMMA SubmitFifo ==
    ASSUME TypeOK, Fifo, NEW p \in Pids, NEW text \in Traps \cup AllPaths,
           NEW comm \in AllComms, Submit(p, text, comm),
           UNCHANGED <<why, chan, resp, answered>>
    PROVE  Fifo'
<1>0. /\ ring \in Seq(Records) /\ chan \in Seq(Orders)
      /\ \A i \in 1..Len(ring) : ring[i].id \in Nat
      /\ \A i \in 1..Len(chan) : chan[i].id \in Nat
      /\ \A a \in answered : a \in Nat
      /\ nextId \in Nat /\ nextId' = nextId + 1
  BY NumbersTyped DEF Submit
<1>1. ChanOrdered' /\ InHand'
  BY DEF Fifo, ChanOrdered, InHand
<1>2. CASE ring' = ring
  <2>1. RingOrdered' /\ ChanFirst' /\ AnsweredFirst'
    BY <1>2 DEF Fifo, RingOrdered, ChanFirst, AnsweredFirst, NotAfter
  <2>2. Numbered'
    BY <1>0, <1>2 DEF Fifo, Numbered
  <2> QED BY <1>1, <2>1, <2>2 DEF Fifo
<1>3. ASSUME NEW r, ring' = Append(ring, r), r.id = nextId PROVE Fifo'
  <2>1. /\ Len(ring') = Len(ring) + 1 /\ ring'[Len(ring) + 1] = r
        /\ \A i \in 1..Len(ring) : ring'[i] = ring[i]
        /\ Len(ring) \in Nat
    BY <1>0, <1>3
  <2>2. \A i \in 1..Len(ring') : \/ i \in 1..Len(ring) /\ ring'[i] = ring[i]
                                 \/ i = Len(ring) + 1 /\ ring'[i].id = nextId
    BY <1>3, <2>1
  <2>3. \A i \in 1..Len(ring) : ring[i].id < nextId
    BY DEF Fifo, Numbered
  <2>4. RingOrdered'
    <3> SUFFICES ASSUME NEW i \in 1..Len(ring'), NEW j \in 1..Len(ring'), i < j
                 PROVE  ring'[i].id < ring'[j].id
      BY DEF RingOrdered
    <3>1. i \in 1..Len(ring) /\ ring'[i] = ring[i]
      BY <2>1
    <3>2. CASE j \in 1..Len(ring)
      BY <2>1, <3>1, <3>2 DEF Fifo, RingOrdered
    <3>3. CASE j = Len(ring) + 1
      BY <2>2, <2>3, <3>1, <3>3
    <3> QED BY <2>1, <3>2, <3>3
  <2>5. ASSUME NEW id, id < nextId, \A j \in 1..Len(ring) : NotAfter(id, j)
        PROVE  \A j \in 1..Len(ring') : NotAfter(id, j)'
    <3> SUFFICES ASSUME NEW j \in 1..Len(ring') PROVE NotAfter(id, j)'
      OBVIOUS
    <3>1. CASE j \in 1..Len(ring)
      BY <2>1, <2>5, <3>1 DEF NotAfter
    <3>2. CASE j = Len(ring) + 1
      <4>1. j = 1 => why' = "trap"
        BY <2>1, <3>2 DEF TypeOK, AgentTyped
      <4>2. ring'[j].id = nextId
        BY <1>3, <2>1, <3>2
      <4> QED BY <2>5, <4>1, <4>2 DEF NotAfter
    <3> QED BY <2>1, <3>1, <3>2
  <2>6. ChanFirst'
    <3> SUFFICES ASSUME NEW i \in 1..Len(chan)
                 PROVE  \A j \in 1..Len(ring') : NotAfter(chan[i].id, j)'
      BY DEF ChanFirst, NotAfter
    <3>1. chan[i].id < nextId /\ \A j \in 1..Len(ring) : NotAfter(chan[i].id, j)
      BY DEF Fifo, Numbered, ChanFirst
    <3> QED BY <2>5, <3>1 DEF NotAfter
  <2>7. AnsweredFirst'
    <3> SUFFICES ASSUME NEW a \in answered
                 PROVE  /\ \A i \in 1..Len(chan) : a <= chan[i].id
                        /\ \A j \in 1..Len(ring') : NotAfter(a, j)'
      BY DEF AnsweredFirst, NotAfter
    <3>1. /\ \A i \in 1..Len(chan) : a <= chan[i].id
          /\ a < nextId /\ \A j \in 1..Len(ring) : NotAfter(a, j)
      BY DEF Fifo, Numbered, AnsweredFirst
    <3> QED BY <2>5, <3>1
  <2>8. Numbered'
    BY <1>0, <2>2, <2>3 DEF Fifo, Numbered
  <2> QED BY <1>1, <2>4, <2>6, <2>7, <2>8 DEF Fifo
<1>4. ASSUME NEW tail \in StaleTails,
             LET r == [id |-> nextId, pid |-> p, gen |-> gen[p],
                       text |-> text, comm |-> comm, tail |-> tail]
             IN  /\ ring' = Append(ring, r)
                 /\ evidence' = evidence \cup Incriminates(r)
      PROVE  Fifo'
  <2> DEFINE r == [id |-> nextId, pid |-> p, gen |-> gen[p],
                   text |-> text, comm |-> comm, tail |-> tail]
  <2>1. r.id = nextId /\ ring' = Append(ring, r)
    BY <1>4
  <2> HIDE DEF r
  <2> QED BY <1>3, <2>1
<1> QED BY <1>2, <1>4 DEF Submit

\* The callback returns: the records behind its own move up.
LEMMA ReturnFifo ==
    ASSUME TypeOK, Fifo, ring # <<>>, Return, UNCHANGED <<chan, resp, answered>>
    PROVE  Fifo'
<1>0. ring \in Seq(Records) /\ ring' = Tail(ring) /\ why' = "trap"
      /\ nextId' = nextId
  BY DEF TypeOK, KernelTyped, Return
<1>1. /\ Len(ring') = Len(ring) - 1 /\ Len(ring) \in Nat
      /\ \A i \in 1..Len(ring') : i + 1 \in 1..Len(ring) /\ ring'[i] = ring[i + 1]
  BY <1>0
<1>2. RingOrdered'
  <2> SUFFICES ASSUME NEW i \in 1..Len(ring'), NEW j \in 1..Len(ring'), i < j
               PROVE  ring'[i].id < ring'[j].id
    BY DEF RingOrdered
  <2>1. i + 1 < j + 1 /\ i + 1 \in 1..Len(ring) /\ j + 1 \in 1..Len(ring)
    BY <1>1
  <2>2. ring[i + 1].id < ring[j + 1].id
    BY <2>1 DEF Fifo, RingOrdered
  <2> QED BY <1>1, <2>2
<1>3. ASSUME NEW id, \A j \in 1..Len(ring) : NotAfter(id, j)
      PROVE  \A j \in 1..Len(ring') : NotAfter(id, j)'
  <2> SUFFICES ASSUME NEW j \in 1..Len(ring') PROVE NotAfter(id, j)'
    OBVIOUS
  <2>1. /\ j + 1 \in 1..Len(ring) /\ j + 1 # 1 /\ NotAfter(id, j + 1)
        /\ ring'[j] = ring[j + 1]
    BY <1>1, <1>3
  <2>2. id < ring'[j].id
    BY <2>1 DEF NotAfter
  <2> QED BY <1>0, <2>2 DEF NotAfter
<1>4. ChanFirst'
  <2> SUFFICES ASSUME NEW i \in 1..Len(chan)
               PROVE  \A j \in 1..Len(ring') : NotAfter(chan[i].id, j)'
    BY DEF ChanFirst, NotAfter
  <2> QED BY <1>3 DEF Fifo, ChanFirst, NotAfter
<1>5. AnsweredFirst'
  <2> SUFFICES ASSUME NEW a \in answered
               PROVE  /\ \A i \in 1..Len(chan) : a <= chan[i].id
                      /\ \A j \in 1..Len(ring') : NotAfter(a, j)'
    BY DEF AnsweredFirst, NotAfter
  <2> QED BY <1>3 DEF Fifo, AnsweredFirst
<1>6. ChanOrdered' /\ InHand' /\ Numbered'
  BY <1>0, <1>1 DEF Fifo, ChanOrdered, InHand, Numbered
<1> QED BY <1>2, <1>4, <1>5, <1>6 DEF Fifo

\* The callback stays in its record and may send an order for it.
LEMMA OrderFifo ==
    ASSUME TypeOK, Fifo, ring # <<>>, why # "trap" => why' # "trap",
           UNCHANGED <<ring, resp, answered, nextId>>,
           chan' = chan \/ (Dispatch(Rec) /\ why' # "trap")
    PROVE  Fifo'
<1>0. /\ ring \in Seq(Records) /\ chan \in Seq(Orders)
      /\ \A i \in 1..Len(ring) : ring[i].id \in Nat
      /\ \A i \in 1..Len(chan) : chan[i].id \in Nat
      /\ \A a \in answered : a \in Nat
      /\ Rec = ring[1] /\ 1 \in 1..Len(ring)
  BY NumbersTyped, RecTyped
<1>1. ASSUME NEW id \in Nat, NEW j \in 1..Len(ring), NotAfter(id, j)
      PROVE  NotAfter(id, j)' /\ id <= ring[j].id
  BY <1>0, <1>1 DEF NotAfter
<1>2. RingOrdered' /\ InHand'
  BY DEF Fifo, RingOrdered, InHand
<1>3. CASE chan' = chan
  <2>1. ChanOrdered' /\ Numbered'
    BY <1>3 DEF Fifo, ChanOrdered, Numbered
  <2>2. ChanFirst'
    <3> SUFFICES ASSUME NEW i \in 1..Len(chan), NEW j \in 1..Len(ring)
                 PROVE  NotAfter(chan[i].id, j)'
      BY <1>3 DEF ChanFirst, NotAfter
    <3> QED BY <1>0, <1>1, <1>3 DEF Fifo, ChanFirst, NotAfter
  <2>3. AnsweredFirst'
    <3> SUFFICES ASSUME NEW a \in answered
                 PROVE  /\ \A i \in 1..Len(chan) : a <= chan[i].id
                        /\ \A j \in 1..Len(ring) : NotAfter(a, j)'
      BY <1>3 DEF AnsweredFirst, NotAfter
    <3> QED BY <1>0, <1>1 DEF Fifo, AnsweredFirst
  <2> QED BY <1>2, <2>1, <2>2, <2>3 DEF Fifo
<1>4. CASE chan' = Append(chan, Order(Rec)) /\ why' # "trap"
  <2>0. PICK n : n = Rec.id
    OBVIOUS
  <2>1. /\ Len(chan') = Len(chan) + 1 /\ Len(chan) \in Nat
        /\ \A i \in 1..Len(chan) : chan'[i] = chan[i]
        /\ chan'[Len(chan) + 1].id = n
    BY <1>0, <1>4, <2>0 DEF Order
  <2>2. \A i \in 1..Len(chan') :
            \/ i \in 1..Len(chan) /\ chan'[i].id = chan[i].id
            \/ i = Len(chan) + 1 /\ chan'[i].id = n
    BY <2>1
  <2>3. n \in Nat /\ n < nextId /\ n = ring[1].id
    BY <1>0, <2>0 DEF Fifo, Numbered
  <2>4. \A i \in 1..Len(chan) : chan[i].id <= n
    BY <1>0, <1>1, <2>3 DEF Fifo, ChanFirst
  <2>5. \A j \in 1..Len(ring) : NotAfter(n, j)'
    <3> SUFFICES ASSUME NEW j \in 1..Len(ring) PROVE NotAfter(n, j)'
      OBVIOUS
    <3>1. CASE j = 1
      BY <1>0, <1>4, <2>3, <3>1 DEF NotAfter
    <3>2. CASE j # 1
      BY <1>0, <2>3, <3>2 DEF Fifo, RingOrdered, NotAfter
    <3> QED BY <3>1, <3>2
  <2>6. ChanOrdered'
    BY <1>0, <2>1, <2>2, <2>3, <2>4 DEF Fifo, ChanOrdered
  <2>7. ChanFirst'
    <3> SUFFICES ASSUME NEW i \in 1..Len(chan'), NEW j \in 1..Len(ring),
                        NEW m, m = chan'[i].id
                 PROVE  NotAfter(m, j)'
      BY DEF ChanFirst, NotAfter
    <3>1. CASE i \in 1..Len(chan) /\ m = chan[i].id
      BY <1>0, <1>1, <3>1 DEF Fifo, ChanFirst
    <3>2. CASE m = n
      BY <2>5, <3>2
    <3> QED BY <2>2, <3>1, <3>2
  <2>8. AnsweredFirst'
    <3> SUFFICES ASSUME NEW a \in answered
                 PROVE  /\ \A i \in 1..Len(chan') : a <= chan'[i].id
                        /\ \A j \in 1..Len(ring) : NotAfter(a, j)'
      BY DEF AnsweredFirst, NotAfter
    <3>1. \A j \in 1..Len(ring) : NotAfter(a, j)'
      BY <1>0, <1>1 DEF Fifo, AnsweredFirst
    <3>2. a <= n
      BY <1>0, <1>1, <2>3 DEF Fifo, AnsweredFirst
    <3>3. \A i \in 1..Len(chan) : a <= chan[i].id
      BY DEF Fifo, AnsweredFirst
    <3> QED BY <2>2, <3>1, <3>2, <3>3
  <2>9. Numbered'
    BY <2>2, <2>3 DEF Fifo, Numbered
  <2> QED BY <1>2, <2>6, <2>7, <2>8, <2>9 DEF Fifo
<1> QED BY <1>3, <1>4 DEF Dispatch

\* The responder receives the oldest order.
LEMMA FreezeFifo == ASSUME TypeOK, Fifo, Freeze PROVE Fifo'
<1> DEFINE n == Head(chan).id
<1>0. /\ ring \in Seq(Records) /\ chan \in Seq(Orders) /\ chan # <<>>
      /\ \A i \in 1..Len(ring) : ring[i].id \in Nat
      /\ \A i \in 1..Len(chan) : chan[i].id \in Nat
      /\ \A a \in answered : a \in Nat
  BY NumbersTyped DEF Freeze
<1>1. /\ chan' = Tail(chan) /\ answered' = answered \cup {n}
      /\ UNCHANGED <<ring, why, nextId>>
      /\ resp' = resp \/ resp'.id = n
  BY DEF Freeze, kernelVars, loopVars
<1>2. /\ Len(chan') = Len(chan) - 1 /\ Len(chan) \in Nat /\ 1 \in 1..Len(chan)
      /\ \A i \in 1..Len(chan') : i + 1 \in 1..Len(chan) /\ chan'[i] = chan[i + 1]
      /\ n = chan[1].id /\ n \in Nat
  BY <1>0, <1>1
<1> HIDE DEF n
<1>3. RingOrdered' /\ Numbered'
  BY <1>1, <1>2 DEF Fifo, RingOrdered, Numbered
<1>4. ChanOrdered'
  <2> SUFFICES ASSUME NEW i \in 1..Len(chan'), NEW j \in 1..Len(chan'), i < j
               PROVE  chan'[i].id <= chan'[j].id
    BY DEF ChanOrdered
  <2>1. i + 1 < j + 1 /\ i + 1 \in 1..Len(chan) /\ j + 1 \in 1..Len(chan)
    BY <1>2
  <2> QED BY <1>2, <2>1 DEF Fifo, ChanOrdered
<1>5. ChanFirst'
  BY <1>1, <1>2 DEF Fifo, ChanFirst, NotAfter
<1>6. AnsweredFirst'
  <2> SUFFICES ASSUME NEW a \in answered'
               PROVE  /\ \A i \in 1..Len(chan') : a <= chan'[i].id
                      /\ \A j \in 1..Len(ring) : NotAfter(a, j)
    BY <1>1 DEF AnsweredFirst, NotAfter
  <2>1. CASE a \in answered
    BY <1>2, <2>1 DEF Fifo, AnsweredFirst
  <2>2. CASE a = n
    <3>1. \A i \in 1..Len(chan') : n <= chan[i + 1].id
      BY <1>2 DEF Fifo, ChanOrdered
    <3>2. \A j \in 1..Len(ring) : NotAfter(n, j)
      BY <1>2 DEF Fifo, ChanFirst
    <3> QED BY <1>2, <2>2, <3>1, <3>2
  <2> QED BY <1>1, <2>1, <2>2
<1>7. InHand'
  BY <1>1 DEF Fifo, InHand
<1> QED BY <1>3, <1>4, <1>5, <1>6, <1>7 DEF Fifo

\* The ring or the channel goes with the agent; whatever else a step does to
\* the responder, it keeps the order in hand or drops it.
LEMMA RestFifo ==
    ASSUME Fifo, UNCHANGED <<answered, nextId>>,
           (ring' = ring /\ why' = why) \/ ring' = <<>>,
           chan' = chan \/ chan' = <<>>,
           resp'.at = "idle" \/ (resp.at # "idle" /\ resp'.id = resp.id)
    PROVE  Fifo'
<1>1. InHand'
  BY DEF Fifo, InHand
<1>2. RingOrdered' /\ ChanOrdered' /\ Numbered'
  BY DEF Fifo, RingOrdered, ChanOrdered, Numbered
<1>3. ChanFirst' /\ AnsweredFirst'
  BY DEF Fifo, ChanFirst, AnsweredFirst, NotAfter
<1> QED BY <1>1, <1>2, <1>3 DEF Fifo

\* Records enter the ring at its end, orders the channel at its end, and both
\* leave at the front.
LEMMA FifoStep == TypeOK /\ Fifo /\ [Next]_vars => Fifo'
<1> SUFFICES ASSUME TypeOK, Fifo, [Next]_vars PROVE Fifo'
  OBVIOUS
<1>1. CASE Hooks
  BY <1>1, SubmitFifo, Parameters DEF Hooks, Trip, Exec, loopVars
<1>2. CASE Callback
  <2>1. ring # <<>> /\ UNCHANGED <<resp, answered, nextId>>
    BY <1>2, CallbackHasRecord DEF Callback, Bypass, LogEvent, CheckTrap, Yara,
       YaraMatch, YaraClean, CheckMock, CheckRansom, Send, RollbackEnds, Rollback,
       kernelVars, history, Return
  <2>2. \/ Return /\ UNCHANGED chan
        \/ /\ ring' = ring /\ (why # "trap" => why' # "trap")
           /\ chan' = chan \/ (Dispatch(Rec) /\ why' # "trap")
    BY <1>2 DEF Callback, Bypass, LogEvent, CheckTrap, Yara, YaraMatch, YaraClean,
       CheckMock, CheckRansom, Send, RollbackEnds, Rollback, Check, Goto,
       kernelVars, TypeOK, AgentTyped
  <2>3. CASE Return /\ UNCHANGED chan
    BY <2>1, <2>3, ReturnFifo
  <2> QED BY <2>1, <2>2, <2>3, OrderFifo
<1>3. CASE ReadMaps \/ ReadMem \/ Package \/ Route
  <2>1. resp'.at = "idle" \/ (resp.at # "idle" /\ resp'.id = resp.id)
    BY <1>3 DEF ReadMaps, ReadMem, Package, Route, Idle
  <2>2. UNCHANGED <<answered, nextId, ring, why, chan>>
    BY <1>3 DEF ReadMaps, ReadMem, Package, Route, kernelVars, loopVars, history
  <2> QED BY <2>1, <2>2, RestFifo
<1>4. CASE Host \/ MonitorPoll \/ Restart \/ UNCHANGED vars
  <2>1. UNCHANGED <<answered, nextId, ring, why, chan, resp>>
    BY <1>4 DEF Host, ToggleFile, DiskFills, Exit, Spawn, MonitorPoll, Restart,
       vars, kernelVars, loopVars, history
  <2> QED BY <2>1, RestFifo
<1>5. CASE PollError \/ ShutdownDone \/ Killed
  <2>1. /\ UNCHANGED <<answered, nextId>> /\ (chan' = chan \/ chan' = <<>>)
        /\ (ring' = ring /\ why' = why) \/ ring' = <<>>
        /\ resp' = resp \/ resp'.at = "idle"
    BY <1>5 DEF PollError, ShutdownDone, Killed, DropRing, kernelVars, loopVars,
       Idle
  <2> QED BY <2>1, RestFifo
<1>6. CASE Respond
  BY <1>3, <1>6, FreezeFifo DEF Respond
<1>7. CASE Life
  BY <1>4, <1>5, <1>7 DEF Life
<1> QED BY <1>1, <1>2, <1>4, <1>6, <1>7 DEF Next

\* Nothing is under way at first.
LEMMA FifoInit == Init => Fifo
BY DEF Init, Idle, Fifo, RingOrdered, ChanOrdered, ChanFirst, AnsweredFirst,
   InHand, Numbered

\* For every capacity of ring and channel, orders are carried out in the order
\* in which the hooks wrote the records, and no order overtakes another.
THEOREM PipelineInOrder == Spec => []PipelineOrdered
<1>1. Init => TypeOK /\ Fifo
  BY AgentTypeInit, FifoInit
<1>2. TypeOK /\ Fifo /\ [Next]_vars => TypeOK' /\ Fifo'
  BY AgentTypeStep, FifoStep
<1> QED BY <1>1, <1>2, FifoOrders, PTL DEF Spec

-----------------------------------------------------------------------------
(***************************************************************************)
(* The pipeline implements FreezeQueue.  Three more facts are needed: a    *)
(* trap's number was issued, the number of a trap's record in the ring is  *)
(* that of a trap, and a trap order is sent only for a trap's record.      *)
(***************************************************************************)
TrapNumbered ==
    /\ \A i \in TrapIds \cup LostIds : i < nextId
    /\ \A i \in 1..Len(ring) : ring[i].text \in Traps => ring[i].id \in TrapIds
TrapSent == loop = "send" /\ why = "trap" => Rec.text \in Traps
QueueInv == TypeOK /\ Fifo /\ TrapNumbered /\ TrapSent

\* A trap order is about to be sent only when the record reads as a trap.
LEMMA TrapSentStep == TypeOK /\ TrapSent /\ [Next]_vars => TrapSent'
<1> SUFFICES ASSUME TypeOK, TrapSent, [Next]_vars, loop' = "send", why' = "trap",
                    NEW r, r = Rec'
             PROVE  r.text \in Traps
  BY DEF TrapSent
<1>1. CASE loop = "send"
  <2>1. why = "trap"
    BY <1>1 DEF Next, Hooks, Trip, Exec, Host, ToggleFile, DiskFills, Exit, Spawn,
       Callback, Bypass, LogEvent, CheckTrap, Yara, YaraMatch, YaraClean,
       CheckMock, CheckRansom, Send, RollbackEnds, Rollback, Return, Check, Goto,
       MonitorPoll, Respond, Freeze, ReadMaps, ReadMem, Package, Route, Life,
       PollError, ShutdownDone, Killed, Restart, DropRing, vars, loopVars
  <2>2. r = Rec
    BY <1>1, RecordKept
  <2> QED BY <1>1, <2>1, <2>2 DEF TrapSent
<1>2. CASE loop # "send"
  <2>1. CheckTrap /\ loop' = "send"
    BY <1>2 DEF Next, Hooks, Trip, Exec, Host, ToggleFile, DiskFills, Exit, Spawn,
       Callback, Bypass, LogEvent, CheckTrap, Yara, YaraMatch, YaraClean,
       CheckMock, CheckRansom, Send, RollbackEnds, Rollback, Return, Check, Goto,
       MonitorPoll, Respond, Freeze, ReadMaps, ReadMem, Package, Route, Life,
       PollError, ShutdownDone, Killed, Restart, DropRing, vars, loopVars
  <2>2. ring' = ring /\ FilenameIs(Rec, Traps)
    BY <2>1 DEF CheckTrap, Check, Goto, kernelVars
  <2> QED BY <2>2 DEF FilenameIs, Rec
<1> QED BY <1>1, <1>2

\* What a hook does to the numbers of the traps.
LEMMA SubmitNumbers ==
    ASSUME TypeOK, TrapNumbered, NEW p \in Pids, NEW text \in Traps \cup AllPaths,
           NEW comm \in AllComms, Submit(p, text, comm),
           NEW n, n = nextId, NEW T, TrapIds \subseteq T, text \in Traps => n \in T
    PROVE  /\ \A i \in 1..Len(ring') : ring'[i].text \in Traps => ring'[i].id \in T
           /\ \/ LostIds' = LostIds
              \/ text \in Traps /\ LostIds' = LostIds \cup {n}
<1>1. ring \in Seq(Records)
  BY DEF TypeOK, KernelTyped
<1>2. CASE /\ ring' = ring
           /\ lost' = IF text \in Traps
                      THEN lost \cup {<<nextId, "ring_full">>} ELSE lost
  <2>1. ASSUME text \in Traps PROVE LostIds' = LostIds \cup {n}
    <3>1. lost' = lost \cup {<<n, "ring_full">>} /\ <<n, "ring_full">>[1] = n
      BY <1>2, <2>1
    <3> QED BY <3>1 DEF LostIds
  <2>2. ASSUME text \notin Traps PROVE LostIds' = LostIds
    BY <1>2, <2>2 DEF LostIds
  <2> QED BY <1>2, <2>1, <2>2 DEF TrapNumbered
<1>3. ASSUME NEW r, r.id = n, r.text = text, ring' = Append(ring, r), UNCHANGED lost
      PROVE  /\ \A i \in 1..Len(ring') : ring'[i].text \in Traps => ring'[i].id \in T
             /\ LostIds' = LostIds
  <2>1. \A i \in 1..Len(ring') : \/ i \in 1..Len(ring) /\ ring'[i] = ring[i]
                                 \/ ring'[i] = r
    BY <1>1, <1>3
  <2> QED BY <1>3, <2>1 DEF TrapNumbered, LostIds
<1>4. ASSUME NEW tail \in StaleTails,
             LET r == [id |-> nextId, pid |-> p, gen |-> gen[p],
                       text |-> text, comm |-> comm, tail |-> tail]
             IN  /\ ring' = Append(ring, r)
                 /\ evidence' = evidence \cup Incriminates(r),
             UNCHANGED lost
      PROVE  /\ \A i \in 1..Len(ring') : ring'[i].text \in Traps => ring'[i].id \in T
             /\ LostIds' = LostIds
  <2> DEFINE r == [id |-> nextId, pid |-> p, gen |-> gen[p],
                   text |-> text, comm |-> comm, tail |-> tail]
  <2>1. r.id = n /\ r.text = text /\ ring' = Append(ring, r)
    BY <1>4
  <2> HIDE DEF r
  <2> QED BY <1>3, <1>4, <2>1, Zenon
<1> QED BY <1>2, <1>4 DEF Submit

\* Traps that are lost, all for one reason, leave the queue together.
LEMMA LoseStep ==
    ASSUME NEW S \in SUBSET TrapIds, NEW w,
           lost' = lost \cup {<<i, w>> : i \in S},
           UNCHANGED <<nextId, trips, answered>>
    PROVE  /\ LostIds' = LostIds \cup S /\ TrapIds' = TrapIds
           /\ FQ!Next
<1>1. LostIds' = LostIds \cup S
  <2>1. ASSUME NEW i \in LostIds' PROVE i \in LostIds \cup S
    BY <2>1 DEF LostIds
  <2>2. ASSUME NEW i \in S PROVE i \in LostIds'
    <3>1. <<i, w>> \in lost' /\ <<i, w>>[1] = i
      BY <2>2
    <3> QED BY <3>1 DEF LostIds
  <2>3. LostIds \subseteq LostIds'
    BY DEF LostIds
  <2> QED BY <2>1, <2>2, <2>3
<1>2. TrapIds' = TrapIds
  BY DEF TrapIds
<1> DEFINE R == S \ (answered \cup LostIds)
           W == TrapIds \ (answered \cup LostIds)
<1>3. R \in SUBSET W
  OBVIOUS
<1>4. /\ TrapIds' \ (answered' \cup LostIds') = W \ R
      /\ LostIds' \ answered' = (LostIds \ answered) \cup R
      /\ (nextId - 1)' = nextId - 1 /\ answered' = answered
  BY <1>1, <1>2
<1>5. FQ!Lose(R)
  BY <1>3, <1>4 DEF FQ!Lose
<1> QED BY <1>1, <1>2, <1>3, <1>5 DEF FQ!Next

\* A step that leaves the history of the traps alone is a stuttering step.
LEMMA QueueStutters ==
    ASSUME UNCHANGED <<nextId, trips, answered, lost>>
    PROVE  UNCHANGED FQ!vars /\ LostIds' = LostIds /\ TrapIds' = TrapIds
BY DEF FQ!vars, TrapIds, LostIds

\* Every step of the pipeline is a step of the queue, or none.
LEMMA QueueStep ==
    QueueInv /\ [Next]_vars => [FQ!Next]_(FQ!vars) /\ TrapNumbered'
<1> SUFFICES ASSUME QueueInv, [Next]_vars
             PROVE  [FQ!Next]_(FQ!vars) /\ TrapNumbered'
  OBVIOUS
<1>0. /\ TypeOK /\ Fifo /\ TrapNumbered /\ TrapSent
      /\ ring \in Seq(Records) /\ chan \in Seq(Orders) /\ nextId \in Nat
      /\ nextId \in 1..(MaxEvents + 1)
  BY NumbersTyped DEF QueueInv, TypeOK, KernelTyped
<1>1. \A i \in TrapIds \cup LostIds \cup answered : i \in Nat /\ i >= 1 /\ i < nextId
  <2>1. /\ trips \subseteq [id: Ids, pid: Pids] /\ lost \subseteq Ids \X Reasons
        /\ answered \subseteq Ids
    BY <1>0 DEF TypeOK, HistoryTyped
  <2>2. TrapIds \subseteq Ids /\ LostIds \subseteq Ids
    BY <2>1 DEF TrapIds, LostIds
  <2>3. \A i \in Ids : i \in Nat /\ i >= 1
    BY Parameters DEF Ids
  <2> QED BY <1>0, <2>1, <2>2, <2>3 DEF TrapNumbered, Fifo, Numbered
\* A hook's step: the number is new to every part of the queue.
<1>2. ASSUME NEW p \in Pids, NEW k \in Kinds, NEW c \in Comms, Trip(p, k, c)
      PROVE  [FQ!Next]_(FQ!vars) /\ TrapNumbered'
  <2>0. PICK n : n = nextId
    OBVIOUS
  <2>1. /\ nextId' = nextId + 1 /\ answered' = answered
        /\ trips' = trips \cup {[id |-> n, pid |-> p]}
    BY <1>2, <2>0 DEF Trip, Submit
  <2>2. TrapIds' = TrapIds \cup {n}
    <3>1. [id |-> n, pid |-> p].id = n
      OBVIOUS
    <3> QED BY <2>1, <3>1 DEF TrapIds
  <2>3. PICK T : T = TrapIds \cup {n}
    OBVIOUS
  <2>4. /\ \A i \in 1..Len(ring') : ring'[i].text \in Traps => ring'[i].id \in T
        /\ LostIds' = LostIds \/ LostIds' = LostIds \cup {n}
    <3>1. /\ k \in Traps \cup AllPaths /\ c \in AllComms
          /\ TrapIds \subseteq T /\ n \in T /\ Submit(p, k, c)
      BY <1>2, <2>3, Parameters DEF Trip
    <3> QED BY <1>0, <2>0, <3>1, SubmitNumbers
  <2>5. TrapNumbered'
    BY <1>0, <1>1, <2>0, <2>1, <2>2, <2>3, <2>4 DEF TrapNumbered
  <2>6. n \notin TrapIds /\ n \notin LostIds /\ n \notin answered
    BY <1>0, <1>1, <2>0
  <2>7. (nextId - 1)' = (nextId - 1) + 1 /\ (nextId - 1)' = n
    BY <1>0, <2>0, <2>1
  <2>8. CASE LostIds' = LostIds
    <3>1. /\ TrapIds' \ (answered' \cup LostIds')
               = (TrapIds \ (answered \cup LostIds)) \cup {n}
          /\ LostIds' \ answered' = LostIds \ answered
      BY <2>1, <2>2, <2>6, <2>8
    <3>2. FQ!Report
      BY <2>1, <2>7, <3>1 DEF FQ!Report
    <3> QED BY <2>5, <3>2 DEF FQ!Next
  <2>9. CASE LostIds' = LostIds \cup {n}
    <3>1. /\ TrapIds' \ (answered' \cup LostIds')
               = TrapIds \ (answered \cup LostIds)
          /\ LostIds' \ answered' = (LostIds \ answered) \cup {n}
      BY <2>1, <2>2, <2>6, <2>9
    <3>2. FQ!Report
      BY <2>1, <2>7, <3>1 DEF FQ!Report
    <3> QED BY <2>5, <3>2 DEF FQ!Next
  <2> QED BY <2>4, <2>8, <2>9
<1>3. ASSUME NEW p \in Pids, NEW f \in Paths, NEW c \in Comms, Exec(p, f, c)
      PROVE  [FQ!Next]_(FQ!vars) /\ TrapNumbered'
  <2>0. PICK n, T : n = nextId /\ T = TrapIds
    OBVIOUS
  <2>1. nextId' = nextId + 1 /\ answered' = answered /\ TrapIds' = TrapIds
    BY <1>3 DEF Exec, Submit, TrapIds
  <2>2. f \notin Traps /\ f \in Traps \cup AllPaths
    BY Parameters DEF Traps, UserTraps, KernelTraps, AllPaths
  <2>3. /\ \A i \in 1..Len(ring') : ring'[i].text \in Traps => ring'[i].id \in T
        /\ LostIds' = LostIds
    BY <1>0, <1>3, <2>0, <2>2, SubmitNumbers, Parameters DEF Exec
  <2>4. TrapNumbered'
    BY <1>0, <1>1, <2>0, <2>1, <2>3 DEF TrapNumbered
  <2>5. (nextId - 1)' = (nextId - 1) + 1
    BY <1>0, <2>1
  <2>6. FQ!Report
    BY <2>1, <2>3, <2>5 DEF FQ!Report
  <2> QED BY <2>4, <2>6 DEF FQ!Next
\* Steps that change no number.
<1>4. ASSUME UNCHANGED <<nextId, TrapIds>>, LostIds' \subseteq LostIds \cup TrapIds,
             ring' = ring \/ ring' = <<>> \/ (ring # <<>> /\ ring' = Tail(ring))
      PROVE  TrapNumbered'
  <2>1. ASSUME ring # <<>>, ring' = Tail(ring)
        PROVE  \A i \in 1..Len(ring') : i + 1 \in 1..Len(ring)
                                          /\ ring'[i] = ring[i + 1]
    BY <1>0, <2>1
  <2>2. \A i \in 1..Len(ring') : ring'[i].text \in Traps => ring'[i].id \in TrapIds
    <3>1. CASE ring' = ring
      BY <1>0, <3>1 DEF TrapNumbered
    <3>2. CASE ring' = <<>>
      BY <3>2
    <3>3. CASE ring # <<>> /\ ring' = Tail(ring)
      BY <1>0, <2>1, <3>3 DEF TrapNumbered
    <3> QED BY <1>4, <3>1, <3>2, <3>3
  <2> QED BY <1>0, <1>4, <2>2 DEF TrapNumbered
<1>5. ASSUME UNCHANGED <<nextId, trips, answered, lost>>,
             ring' = ring \/ ring' = <<>> \/ (ring # <<>> /\ ring' = Tail(ring))
      PROVE  [FQ!Next]_(FQ!vars) /\ TrapNumbered'
  BY <1>4, <1>5, QueueStutters
<1>6. ASSUME NEW S \in SUBSET TrapIds, NEW w,
             lost' = lost \cup {<<i, w>> : i \in S},
             UNCHANGED <<nextId, trips, answered>>,
             ring' = ring \/ ring' = <<>> \/ (ring # <<>> /\ ring' = Tail(ring))
      PROVE  [FQ!Next]_(FQ!vars) /\ TrapNumbered'
  <2>1. LostIds' = LostIds \cup S /\ TrapIds' = TrapIds /\ FQ!Next
    BY <1>6, LoseStep
  <2> QED BY <1>4, <1>6, <2>1
<1>7. CASE Callback
  <2>1. /\ ring # <<>> /\ UNCHANGED <<nextId, trips, answered>>
        /\ ring' = ring \/ ring' = Tail(ring)
    BY <1>0, <1>7, CallbackHasRecord DEF Callback, Bypass, LogEvent, CheckTrap,
       Yara, YaraMatch, YaraClean, CheckMock, CheckRansom, Send, RollbackEnds,
       Rollback, kernelVars, history, Return
  <2>2. Rec.text \in Traps => Rec.id \in TrapIds
    BY <1>0, <2>1, RecTyped DEF TrapNumbered
  <2>3. ASSUME Rec.text \in Traps, NEW w, lost' = lost \cup {<<Rec.id, w>>}
        PROVE  [FQ!Next]_(FQ!vars) /\ TrapNumbered'
    <3>0. PICK S \in SUBSET TrapIds : S = {Rec.id}
      BY <2>2, <2>3
    <3>1. lost' = lost \cup {<<i, w>> : i \in S}
      BY <2>3, <3>0
    <3> QED BY <1>6, <2>1, <3>1
  <2>4. \/ UNCHANGED lost
        \/ Rec.text \in Traps /\ \E w : lost' = lost \cup {<<Rec.id, w>>}
    BY <1>0, <1>7 DEF Callback, Bypass, LogEvent, CheckTrap, Yara, YaraMatch,
       YaraClean, CheckMock, CheckRansom, Send, RollbackEnds, Rollback, history,
       TrapSent
  <2> QED BY <1>5, <2>1, <2>3, <2>4
<1>8. CASE Freeze
  <2>0. PICK n : n = Head(chan).id
    OBVIOUS
  <2>1. /\ UNCHANGED <<nextId, trips, lost, ring>> /\ answered' = answered \cup {n}
        /\ chan # <<>>
    BY <1>8, <2>0 DEF Freeze, kernelVars
  <2>2. n = chan[1].id /\ 1 \in 1..Len(chan) /\ n \in Ids
    <3>1. Head(chan) = chan[1] /\ 1 \in 1..Len(chan) /\ Head(chan) \in Orders
      BY <1>0, <2>1
    <3> QED BY <2>0, <3>1 DEF Orders
  <2>3. n \in 1..(nextId - 1) /\ \A a \in answered : a <= n
    BY <1>0, <2>2, Parameters DEF Fifo, Numbered, AnsweredFirst, Ids
  <2>4. TrapIds' = TrapIds /\ LostIds' = LostIds /\ TrapNumbered'
    BY <1>0, <1>4, <2>1 DEF TrapIds, LostIds
  <2>5. /\ TrapIds' \ (answered' \cup LostIds')
             = (TrapIds \ (answered \cup LostIds)) \ {n}
        /\ LostIds' \ answered' = (LostIds \ answered) \ {n}
        /\ (nextId - 1)' = nextId - 1
    BY <2>1, <2>4
  <2>6. FQ!Answer(n)
    BY <2>1, <2>3, <2>5 DEF FQ!Answer
  <2> QED BY <2>3, <2>4, <2>6 DEF FQ!Next
<1>9. CASE ReadMaps \/ ReadMem \/ Package \/ Route \/ Host \/ MonitorPoll
           \/ Restart \/ UNCHANGED vars
  <2>1. UNCHANGED <<nextId, trips, answered, lost, ring>>
    BY <1>9 DEF ReadMaps, ReadMem, Package, Route, Host, ToggleFile, DiskFills,
       Exit, Spawn, MonitorPoll, Restart, vars, kernelVars, history
  <2> QED BY <1>5, <2>1
<1>10. CASE PollError \/ ShutdownDone \/ Killed
  <2>1. RingTraps \subseteq TrapIds /\ ChanTraps \subseteq TrapIds
    BY <1>0 DEF RingTraps, ChanTraps, Unchecked, TrapNumbered, TrapIds
  <2>2. /\ UNCHANGED <<nextId, trips, answered>> /\ (ring' = ring \/ ring' = <<>>)
        /\ \E S \in {RingTraps, ChanTraps, RingTraps \cup ChanTraps} :
              lost' = lost \cup {<<i, "restart">> : i \in S}
    BY <1>10 DEF PollError, ShutdownDone, Killed, DropRing, kernelVars
  <2>3. PICK S \in SUBSET TrapIds : lost' = lost \cup {<<i, "restart">> : i \in S}
    BY <2>1, <2>2
  <2> QED BY <1>6, <2>2, <2>3
<1>11. CASE Hooks
  BY <1>2, <1>3, <1>11 DEF Hooks
<1>12. CASE Respond
  BY <1>8, <1>9, <1>12 DEF Respond
<1>13. CASE Life
  BY <1>9, <1>10, <1>13 DEF Life
<1> QED BY <1>7, <1>9, <1>11, <1>12, <1>13 DEF Next

\* Ring, callback, channel, responder and restarts together are one queue of
\* freeze orders, for every number of records and every capacity.
THEOREM PipelineIsQueue == Spec => ImplementsFreezeQueue
<1>1. Init => QueueInv /\ FQ!Init
  <2> SUFFICES ASSUME Init PROVE QueueInv /\ FQ!Init
    OBVIOUS
  <2>1. TypeOK /\ Fifo
    BY AgentTypeInit, FifoInit
  <2>2. TrapIds = {} /\ LostIds = {} /\ ring = <<>> /\ nextId = 1 /\ answered = {}
    BY DEF Init, TrapIds, LostIds
  <2>3. TrapNumbered /\ TrapSent
    BY <2>2 DEF TrapNumbered, TrapSent, Init
  <2>4. FQ!Init
    BY <2>2 DEF FQ!Init
  <2> QED BY <2>1, <2>3, <2>4 DEF QueueInv
<1>2. QueueInv /\ [Next]_vars => QueueInv' /\ [FQ!Next]_(FQ!vars)
  BY QueueStep, FifoStep, TrapSentStep, AgentTypeStep DEF QueueInv
<1> QED BY <1>1, <1>2, PTL DEF Spec, ImplementsFreezeQueue, FQ!Spec

=============================================================================

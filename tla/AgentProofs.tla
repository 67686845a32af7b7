---------------------------- MODULE AgentProofs ----------------------------
(***************************************************************************)
(* Proofs about the agent's pipeline, for every set of processes and every *)
(* capacity of the ring and of the channel.                                *)
(***************************************************************************)
EXTENDS Agent, SequenceTheorems, TLAPS

\* The parameters of the hooks come from the instance's sets.
LEMMA Parameters ==
    /\ Kinds \subseteq Traps /\ Paths \subseteq AllPaths
    /\ Comms \subseteq AllComms /\ Infected \subseteq Pids
    /\ RingSlots \in Nat \ {0} /\ ChanCap \in Nat \ {0}
    /\ MaxEvents \in Nat /\ MaxGen \in Nat \ {0}
    /\ MaxToggles \in Nat /\ MaxCrashes \in Nat
BY KindsAssumption, PathsAssumption, CommsAssumption, HostAssumption,
   BoundsAssumption

-----------------------------------------------------------------------------
(***************************************************************************)
(* Type correctness.                                                       *)
(***************************************************************************)

\* A hook writes a well-typed record or none.
LEMMA SubmitTyped ==
    ASSUME TypeOK, NEW p \in Pids, NEW text \in Traps \cup AllPaths,
           NEW comm \in AllComms, Submit(p, text, comm)
    PROVE  /\ KernelTyped'
           /\ ring # <<>> => ring' # <<>>
           /\ evidence' \subseteq Evidence
           /\ lost' \subseteq Ids \X Reasons
           /\ nextId \in Ids
<1>1. /\ nextId \in Ids /\ gen[p] \in Gens /\ gen[p] \in 1..MaxGen
      /\ nextId' = nextId + 1 /\ nextId' \in 1..(MaxEvents + 1)
  BY Parameters DEF TypeOK, HostTyped, KernelTyped, Submit, Ids, Gens
<1>2. ASSUME Len(ring) < RingSlots, NEW tail \in StaleTails,
             produced' = produced + 1,
             imprint' = imprint \cup ({text} \cap {"pwn", "enc"}),
             UNCHANGED lost,
             LET r == [id |-> nextId, pid |-> p, gen |-> gen[p],
                       text |-> text, comm |-> comm, tail |-> tail]
             IN  /\ ring' = Append(ring, r)
                 /\ evidence' = evidence \cup Incriminates(r)
      PROVE  /\ KernelTyped'
             /\ ring # <<>> => ring' # <<>>
             /\ evidence' \subseteq Evidence
             /\ lost' \subseteq Ids \X Reasons
  <2> DEFINE r == [id |-> nextId, pid |-> p, gen |-> gen[p],
                   text |-> text, comm |-> comm, tail |-> tail]
  <2>1. tail \in Tails
    <3>1. tail = {} \/ tail = {"junk"} \/ tail \subseteq imprint
      BY <1>2 DEF StaleTails
    <3>2. imprint \subseteq {"pwn", "enc"}
      BY DEF TypeOK, KernelTyped
    <3> QED BY <3>1, <3>2 DEF Tails
  <2>2. r \in Records
    BY <1>1, <2>1 DEF Records
  <2>3. /\ ring \in Seq(Records) /\ ring' = Append(ring, r)
        /\ evidence' = evidence \cup Incriminates(r)
    BY <1>2 DEF TypeOK, KernelTyped
  <2>4. Incriminates(r) \subseteq Evidence
    BY <1>1 DEF Incriminates, Evidence
  <2>5. ring' \in Seq(Records) /\ Len(ring') = Len(ring) + 1 /\ ring' # <<>>
    BY <2>2, <2>3
  <2>6. KernelTyped'
    BY <1>1, <1>2, <2>5, Parameters DEF TypeOK, KernelTyped
  <2> QED BY <1>2, <2>3, <2>4, <2>5, <2>6 DEF TypeOK, HistoryTyped
<1>3. CASE /\ Len(ring) = RingSlots
           /\ lost' = IF text \in Traps
                      THEN lost \cup {<<nextId, "ring_full">>} ELSE lost
           /\ evidence' = IF text \in Traps
                          THEN evidence \cup
                                 {[id |-> nextId, pid |-> p, gen |-> gen[p],
                                   why |-> "trap"]}
                          ELSE evidence
           /\ UNCHANGED <<ring, produced, imprint>>
  <2>1. [id |-> nextId, pid |-> p, gen |-> gen[p], why |-> "trap"] \in Evidence
    BY <1>1 DEF Evidence
  <2>2. KernelTyped'
    BY <1>1, <1>3 DEF TypeOK, KernelTyped
  <2> QED BY <1>1, <1>3, <2>1, <2>2 DEF TypeOK, HistoryTyped, Reasons
<1> QED BY <1>1, <1>2, <1>3 DEF Submit

\* The record the callback works on.
LEMMA RecTyped ==
    ASSUME TypeOK, ring # <<>>
    PROVE  /\ Rec = ring[1] /\ Rec \in Records
           /\ Rec.id \in Ids /\ Rec.pid \in Pids
           /\ Tail(ring) \in Seq(Records) /\ Len(Tail(ring)) = Len(ring) - 1
           /\ Len(ring) >= 1
<1>1. ring \in Seq(Records)
  BY DEF TypeOK, KernelTyped
<1>2. Len(ring) >= 1 /\ Rec = ring[1] /\ Rec \in Records
  BY <1>1 DEF Rec
<1> QED BY <1>1, <1>2 DEF Records

\* An append to the WAL and a try_send keep their targets well typed.
LEMMA LogTyped ==
    ASSUME TypeOK, NEW lines \in SUBSET Lines, NEW id \in Ids, Logged(id, lines)
    PROVE  wal' \subseteq Ids \X Lines
BY DEF TypeOK, HostTyped, Logged

\* A try_send into a full channel drops the order; otherwise it fits.
LEMMA DispatchTyped ==
    ASSUME TypeOK, ring # <<>>, Dispatch(Rec)
    PROVE  chan' \in Seq(Orders) /\ Len(chan') <= ChanCap
<1>1. Rec.id \in Ids /\ Rec.pid \in Pids
  BY RecTyped
<1>2. Order(Rec) \in Orders
  BY <1>1 DEF Orders, Order, TypeOK, AgentTyped
<1> QED BY <1>2, Parameters DEF Dispatch, TypeOK, AgentTyped

\* The return of the callback frees the record.
LEMMA ReturnTyped ==
    ASSUME TypeOK, ring # <<>>, Return
    PROVE  KernelTyped' /\ loop' = "poll" /\ why' = "trap"
<1>1. Tail(ring) \in Seq(Records) /\ Len(Tail(ring)) = Len(ring) - 1
  BY RecTyped
<1> QED BY <1>1, Parameters DEF Return, TypeOK, KernelTyped

\* Each state of the responder is a record of its own shape.
LEMMA RespTyped ==
    ASSUME TypeOK
    PROVE  /\ resp.at \in {"idle", "maps", "mem", "package", "route"}
           /\ resp.at = "idle" => resp = Idle
           /\ resp.at # "idle" => resp.id \in Ids
           /\ resp.at \in {"maps", "mem", "package"} => resp.pid \in Pids
           /\ resp.at \in {"mem", "package"} => resp.maps \in Gens
           /\ resp.at = "package" => resp.mem \in Gens
           /\ resp.at = "route" => resp.blob \in Blobs
BY DEF TypeOK, AgentTyped, RespStates, Idle


\* Steps of the kernel and of the host.
LEMMA HooksType == TypeOK /\ (Hooks \/ Host) => TypeOK'
<1> SUFFICES ASSUME TypeOK, Hooks \/ Host PROVE TypeOK'
  OBVIOUS
<1>1. ASSUME NEW p \in Pids, NEW k \in Kinds, NEW c \in Comms, Trip(p, k, c)
      PROVE  TypeOK'
  <2>1. /\ KernelTyped' /\ (ring # <<>> => ring' # <<>>)
        /\ evidence' \subseteq Evidence /\ lost' \subseteq Ids \X Reasons
        /\ nextId \in Ids
    BY <1>1, SubmitTyped, Parameters DEF Trip
  <2>2. HostTyped'
    BY <1>1 DEF Trip, TypeOK, HostTyped, blobVars
  <2>3. AgentTyped'
    BY <1>1, <2>1 DEF Trip, TypeOK, AgentTyped, lifeVars, loopVars
  <2>4. HistoryTyped'
    BY <1>1, <2>1 DEF Trip, TypeOK, HistoryTyped
  <2> QED BY <2>1, <2>2, <2>3, <2>4 DEF TypeOK
<1>2. ASSUME NEW p \in Pids, NEW f \in Paths, NEW c \in Comms, Exec(p, f, c)
      PROVE  TypeOK'
  <2>1. /\ KernelTyped' /\ (ring # <<>> => ring' # <<>>)
        /\ evidence' \subseteq Evidence /\ lost' \subseteq Ids \X Reasons
    BY <1>2, SubmitTyped, Parameters DEF Exec
  <2>2. HostTyped'
    BY <1>2 DEF Exec, TypeOK, HostTyped, blobVars, hostVars
  <2>3. AgentTyped'
    BY <1>2, <2>1 DEF Exec, TypeOK, AgentTyped, lifeVars, loopVars
  <2>4. HistoryTyped'
    BY <1>2, <2>1 DEF Exec, TypeOK, HistoryTyped
  <2> QED BY <2>1, <2>2, <2>3, <2>4 DEF TypeOK
<1>3. CASE Host
  <2>1. HostTyped'
    <3>1. CASE ToggleFile
      BY <3>1, Parameters DEF ToggleFile, TypeOK, HostTyped, blobVars
    <3>2. CASE DiskFills
      BY <3>2 DEF DiskFills, TypeOK, HostTyped, blobVars
    <3>3. ASSUME NEW p \in Pids, Exit(p) PROVE HostTyped'
      BY <3>3 DEF Exit, TypeOK, HostTyped, blobVars
    <3>4. ASSUME NEW p \in Pids, Spawn(p) PROVE HostTyped'
      BY <3>4, Parameters DEF Spawn, TypeOK, HostTyped, blobVars
    <3> QED BY <1>3, <3>1, <3>2, <3>3, <3>4 DEF Host
  <2>2. UNCHANGED <<kernelVars, lifeVars, loopVars, chan, resp, history>>
    BY <1>3 DEF Host, ToggleFile, DiskFills, Exit, Spawn
  <2>3. KernelTyped' /\ AgentTyped' /\ HistoryTyped'
    BY <2>2 DEF kernelVars, lifeVars, loopVars, history, TypeOK, KernelTyped, AgentTyped,
                HistoryTyped
  <2> QED BY <2>1, <2>3 DEF TypeOK
<1> QED BY <1>1, <1>2, <1>3 DEF Hooks

\* The callback is at work on a record.
LEMMA CallbackHasRecord == TypeOK /\ Callback => ring # <<>>
BY DEF Callback, Bypass, LogEvent, CheckTrap, Yara, YaraMatch, YaraClean,
       CheckMock, CheckRansom, Send, RollbackEnds, Rollback, TypeOK, AgentTyped

\* Steps of the ring callback.
LEMMA CallbackType == TypeOK /\ Callback => TypeOK'
<1> SUFFICES ASSUME TypeOK, Callback PROVE TypeOK'
  OBVIOUS
<1>1. ring # <<>>
  BY CallbackHasRecord
<1>2. Rec.id \in Ids /\ Rec.pid \in Pids
  BY <1>1, RecTyped
<1>w. \A lines \in SUBSET Lines :
          Logged(Rec.id, lines) => wal' \subseteq Ids \X Lines
  BY <1>2, LogTyped
<1>k. ASSUME UNCHANGED kernelVars PROVE KernelTyped' /\ ring' # <<>>
  BY <1>1, <1>k DEF TypeOK, KernelTyped, kernelVars
<1>3. CASE Bypass
  <2>1. KernelTyped' /\ loop' = "poll" /\ why' = "trap"
    BY <1>1, <1>3, ReturnTyped DEF Bypass
  <2>2. HostTyped' /\ AgentTyped' /\ HistoryTyped'
    BY <1>2, <1>3, <2>1 DEF Bypass, TypeOK, HostTyped, AgentTyped, HistoryTyped,
       hostVars, blobVars, lifeVars, Reasons, Whys
  <2> QED BY <2>1, <2>2 DEF TypeOK
<1>4. CASE LogEvent
  <2>1. wal' \subseteq Ids \X Lines
    BY <1>w, <1>4 DEF LogEvent, Lines
  <2>2. HostTyped' /\ HistoryTyped'
    BY <1>4, <2>1 DEF LogEvent, TypeOK, HostTyped, HistoryTyped, hostVars,
       blobVars, history
  <2>3. AgentTyped'
    BY <1>k, <1>4 DEF LogEvent, Check, TypeOK, AgentTyped, lifeVars, Whys
  <2> QED BY <1>k, <1>4, <2>2, <2>3 DEF LogEvent, TypeOK
<1>5. CASE CheckTrap
  <2>1. wal' \subseteq Ids \X Lines
    BY <1>w, <1>5 DEF CheckTrap, Lines, Whys, TypeOK, HostTyped
  <2>2. lost' \subseteq Ids \X Reasons
    BY <1>2, <1>5 DEF CheckTrap, TypeOK, HistoryTyped, Reasons
  <2>3. HostTyped' /\ HistoryTyped'
    BY <1>5, <2>1, <2>2 DEF CheckTrap, TypeOK, HostTyped, HistoryTyped, hostVars,
       blobVars
  <2>4. AgentTyped'
    BY <1>k, <1>5 DEF CheckTrap, Check, Goto, TypeOK, AgentTyped, lifeVars, Whys
  <2> QED BY <1>k, <1>5, <2>3, <2>4 DEF CheckTrap, TypeOK
<1>6. CASE YaraMatch
  <2>1. wal' \subseteq Ids \X Lines
    BY <1>w, <1>6 DEF YaraMatch, Lines, Whys
  <2>2. [id |-> Rec.id, pid |-> Rec.pid, gen |-> gen[Rec.pid], why |-> "yara"]
           \in Evidence
    BY <1>2, Parameters DEF TypeOK, HostTyped, Evidence, Gens
  <2>3. HostTyped' /\ HistoryTyped'
    BY <1>6, <2>1, <2>2 DEF YaraMatch, TypeOK, HostTyped, HistoryTyped, hostVars,
       blobVars
  <2>4. AgentTyped'
    BY <1>k, <1>6 DEF YaraMatch, Goto, TypeOK, AgentTyped, lifeVars
  <2> QED BY <1>k, <1>6, <2>3, <2>4 DEF YaraMatch, TypeOK
<1>7. CASE YaraClean
  <2>1. HostTyped' /\ HistoryTyped'
    BY <1>7 DEF YaraClean, TypeOK, HostTyped, HistoryTyped, hostVars, blobVars,
       history
  <2>2. AgentTyped'
    BY <1>k, <1>7 DEF YaraClean, Check, TypeOK, AgentTyped, lifeVars, Whys
  <2> QED BY <1>k, <1>7, <2>1, <2>2 DEF YaraClean, TypeOK
<1>8. CASE CheckMock
  <2>1. wal' \subseteq Ids \X Lines
    BY <1>w, <1>8 DEF CheckMock, Lines, Whys, TypeOK, HostTyped
  <2>2. HostTyped' /\ HistoryTyped'
    BY <1>8, <2>1 DEF CheckMock, TypeOK, HostTyped, HistoryTyped, hostVars,
       blobVars, history
  <2>3. AgentTyped'
    BY <1>k, <1>8 DEF CheckMock, Check, Goto, TypeOK, AgentTyped, lifeVars, Whys
  <2> QED BY <1>k, <1>8, <2>2, <2>3 DEF CheckMock, TypeOK
<1>9. CASE CheckRansom
  <2>1. wal' \subseteq Ids \X Lines
    BY <1>w, <1>9 DEF CheckRansom, Lines, Whys, TypeOK, HostTyped
  <2>2. HostTyped' /\ HistoryTyped'
    BY <1>9, <2>1 DEF CheckRansom, TypeOK, HostTyped, HistoryTyped, hostVars,
       blobVars, history
  <2>3. /\ KernelTyped'
        /\ \/ loop' = "poll" /\ why' = "trap"
           \/ loop' = "send" /\ why' = why /\ ring' # <<>>
    <3>1. CASE Return
      BY <1>1, <3>1, ReturnTyped
    <3>2. CASE Goto("send") /\ UNCHANGED kernelVars
      BY <1>k, <3>2 DEF Goto
    <3> QED BY <1>9, <3>1, <3>2 DEF CheckRansom
  <2>4. AgentTyped'
    BY <1>9, <2>3 DEF CheckRansom, TypeOK, AgentTyped, lifeVars, Whys
  <2> QED BY <2>2, <2>3, <2>4 DEF TypeOK
<1>10. CASE Send
  <2>1. chan' \in Seq(Orders) /\ Len(chan') <= ChanCap
    BY <1>1, <1>10, DispatchTyped DEF Send
  <2>2. lost' \subseteq Ids \X Reasons
    BY <1>2, <1>10 DEF Send, TypeOK, HistoryTyped, Reasons
  <2>3. HostTyped' /\ HistoryTyped'
    BY <1>10, <2>2 DEF Send, TypeOK, HostTyped, HistoryTyped, hostVars, blobVars
  <2>4. AgentTyped'
    BY <1>k, <1>10, <2>1 DEF Send, Check, Goto, TypeOK, AgentTyped, lifeVars, Whys
  <2> QED BY <1>k, <1>10, <2>3, <2>4 DEF Send, TypeOK
<1>11. ASSUME NEW ok \in BOOLEAN, Rollback(ok) PROVE TypeOK'
  <2>1. KernelTyped' /\ loop' = "poll" /\ why' = "trap"
    BY <1>1, <1>11, ReturnTyped DEF Rollback
  <2>2. HostTyped' /\ AgentTyped' /\ HistoryTyped'
    BY <1>2, <1>11, <2>1 DEF Rollback, TypeOK, HostTyped, AgentTyped,
       HistoryTyped, hostVars, blobVars, lifeVars, Whys
  <2> QED BY <2>1, <2>2 DEF TypeOK
<1> QED BY <1>3, <1>4, <1>5, <1>6, <1>7, <1>8, <1>9, <1>10, <1>11
        DEF Callback, Yara, RollbackEnds

\* Steps of the responder task.
LEMMA RespondType == TypeOK /\ Respond => TypeOK'
<1> SUFFICES ASSUME TypeOK, Respond PROVE TypeOK'
  OBVIOUS
<1>1. CASE Freeze
  <2> DEFINE o == Head(chan)
  <2>1. /\ o \in Orders /\ o.id \in Ids /\ o.pid \in Pids
        /\ Tail(chan) \in Seq(Orders) /\ Len(Tail(chan)) = Len(chan) - 1
    <3>1. chan \in Seq(Orders) /\ chan # <<>>
      BY <1>1 DEF Freeze, TypeOK, AgentTyped
    <3>2. o \in Orders
      BY <3>1
    <3> QED BY <3>1, <3>2 DEF Orders
  <2>2. HostTyped' /\ KernelTyped'
    BY <1>1, <2>1 DEF Freeze, TypeOK, HostTyped, KernelTyped, kernelVars,
       blobVars
  <2>3. resp' \in RespStates
    <3>1. [at |-> "maps", id |-> o.id, pid |-> o.pid] \in RespStates
      BY <2>1 DEF RespStates
    <3> QED BY <1>1, <3>1 DEF Freeze, TypeOK, AgentTyped
  <2>4. AgentTyped'
    BY <1>1, <2>1, <2>3, Parameters DEF Freeze, TypeOK, AgentTyped, kernelVars,
       lifeVars, loopVars
  <2>5. HistoryTyped'
    <3>1. [order |-> o, gen |-> gen[o.pid]] \in [order: Orders, gen: 1..MaxGen]
      BY <2>1 DEF TypeOK, HostTyped
    <3> HIDE DEF o
    <3>2. o.id \in Ids /\ o = Head(chan)
      BY <2>1 DEF o
    <3> QED BY <1>1, <3>1, <3>2 DEF Freeze, TypeOK, HistoryTyped
  <2> QED BY <2>2, <2>4, <2>5 DEF TypeOK
<1>2. CASE ReadMaps
  <2>1. resp.id \in Ids /\ resp.pid \in Pids /\ gen[resp.pid] \in Gens
    BY <1>2, RespTyped, Parameters DEF ReadMaps, TypeOK, HostTyped, Gens
  <2>2. resp' \in RespStates
    BY <1>2, <2>1 DEF ReadMaps, RespStates
  <2> QED BY <1>2, <2>2 DEF ReadMaps, TypeOK, HostTyped, KernelTyped, AgentTyped,
             HistoryTyped, hostVars, kernelVars, blobVars, lifeVars, loopVars, history
<1>3. CASE ReadMem
  <2>1. /\ resp.id \in Ids /\ resp.pid \in Pids /\ resp.maps \in Gens
        /\ gen[resp.pid] \in Gens
    BY <1>3, RespTyped, Parameters DEF ReadMem, TypeOK, HostTyped, Gens
  <2>2. resp' \in RespStates
    BY <1>3, <2>1 DEF ReadMem, RespStates
  <2> QED BY <1>3, <2>2 DEF ReadMem, TypeOK, HostTyped, KernelTyped, AgentTyped,
             HistoryTyped, hostVars, kernelVars, blobVars, lifeVars, loopVars, history
<1>4. CASE Package
  <2> DEFINE b == [pid |-> resp.pid, maps |-> resp.maps, mem |-> resp.mem,
                   regs |-> IF proc[resp.pid] = "gone" THEN 0
                            ELSE gen[resp.pid]]
  <2>1. /\ resp.id \in Ids /\ resp.pid \in Pids /\ resp.maps \in Gens
        /\ resp.mem \in Gens /\ gen[resp.pid] \in Gens /\ 0 \in Gens
    BY <1>4, RespTyped, Parameters DEF Package, TypeOK, HostTyped, Gens
  <2>2. b \in Blobs
    BY <2>1 DEF Blobs
  <2>3. blobs' \subseteq Blobs /\ resp' \in RespStates
    BY <1>4, <2>1, <2>2 DEF Package, RespStates, TypeOK, HostTyped
  <2> QED BY <1>4, <2>3 DEF Package, TypeOK, HostTyped, KernelTyped, AgentTyped,
             HistoryTyped, hostVars, kernelVars, lifeVars, loopVars, history
<1>5. CASE Route
  <2>1. resp.blob \in Blobs /\ Idle \in RespStates
    BY <1>5, RespTyped DEF Route, RespStates
  <2> QED BY <1>5, <2>1 DEF Route, TypeOK, HostTyped, KernelTyped, AgentTyped,
             HistoryTyped, hostVars, kernelVars, lifeVars, loopVars, history
<1> QED BY <1>1, <1>2, <1>3, <1>4, <1>5 DEF Respond

\* Steps of the agent's life and of the research-mode monitor.
LEMMA LifeType == TypeOK /\ (Life \/ MonitorPoll) => TypeOK'
<1> SUFFICES ASSUME TypeOK, Life \/ MonitorPoll PROVE TypeOK'
  OBVIOUS
<1>1. RingTraps \subseteq Ids /\ ChanTraps \subseteq Ids
  <2>1. ring \in Seq(Records) /\ chan \in Seq(Orders)
    BY DEF TypeOK, KernelTyped, AgentTyped
  <2>2. \A i \in 1..Len(ring) : ring[i].id \in Ids
    <3>1. \A i \in 1..Len(ring) : ring[i] \in Records
      BY <2>1
    <3> QED BY <3>1 DEF Records
  <2>3. \A i \in 1..Len(chan) : chan[i].id \in Ids
    <3>1. \A i \in 1..Len(chan) : chan[i] \in Orders
      BY <2>1
    <3> QED BY <3>1 DEF Orders
  <2> QED BY <2>2, <2>3 DEF RingTraps, ChanTraps
<1>2. <<>> \in Seq(Records) /\ <<>> \in Seq(Orders) /\ Len(<<>>) = 0
      /\ Idle \in RespStates
  BY DEF RespStates
<1>3. HostTyped'
  BY DEF Life, PollError, ShutdownDone, Killed, Restart, MonitorPoll, TypeOK,
         HostTyped, hostVars, blobVars
<1>4. KernelTyped'
  <2>1. CASE UNCHANGED kernelVars
    BY <2>1 DEF TypeOK, KernelTyped, kernelVars
  <2>2. CASE DropRing
    BY <1>2, <2>2, Parameters DEF DropRing, TypeOK, KernelTyped
  <2> QED BY <2>1, <2>2 DEF Life, PollError, ShutdownDone, Killed, Restart,
             MonitorPoll
<1>5. AgentTyped'
  <2>1. CASE PollError
    BY <2>1, Parameters DEF PollError, DropRing, TypeOK, AgentTyped, Whys
  <2>2. CASE ShutdownDone
    BY <1>2, <2>2, Parameters DEF ShutdownDone, TypeOK, AgentTyped, kernelVars,
       loopVars
  <2>3. CASE Killed
    BY <1>2, <2>3, Parameters DEF Killed, DropRing, TypeOK, AgentTyped, Whys
  <2>4. CASE Restart
    BY <2>4 DEF Restart, TypeOK, AgentTyped, kernelVars, loopVars
  <2>5. CASE MonitorPoll
    BY <2>5 DEF MonitorPoll, TypeOK, AgentTyped, HostTyped, kernelVars, loopVars
  <2> QED BY <2>1, <2>2, <2>3, <2>4, <2>5 DEF Life
<1>6. HistoryTyped'
  <2>1. CASE UNCHANGED history
    BY <2>1 DEF TypeOK, HistoryTyped, history
  <2>2. ASSUME NEW S \in SUBSET Ids, lost' = lost \cup {<<i, "restart">> : i \in S},
               UNCHANGED <<trips, evidence, frozen, answered, rolled>>
        PROVE  HistoryTyped'
    BY <2>2 DEF TypeOK, HistoryTyped, Reasons
  <2>3. CASE PollError
    BY <1>1, <2>2, <2>3 DEF PollError
  <2>4. CASE ShutdownDone
    BY <1>1, <2>2, <2>4 DEF ShutdownDone
  <2>5. CASE Killed
    BY <1>1, <2>2, <2>5 DEF Killed
  <2> QED BY <2>1, <2>3, <2>4, <2>5 DEF Life, Restart, MonitorPoll
<1> QED BY <1>3, <1>4, <1>5, <1>6 DEF TypeOK

\* Every step of the pipeline keeps the types.
LEMMA AgentTypeStep == TypeOK /\ [Next]_vars => TypeOK'
<1>1. TypeOK /\ UNCHANGED vars => TypeOK'
  BY DEF vars, hostVars, kernelVars, walVars, blobVars, lifeVars, loopVars, history,
         TypeOK, HostTyped, KernelTyped, AgentTyped, HistoryTyped
<1> QED BY <1>1, HooksType, CallbackType, RespondType, LifeType DEF Next

\* The ring and the channel are empty at first.
LEMMA AgentTypeInit == Init => TypeOK
<1> SUFFICES ASSUME Init PROVE TypeOK
  OBVIOUS
<1>b. flagFile \in BOOLEAN /\ research_mode \in BOOLEAN
  BY Zenon DEF Init
<1>1. HostTyped
  <2>1. proc \in [Pids -> {"running", "stopped", "gone"}]
    BY DEF Init
  <2>2. gen \in [Pids -> 1..MaxGen]
    BY Parameters DEF Init
  <2> QED BY <1>b, <2>1, <2>2, Parameters DEF Init, HostTyped
<1>2. KernelTyped
  BY Parameters DEF Init, KernelTyped
<1>3. AgentTyped
  BY <1>b, Parameters DEF Init, AgentTyped, RespStates, Whys
<1>4. HistoryTyped
  BY DEF Init, HistoryTyped
<1> QED BY <1>1, <1>2, <1>3, <1>4 DEF TypeOK

\* Type correctness: the `events' ring and the response channel never exceed
\* their capacity, and the callback always has the record it works on.
THEOREM AgentTypeCorrect == Spec => []TypeOK
BY AgentTypeInit, AgentTypeStep, PTL DEF Spec


-----------------------------------------------------------------------------
(***************************************************************************)
(* The head of the ring stays the record the callback works on.            *)
(***************************************************************************)

\* A hook appends behind the head.
LEMMA SubmitKeepsHead ==
    ASSUME TypeOK, ring # <<>>, NEW p \in Pids, NEW text, NEW comm,
           Submit(p, text, comm)
    PROVE  ring' # <<>> /\ ring'[1] = ring[1] /\ Rec' = Rec
<1>1. ring \in Seq(Records) /\ Len(ring) >= 1
  BY RecTyped DEF TypeOK, KernelTyped
<1>2. ASSUME NEW r, ring' = Append(ring, r)
      PROVE  ring' # <<>> /\ ring'[1] = ring[1] /\ Rec' = Rec
  BY <1>1, <1>2 DEF Rec
<1> QED BY <1>2 DEF Submit, Rec

\* As long as the callback does not return and the agent does not go down, it
\* keeps its record.
LEMMA RecordKept ==
    ASSUME TypeOK, [Next]_vars, loop # "poll", loop' # "poll"
    PROVE  Rec' = Rec
<1>1. ring # <<>>
  BY DEF TypeOK, AgentTyped
<1>2. CASE Hooks
  BY <1>1, <1>2, SubmitKeepsHead DEF Hooks, Trip, Exec
<1>3. CASE Callback
  <2>1. ring' = ring
    BY <1>3 DEF Callback, Bypass, LogEvent, CheckTrap, Yara, YaraMatch, YaraClean,
       CheckMock, CheckRansom, Send, RollbackEnds, Rollback, Return, kernelVars
  <2> QED BY <2>1 DEF Rec
<1>4. CASE Host \/ MonitorPoll \/ Respond \/ Life \/ UNCHANGED vars
  <2>1. ring' = ring
    BY <1>4 DEF Host, ToggleFile, DiskFills, Exit, Spawn, MonitorPoll, Respond,
       Freeze, ReadMaps, ReadMem, Package, Route, Life, PollError, ShutdownDone,
       Killed, Restart, DropRing, vars, kernelVars
  <2> QED BY <2>1 DEF Rec
<1> QED BY <1>2, <1>3, <1>4 DEF Next

-----------------------------------------------------------------------------
(***************************************************************************)
(* No process is stopped without grounds.                                  *)
(***************************************************************************)

\* The record an order was sent for has grounds for its reason against its PID.
Blamed(o) == \E e \in evidence : /\ e.id = o.id /\ e.pid = o.pid
                                 /\ e.why \in Grounds(o.why)

\* The process that has PID p now was stopped by the responder.
FrozenNow(p) == \E f \in frozen : f.order.pid = p /\ f.gen = gen[p]

\* The inductive strengthening of StopJustified.  Evidence is of a process that
\* has or had the PID; what the ring's memory and its records say is evidence;
\* stale evidence is sound; the order the callback is about to send, the orders
\* in the channel and those carried out all have grounds of their own record.
EvidencePast == \A e \in evidence : e.gen <= gen[e.pid]
EvidenceSound == \A e \in evidence : Sound(e)
ImprintSound == \A x \in imprint : \E d \in evidence : d.why = x /\ d.id < nextId
RingBlamed == \A i \in 1..Len(ring) : Incriminates(ring[i]) \subseteq evidence
SendBlamed == loop = "send" => Blamed(Order(Rec))
ChanBlamed == \A i \in 1..Len(chan) : Blamed(chan[i])
FrozenBlamed == \A f \in frozen : Blamed(f.order)
Stops == \A p \in Pids : proc[p] = "stopped" => HookStopped(p) \/ FrozenNow(p)

EvidenceInv == EvidencePast /\ EvidenceSound /\ ImprintSound /\ RingBlamed
OrdersInv == SendBlamed /\ ChanBlamed /\ FrozenBlamed
Justified == TypeOK /\ EvidenceInv /\ OrdersInv /\ Stops

\* Each check that strikes on a record has grounds in what the record says.
LEMMA MatchBlames ==
    ASSUME NEW r, NEW w,
           \/ w = "trap" /\ FilenameIs(r, Traps)
           \/ w = "mock" /\ MockThreat(r)
           \/ w = "ransom" /\ Ransomware(r)
    PROVE  \E e \in Incriminates(r) :
               e.id = r.id /\ e.pid = r.pid /\ e.why \in Grounds(w)
<1> DEFINE E(x) == [id |-> r.id, pid |-> r.pid, gen |-> r.gen, why |-> x]
<1>1. ASSUME NEW x, E(x) \in Incriminates(r), x \in Grounds(w)
      PROVE  \E e \in Incriminates(r) :
                 e.id = r.id /\ e.pid = r.pid /\ e.why \in Grounds(w)
  BY <1>1
<1>2. CASE w = "trap" /\ FilenameIs(r, Traps)
  <2>1. E("trap") \in Incriminates(r) /\ "trap" \in Grounds(w)
    BY <1>2 DEF Incriminates, FilenameIs, Grounds
  <2> QED BY <1>1, <2>1
<1>3. CASE w = "mock" /\ MockThreat(r)
  <2>1. {"malware", "pwn", "stale_pwn"} \subseteq Grounds(w)
    BY <1>3 DEF Grounds
  <2>2. \/ E("malware") \in Incriminates(r) \/ E("pwn") \in Incriminates(r)
        \/ E("stale_pwn") \in Incriminates(r)
    BY <1>3 DEF MockThreat, ContainsPwn, Incriminates
  <2> QED BY <1>1, <2>1, <2>2
<1>4. CASE w = "ransom" /\ Ransomware(r)
  <2>1. {"ransomware", "enc", "stale_enc"} \subseteq Grounds(w)
    BY <1>4 DEF Grounds
  <2>2. \/ E("ransomware") \in Incriminates(r) \/ E("enc") \in Incriminates(r)
        \/ E("stale_enc") \in Incriminates(r)
    BY <1>4 DEF Ransomware, EndsWithEnc, Incriminates
  <2> QED BY <1>1, <2>1, <2>2
<1> QED BY <1>2, <1>3, <1>4

\* Evidence is never taken back.
LEMMA EvidenceGrows == [Next]_vars => evidence \subseteq evidence'
<1> SUFFICES ASSUME [Next]_vars PROVE evidence \subseteq evidence'
  OBVIOUS
<1>1. CASE Hooks
  <2>1. ASSUME NEW p, NEW text, NEW comm, Submit(p, text, comm)
        PROVE  evidence \subseteq evidence'
    <3>1. ASSUME NEW r, evidence' = evidence \cup r
          PROVE  evidence \subseteq evidence'
      BY <3>1
    <3> QED BY <2>1, <3>1 DEF Submit
  <2> QED BY <1>1, <2>1 DEF Hooks, Trip, Exec
<1>2. CASE Callback
  BY <1>2 DEF Callback, Bypass, LogEvent, CheckTrap, Yara, YaraMatch, YaraClean,
     CheckMock, CheckRansom, Send, RollbackEnds, Rollback, history
<1>3. CASE Host \/ MonitorPoll \/ Respond \/ Life \/ UNCHANGED vars
  BY <1>3 DEF Host, ToggleFile, DiskFills, Exit, Spawn, MonitorPoll, Respond,
     Freeze, ReadMaps, ReadMem, Package, Route, Life, PollError, ShutdownDone,
     Killed, Restart, vars, history
<1> QED BY <1>1, <1>2, <1>3 DEF Next

\* What a record in the ring says of a process: what its tail says goes back to
\* the ring's memory.
LEMMA SubmitSound ==
    ASSUME TypeOK, EvidenceInv, NEW p \in Pids, NEW text \in Traps \cup AllPaths,
           NEW comm \in AllComms, Submit(p, text, comm), gen' = gen
    PROVE  /\ EvidenceInv'
           /\ text \in Traps => \E e \in evidence' : /\ e.pid = p /\ e.gen = gen[p]
                                                     /\ e.why = "trap"
<1>0. /\ evidence \subseteq Evidence /\ nextId \in Nat /\ gen[p] \in Nat
      /\ nextId' = nextId + 1 /\ imprint \subseteq {"pwn", "enc"}
      /\ \A e \in Evidence : e.id \in Nat
  BY Parameters DEF TypeOK, HistoryTyped, KernelTyped, HostTyped, Submit, Evidence,
     Ids
<1>1. /\ \A e \in evidence : e.gen <= gen[e.pid]
      /\ \A e \in evidence : Sound(e)
      /\ \A x \in imprint : \E d \in evidence : d.why = x /\ d.id < nextId
  BY DEF EvidenceInv, EvidencePast, EvidenceSound, ImprintSound
<1>2. CASE /\ ring' = ring /\ imprint' = imprint
           /\ evidence' = IF text \in Traps
                          THEN evidence \cup
                                 {[id |-> nextId, pid |-> p, gen |-> gen[p],
                                   why |-> "trap"]}
                          ELSE evidence
  <2> DEFINE n == [id |-> nextId, pid |-> p, gen |-> gen[p], why |-> "trap"]
  <2>1. /\ n.pid = p /\ n.gen = gen[p] /\ n.why = "trap" /\ n.id = nextId
        /\ evidence' = (IF text \in Traps THEN evidence \cup {n} ELSE evidence)
    BY <1>2
  <2> HIDE DEF n
  <2>2. EvidencePast'
    BY <1>0, <1>1, <2>1 DEF EvidencePast
  <2>3. EvidenceSound'
    BY <1>1, <2>1 DEF EvidenceSound, Sound
  <2>4. ImprintSound'
    BY <1>0, <1>1, <1>2, <2>1 DEF ImprintSound
  <2>5. RingBlamed'
    <3>1. \A i \in 1..Len(ring') : Incriminates(ring'[i]) \subseteq evidence'
      BY <1>2, <2>1 DEF EvidenceInv, RingBlamed
    <3> QED BY <3>1 DEF RingBlamed, Incriminates
  <2> QED BY <2>1, <2>2, <2>3, <2>4, <2>5 DEF EvidenceInv
<1>3. ASSUME NEW tail \in StaleTails,
             imprint' = imprint \cup ({text} \cap {"pwn", "enc"}),
             LET r == [id |-> nextId, pid |-> p, gen |-> gen[p],
                       text |-> text, comm |-> comm, tail |-> tail]
             IN  /\ ring' = Append(ring, r)
                 /\ evidence' = evidence \cup Incriminates(r)
      PROVE  /\ EvidenceInv'
             /\ text \in Traps => \E e \in evidence' : /\ e.pid = p
                                                       /\ e.gen = gen[p]
                                                       /\ e.why = "trap"
  <2>0. PICK r : r = [id |-> nextId, pid |-> p, gen |-> gen[p],
                      text |-> text, comm |-> comm, tail |-> tail]
    OBVIOUS
  <2>1. /\ ring \in Seq(Records) /\ ring' = Append(ring, r)
        /\ evidence' = evidence \cup Incriminates(r)
    BY <1>3, <2>0 DEF TypeOK, KernelTyped
  <2>2. ASSUME NEW e \in Incriminates(r)
        PROVE  /\ e.id = nextId /\ e.pid = p /\ e.gen = gen[p]
               /\ e.why = "stale_pwn" => "pwn" \in tail
               /\ e.why = "stale_enc" => "enc" \in tail
    <3>1. PICK w : /\ e = [id |-> r.id, pid |-> r.pid, gen |-> r.gen, why |-> w]
                   /\ w = "stale_pwn" => "pwn" \in r.tail
                   /\ w = "stale_enc" => "enc" \in r.tail
      BY <2>2 DEF Incriminates
    <3> QED BY <2>0, <3>1
  <2>3. "pwn" \in tail => "pwn" \in imprint
    BY <1>3 DEF StaleTails
  <2>4. "enc" \in tail => "enc" \in imprint
    BY <1>3 DEF StaleTails
  <2>5. EvidencePast'
    <3>1. ASSUME NEW e \in evidence' PROVE e.gen <= gen[e.pid]
      BY <1>0, <1>1, <2>1, <2>2, <3>1
    <3> QED BY <3>1 DEF EvidencePast
  <2>6. EvidenceSound'
    <3>1. ASSUME NEW e \in evidence' PROVE Sound(e)
      <4>1. CASE e \in evidence
        BY <1>1, <4>1
      <4>2. CASE e \in Incriminates(r)
        BY <1>1, <2>2, <2>3, <2>4, <4>2 DEF Sound
      <4> QED BY <2>1, <3>1, <4>1, <4>2
    <3>2. ASSUME NEW e \in evidence'
          PROVE  /\ e.why = "stale_pwn" =>
                      \E d \in evidence' : d.why = "pwn" /\ d.id < e.id
                 /\ e.why = "stale_enc" =>
                      \E d \in evidence' : d.why = "enc" /\ d.id < e.id
      BY <2>1, <3>1, <3>2 DEF Sound
    <3> QED BY <3>2 DEF EvidenceSound, Sound
  <2>7. ImprintSound'
    <3>1. ASSUME NEW x \in imprint'
          PROVE  \E d \in evidence' : d.why = x /\ d.id < nextId'
      <4>1. CASE x \in imprint
        <5>1. PICK d \in evidence : d.why = x /\ d.id < nextId
          BY <1>1, <4>1
        <5>2. d.id \in Nat /\ d \in evidence'
          BY <1>0, <2>1, <5>1
        <5> QED BY <1>0, <5>1, <5>2
      <4>2. CASE x = text /\ x \in {"pwn", "enc"}
        <5> DEFINE d == [id |-> r.id, pid |-> r.pid, gen |-> r.gen, why |-> x]
        <5>1. d \in Incriminates(r)
          BY <2>0, <4>2 DEF Incriminates
        <5>2. d.why = x /\ d.id = nextId
          BY <2>0
        <5> HIDE DEF d
        <5> QED BY <1>0, <2>1, <5>1, <5>2
      <4> QED BY <1>3, <3>1, <4>1, <4>2
    <3> QED BY <3>1 DEF ImprintSound
  <2>8. ASSUME NEW i \in 1..Len(ring')
        PROVE  Incriminates(ring'[i]) \subseteq evidence'
    <3>1. CASE i \in 1..Len(ring)
      <4>1. ring'[i] = ring[i]
        BY <2>1, <3>1
      <4>2. Incriminates(ring[i]) \subseteq evidence
        BY <3>1 DEF EvidenceInv, RingBlamed
      <4> QED BY <2>1, <4>1, <4>2
    <3>2. CASE i = Len(ring) + 1
      <4>1. ring'[i] = r
        BY <2>1, <3>2
      <4> QED BY <2>1, <4>1
    <3> QED BY <2>1, <2>8, <3>1, <3>2
  <2>9. RingBlamed'
    BY <2>8 DEF RingBlamed, Incriminates
  <2>10. ASSUME text \in Traps
         PROVE  \E e \in evidence' : e.pid = p /\ e.gen = gen[p] /\ e.why = "trap"
    <3> DEFINE d == [id |-> r.id, pid |-> r.pid, gen |-> r.gen, why |-> "trap"]
    <3>1. d \in Incriminates(r)
      BY <2>0, <2>10 DEF Incriminates
    <3>2. d.pid = p /\ d.gen = gen[p] /\ d.why = "trap"
      BY <2>0
    <3> HIDE DEF d
    <3> QED BY <2>1, <3>1, <3>2
  <2> QED BY <2>5, <2>6, <2>7, <2>9, <2>10 DEF EvidenceInv
<1> QED BY <1>2, <1>3 DEF Submit

\* What is left of the ring when the callback returns stays on record.
LEMMA ReturnBlamed ==
    ASSUME TypeOK, ring # <<>>, RingBlamed, ring' = Tail(ring),
           evidence \subseteq evidence'
    PROVE  RingBlamed'
<1>1. ring \in Seq(Records)
  BY DEF TypeOK, KernelTyped
<1>2. \A i \in 1..Len(ring') : i + 1 \in 1..Len(ring) /\ ring'[i] = ring[i + 1]
  BY <1>1
<1>3. ASSUME NEW i \in 1..Len(ring')
      PROVE  Incriminates(ring'[i]) \subseteq evidence'
  <2>1. i + 1 \in 1..Len(ring) /\ ring'[i] = ring[i + 1]
    BY <1>2
  <2>2. Incriminates(ring[i + 1]) \subseteq evidence
    BY <2>1 DEF RingBlamed
  <2> QED BY <2>1, <2>2
<1> QED BY <1>3 DEF RingBlamed, Incriminates

\* Every step keeps the evidence sound.
LEMMA EvidenceStep == TypeOK /\ EvidenceInv /\ [Next]_vars => EvidenceInv'
<1> SUFFICES ASSUME TypeOK, EvidenceInv, [Next]_vars PROVE EvidenceInv'
  OBVIOUS
<1>0. /\ evidence \subseteq Evidence /\ gen \in [Pids -> 1..MaxGen]
      /\ \A e \in Evidence : e.pid \in Pids /\ e.gen \in Nat
      /\ \A q \in Pids : gen[q] \in Nat
      /\ EvidencePast /\ EvidenceSound /\ ImprintSound /\ RingBlamed
  BY Parameters DEF TypeOK, HistoryTyped, HostTyped, Evidence, Gens, EvidenceInv
<1>1. CASE Hooks
  <2>1. gen' = gen
    BY <1>1 DEF Hooks, Trip, Exec, hostVars
  <2> QED BY <1>1, <2>1, SubmitSound, Parameters DEF Hooks, Trip, Exec
<1>2. ASSUME UNCHANGED evidence, imprint' \subseteq imprint, nextId' = nextId,
             \A q \in Pids : gen'[q] = gen[q] \/ gen'[q] = gen[q] + 1,
             ring' = ring \/ ring' = <<>> \/ (ring # <<>> /\ ring' = Tail(ring))
      PROVE  EvidenceInv'
  <2>1. EvidencePast'
    BY <1>0, <1>2 DEF EvidencePast
  <2>2. EvidenceSound'
    BY <1>0, <1>2 DEF EvidenceSound, Sound
  <2>3. ImprintSound'
    BY <1>0, <1>2 DEF ImprintSound
  <2>4. RingBlamed'
    <3>1. CASE ring' = ring
      <4>1. \A i \in 1..Len(ring') : Incriminates(ring'[i]) \subseteq evidence'
        BY <1>0, <1>2, <3>1 DEF RingBlamed
      <4> QED BY <4>1 DEF RingBlamed, Incriminates
    <3>2. CASE ring' = <<>>
      BY <3>2 DEF RingBlamed
    <3>3. CASE ring # <<>> /\ ring' = Tail(ring)
      BY <1>0, <1>2, <3>3, ReturnBlamed
    <3> QED BY <1>2, <3>1, <3>2, <3>3
  <2> QED BY <2>1, <2>2, <2>3, <2>4 DEF EvidenceInv
<1>3. CASE YaraMatch
  <2> DEFINE n == [id |-> Rec.id, pid |-> Rec.pid, gen |-> gen[Rec.pid],
                   why |-> "yara"]
  <2>1. /\ evidence' = evidence \cup {n} /\ n.gen = gen[n.pid] /\ n.why = "yara"
        /\ UNCHANGED <<gen, imprint, nextId, ring>>
    BY <1>3 DEF YaraMatch, hostVars, kernelVars
  <2>2. n.pid \in Pids
    BY <1>3, RecTyped DEF YaraMatch, TypeOK, AgentTyped
  <2> HIDE DEF n
  <2>3. EvidencePast'
    BY <1>0, <2>1, <2>2 DEF EvidencePast
  <2>4. EvidenceSound'
    BY <1>0, <2>1 DEF EvidenceSound, Sound
  <2>5. ImprintSound'
    BY <1>0, <2>1 DEF ImprintSound
  <2>6. \A i \in 1..Len(ring') : Incriminates(ring'[i]) \subseteq evidence'
    BY <1>0, <2>1 DEF RingBlamed
  <2>7. RingBlamed'
    BY <2>6 DEF RingBlamed, Incriminates
  <2> QED BY <2>3, <2>4, <2>5, <2>7 DEF EvidenceInv
<1>4. ASSUME Callback, ~YaraMatch PROVE EvidenceInv'
  <2>1. /\ UNCHANGED <<evidence, imprint, nextId, gen>>
        /\ ring' = ring \/ ring' = Tail(ring)
    BY <1>4 DEF Callback, Bypass, LogEvent, CheckTrap, Yara, YaraClean, CheckMock,
       CheckRansom, Send, RollbackEnds, Rollback, Return, history, hostVars,
       kernelVars
  <2>2. ring # <<>>
    BY <1>4, CallbackHasRecord
  <2> QED BY <1>2, <2>1, <2>2
<1>5. ASSUME NEW p \in Pids, Spawn(p) PROVE EvidenceInv'
  <2>1. UNCHANGED <<evidence, imprint, nextId, ring>>
    BY <1>5 DEF Spawn, history, kernelVars
  <2>2. \A q \in Pids : gen'[q] = gen[q] \/ gen'[q] = gen[q] + 1
    BY <1>0, <1>5 DEF Spawn
  <2> QED BY <1>2, <2>1, <2>2
<1>6. ASSUME NEW p \in Pids, Exit(p) PROVE EvidenceInv'
  <2>1. UNCHANGED <<evidence, imprint, nextId, ring, gen>>
    BY <1>6 DEF Exit, history, kernelVars
  <2> QED BY <1>2, <2>1
<1>7. CASE ToggleFile \/ DiskFills \/ MonitorPoll \/ Respond \/ Life
           \/ UNCHANGED vars
  <2>1. /\ UNCHANGED <<evidence, nextId, gen>> /\ imprint' \subseteq imprint
        /\ ring' = ring \/ ring' = <<>>
    BY <1>7 DEF ToggleFile, DiskFills, MonitorPoll, Respond, Freeze, ReadMaps,
       ReadMem, Package, Route, Life, PollError, ShutdownDone, Killed, Restart,
       DropRing, vars, history, hostVars, kernelVars
  <2> QED BY <1>2, <2>1
<1>8. CASE Host
  BY <1>5, <1>6, <1>7, <1>8 DEF Host
<1> QED BY <1>1, <1>3, <1>4, <1>7, <1>8 DEF Next

\* Grounds stay grounds.
LEMMA BlamedStays ==
    ASSUME evidence \subseteq evidence', NEW o, Blamed(o)
    PROVE  Blamed(o)'
<1>1. PICK e \in evidence : e.id = o.id /\ e.pid = o.pid /\ e.why \in Grounds(o.why)
  BY DEF Blamed
<1>2. \E d \in evidence' : d.id = o.id /\ d.pid = o.pid /\ d.why \in Grounds(o.why)
  BY <1>1
<1> QED BY <1>2 DEF Blamed, Grounds

\* A check that strikes leaves the order it is about to send with grounds.
LEMMA SendStep ==
    TypeOK /\ EvidenceInv /\ SendBlamed /\ [Next]_vars => SendBlamed'
<1> SUFFICES ASSUME TypeOK, EvidenceInv, SendBlamed, [Next]_vars, loop' = "send",
                    NEW o, o = Order(Rec)'
             PROVE  Blamed(o)'
  BY DEF SendBlamed
<1>0. evidence \subseteq evidence'
  BY EvidenceGrows
<1>1. CASE loop = "send"
  <2>1. why' = why
    BY <1>1 DEF Next, Hooks, Trip, Exec, Host, ToggleFile, DiskFills, Exit, Spawn,
       Callback, Bypass, LogEvent, CheckTrap, Yara, YaraMatch, YaraClean,
       CheckMock, CheckRansom, Send, RollbackEnds, Rollback, Return, Check, Goto,
       MonitorPoll, Respond, Freeze, ReadMaps, ReadMem, Package, Route, Life,
       PollError, ShutdownDone, Killed, Restart, DropRing, vars, loopVars
  <2>2. Rec' = Rec
    BY <1>1, RecordKept
  <2>3. o = Order(Rec)
    BY <2>1, <2>2 DEF Order
  <2> QED BY <1>0, <1>1, <2>3, BlamedStays DEF SendBlamed
<1>2. CASE loop # "send"
  <2>1. CheckTrap \/ YaraMatch \/ CheckMock \/ CheckRansom
    BY <1>2 DEF Next, Hooks, Trip, Exec, Host, ToggleFile, DiskFills, Exit, Spawn,
       Callback, Bypass, LogEvent, Yara, YaraClean, Send, RollbackEnds,
       Rollback, Return, Check, Goto, MonitorPoll, Respond, Freeze, ReadMaps,
       ReadMem, Package, Route, Life, PollError, ShutdownDone, Killed, Restart,
       DropRing, vars, loopVars
  <2>2. /\ ring' = ring /\ why' = why /\ loop # "poll"
        /\ \/ why = "trap" /\ FilenameIs(Rec, Traps)
           \/ why = "yara" /\ YaraMatch
           \/ why = "mock" /\ MockThreat(Rec)
           \/ why = "ransom" /\ Ransomware(Rec)
    BY <2>1 DEF CheckTrap, YaraMatch, CheckMock, CheckRansom, Check, Goto, Return,
       kernelVars
  <2>3. o.id = Rec.id /\ o.pid = Rec.pid /\ o.why = why
    BY <2>2 DEF Order, Rec
  <2>4. CASE why = "yara" /\ YaraMatch
    <3> DEFINE e == [id |-> Rec.id, pid |-> Rec.pid, gen |-> gen[Rec.pid],
                     why |-> "yara"]
    <3>1. /\ e \in evidence' /\ e.id = Rec.id /\ e.pid = Rec.pid
          /\ e.why \in Grounds(why)
      BY <2>4 DEF YaraMatch, Grounds
    <3> HIDE DEF e
    <3> QED BY <2>3, <3>1 DEF Blamed, Grounds
  <2>5. CASE \/ why = "trap" /\ FilenameIs(Rec, Traps)
             \/ why = "mock" /\ MockThreat(Rec)
             \/ why = "ransom" /\ Ransomware(Rec)
    <3>1. PICK r, w : r = Rec /\ w = why
      OBVIOUS
    <3>2. \E e \in Incriminates(r) :
              e.id = r.id /\ e.pid = r.pid /\ e.why \in Grounds(w)
      BY <2>5, <3>1, MatchBlames
    <3>3. Incriminates(r) \subseteq evidence
      <4>1. ring # <<>>
        BY <2>2 DEF TypeOK, AgentTyped
      <4> QED BY <3>1, <4>1, RecTyped DEF EvidenceInv, RingBlamed
    <3>4. Blamed(o)
      BY <2>3, <3>1, <3>2, <3>3 DEF Blamed
    <3> QED BY <1>0, <3>4, BlamedStays
  <2> QED BY <2>2, <2>4, <2>5
<1> QED BY <1>1, <1>2

\* A send appends the order in hand; the responder takes the oldest.
LEMMA OrdersStep ==
    TypeOK /\ EvidenceInv /\ OrdersInv /\ [Next]_vars => OrdersInv'
<1> SUFFICES ASSUME TypeOK, EvidenceInv, OrdersInv, [Next]_vars PROVE OrdersInv'
  OBVIOUS
<1>0. /\ evidence \subseteq evidence' /\ SendBlamed'
      /\ SendBlamed /\ ChanBlamed /\ FrozenBlamed
      /\ chan \in Seq(Orders)
  BY EvidenceGrows, SendStep DEF OrdersInv, TypeOK, AgentTyped
<1>f. ASSUME frozen' = frozen PROVE FrozenBlamed'
  <2>1. ASSUME NEW f \in frozen PROVE Blamed(f.order)'
    <3>1. PICK o : o = f.order
      OBVIOUS
    <3> QED BY <1>0, <3>1, BlamedStays DEF FrozenBlamed
  <2> QED BY <1>f, <2>1 DEF FrozenBlamed
<1>c. ASSUME \A i \in 1..Len(chan') : \E j \in 1..Len(chan) : chan'[i] = chan[j]
      PROVE  ChanBlamed'
  <2>1. ASSUME NEW i \in 1..Len(chan'), NEW o, o = chan'[i] PROVE Blamed(o)'
    <3>1. Blamed(o)
      BY <1>0, <1>c, <2>1 DEF ChanBlamed
    <3> QED BY <1>0, <3>1, BlamedStays
  <2> QED BY <2>1 DEF ChanBlamed, Blamed
<1>1. CASE Send
  <2>1. PICK o : o = Order(Rec)
    OBVIOUS
  <2>2. /\ frozen' = frozen /\ loop = "send"
        /\ chan' = chan \/ chan' = Append(chan, o)
    BY <1>1, <2>1 DEF Send, Dispatch
  <2>3. Blamed(o)
    BY <1>0, <2>1, <2>2 DEF SendBlamed
  <2>4. ChanBlamed'
    <3>1. CASE chan' = chan
      BY <1>c, <3>1
    <3>2. CASE chan' = Append(chan, o)
      <4>1. ASSUME NEW i \in 1..Len(chan'), NEW x, x = chan'[i] PROVE Blamed(x)'
        <5>1. CASE i \in 1..Len(chan)
          <6>1. x = chan[i]
            BY <1>0, <3>2, <4>1, <5>1
          <6> QED BY <1>0, <5>1, <6>1, BlamedStays DEF ChanBlamed
        <5>2. CASE i = Len(chan) + 1
          <6>1. x = o
            BY <1>0, <3>2, <4>1, <5>2
          <6> QED BY <1>0, <2>3, <6>1, BlamedStays
        <5> QED BY <1>0, <3>2, <4>1, <5>1, <5>2
      <4> QED BY <4>1 DEF ChanBlamed, Blamed
    <3> QED BY <2>2, <3>1, <3>2
  <2> QED BY <1>0, <1>f, <2>2, <2>4 DEF OrdersInv
<1>2. CASE Freeze
  <2>1. PICK o, g : o = Head(chan) /\ g = gen[o.pid]
    OBVIOUS
  <2>2. /\ chan # <<>> /\ chan' = Tail(chan)
        /\ frozen' = frozen \/ frozen' = frozen \cup {[order |-> o, gen |-> g]}
    BY <1>2, <2>1 DEF Freeze
  <2>3. /\ o = chan[1] /\ 1 \in 1..Len(chan)
        /\ \A i \in 1..Len(chan') : i + 1 \in 1..Len(chan) /\ chan'[i] = chan[i + 1]
    BY <1>0, <2>1, <2>2
  <2>4. ChanBlamed'
    BY <1>c, <2>3
  <2>5. FrozenBlamed'
    <3>1. Blamed(o)
      BY <1>0, <2>3 DEF ChanBlamed
    <3>2. ASSUME NEW f \in frozen', NEW x, x = f.order PROVE Blamed(x)'
      <4>1. CASE f \in frozen
        BY <1>0, <3>2, <4>1, BlamedStays DEF FrozenBlamed
      <4>2. CASE f = [order |-> o, gen |-> g]
        <5>1. x = o
          BY <3>2, <4>2
        <5> QED BY <1>0, <3>1, <5>1, BlamedStays
      <4> QED BY <2>2, <3>2, <4>1, <4>2
    <3> QED BY <3>2 DEF FrozenBlamed, Blamed
  <2> QED BY <1>0, <2>4, <2>5 DEF OrdersInv
<1>3. ASSUME ~Send, ~Freeze PROVE OrdersInv'
  <2>1. frozen' = frozen /\ (chan' = chan \/ chan' = <<>>)
    BY <1>3 DEF Next, Hooks, Trip, Exec, Host, ToggleFile, DiskFills, Exit, Spawn,
       Callback, Bypass, LogEvent, CheckTrap, Yara, YaraMatch, YaraClean,
       CheckMock, CheckRansom, RollbackEnds, Rollback, MonitorPoll, Respond,
       ReadMaps, ReadMem, Package, Route, Life, PollError, ShutdownDone, Killed,
       Restart, vars, history
  <2>2. ChanBlamed'
    <3>1. CASE chan' = chan
      BY <1>c, <3>1
    <3>2. CASE chan' = <<>>
      BY <3>2 DEF ChanBlamed
    <3> QED BY <2>1, <3>1, <3>2
  <2> QED BY <1>0, <1>f, <2>1, <2>2 DEF OrdersInv
<1> QED BY <1>1, <1>2, <1>3

\* A process is stopped by a hook it tripped, or by the responder.
LEMMA StopsStep ==
    TypeOK /\ EvidenceInv /\ Stops /\ [Next]_vars => Stops'
<1> SUFFICES ASSUME TypeOK, EvidenceInv, Stops, [Next]_vars,
                    NEW p \in Pids, proc'[p] = "stopped"
             PROVE  HookStopped(p)' \/ FrozenNow(p)'
  BY DEF Stops
<1>0. /\ evidence \subseteq evidence' /\ gen \in [Pids -> 1..MaxGen]
      /\ proc \in [Pids -> {"running", "stopped", "gone"}]
  BY EvidenceGrows DEF TypeOK, HostTyped
<1>1. ASSUME proc[p] = "stopped", gen'[p] = gen[p], frozen \subseteq frozen'
      PROVE  HookStopped(p)' \/ FrozenNow(p)'
  <2>1. HookStopped(p) \/ FrozenNow(p)
    BY <1>1 DEF Stops
  <2> QED BY <1>0, <1>1, <2>1 DEF HookStopped, FrozenNow
<1>2. ASSUME NEW q \in Pids, NEW k \in Kinds, NEW c \in Comms, Trip(q, k, c)
      PROVE  HookStopped(p)' \/ FrozenNow(p)'
  <2>1. gen' = gen /\ frozen' = frozen
    BY <1>2 DEF Trip
  <2>2. CASE p = q
    <3>1. \E e \in evidence' : e.pid = p /\ e.gen = gen[p] /\ e.why = "trap"
      BY <1>2, <2>1, <2>2, SubmitSound, Parameters DEF Trip
    <3> QED BY <2>1, <3>1 DEF HookStopped
  <2>3. CASE p # q
    <3>1. proc[p] = "stopped"
      BY <1>0, <1>2, <2>3 DEF Trip
    <3> QED BY <1>1, <2>1, <3>1
  <2> QED BY <2>2, <2>3
<1>3. CASE Freeze
  <2>1. PICK o, g : o = Head(chan) /\ g = gen[o.pid]
    OBVIOUS
  <2>2. /\ gen' = gen /\ frozen \subseteq frozen'
        /\ \/ proc' = proc
           \/ /\ proc' = [proc EXCEPT ![o.pid] = "stopped"]
              /\ [order |-> o, gen |-> g] \in frozen'
    BY <1>3, <2>1 DEF Freeze
  <2>3. CASE proc[p] = "stopped"
    BY <1>1, <2>2, <2>3
  <2>4. CASE proc[p] # "stopped"
    <3>1. p = o.pid /\ [order |-> o, gen |-> g] \in frozen'
      BY <1>0, <2>2, <2>4
    <3> DEFINE f == [order |-> o, gen |-> g]
    <3>2. f \in frozen' /\ f.order.pid = p /\ f.gen = gen'[p]
      BY <2>1, <2>2, <3>1
    <3> QED BY <3>2 DEF FrozenNow
  <2> QED BY <2>3, <2>4
<1>4. ASSUME NEW q \in Pids, Spawn(q) PROVE HookStopped(p)' \/ FrozenNow(p)'
  <2>1. p # q /\ proc[p] = "stopped" /\ gen'[p] = gen[p] /\ frozen' = frozen
    BY <1>0, <1>4 DEF Spawn, history
  <2> QED BY <1>1, <2>1
<1>5. ASSUME NEW q \in Pids, Exit(q) PROVE HookStopped(p)' \/ FrozenNow(p)'
  <2>1. proc[p] = "stopped" /\ gen'[p] = gen[p] /\ frozen' = frozen
    BY <1>0, <1>5 DEF Exit, history
  <2> QED BY <1>1, <2>1
<1>6. ASSUME NEW q \in Pids, NEW f \in Paths, NEW c \in Comms, Exec(q, f, c)
      PROVE  HookStopped(p)' \/ FrozenNow(p)'
  BY <1>1, <1>6 DEF Exec, hostVars
<1>7. CASE \/ ToggleFile \/ DiskFills \/ Callback \/ MonitorPoll \/ ReadMaps
           \/ ReadMem \/ Package \/ Route \/ Life \/ UNCHANGED vars
  <2>1. UNCHANGED <<proc, gen, frozen>>
    BY <1>7 DEF ToggleFile, DiskFills, Callback, Bypass, LogEvent, CheckTrap, Yara,
       YaraMatch, YaraClean, CheckMock, CheckRansom, Send, RollbackEnds, Rollback,
       MonitorPoll, ReadMaps, ReadMem, Package, Route, Life, PollError,
       ShutdownDone, Killed, Restart, vars, history, hostVars
  <2> QED BY <1>1, <2>1
<1>8. CASE Hooks
  BY <1>2, <1>6, <1>8 DEF Hooks
<1>9. CASE Host
  BY <1>4, <1>5, <1>7, <1>9 DEF Host
<1>10. CASE Respond
  BY <1>3, <1>7, <1>10 DEF Respond
<1> QED BY <1>7, <1>8, <1>9, <1>10 DEF Next

\* The strengthening gives the property: the order of a process frozen by the
\* responder has grounds, and those are of this process or of an earlier one.
LEMMA JustifiedStops == Justified => StopJustified
<1> SUFFICES ASSUME Justified, NEW p \in Pids, proc[p] = "stopped"
             PROVE  HookStopped(p) \/ OrderStopped(p)
  BY DEF StopJustified
<1>1. HookStopped(p) \/ FrozenNow(p)
  BY DEF Justified, Stops
<1>2. ASSUME FrozenNow(p) PROVE OrderStopped(p)
  <2>1. PICK f \in frozen : f.order.pid = p /\ f.gen = gen[p]
    BY <1>2 DEF FrozenNow
  <2>2. PICK e \in evidence : /\ e.id = f.order.id /\ e.pid = f.order.pid
                              /\ e.why \in Grounds(f.order.why)
    BY <2>1 DEF Justified, OrdersInv, FrozenBlamed, Blamed
  <2>3. e.gen <= gen[p] /\ Sound(e)
    BY <2>1, <2>2 DEF Justified, EvidenceInv, EvidencePast, EvidenceSound
  <2> QED BY <2>1, <2>2, <2>3 DEF OrderStopped
<1> QED BY <1>1, <1>2

\* No process is ever stopped unless it tripped a trap itself or the responder
\* carried out an order that has grounds for its own reason, in its own record,
\* against the PID.
THEOREM StopsJustified == Spec => []StopJustified
<1>1. Init => Justified
  <2> SUFFICES ASSUME Init PROVE Justified
    OBVIOUS
  <2>1. TypeOK
    BY AgentTypeInit
  <2>2. EvidenceInv /\ OrdersInv /\ Stops
    BY DEF Init, EvidenceInv, EvidencePast, EvidenceSound, ImprintSound,
       RingBlamed, OrdersInv, SendBlamed, ChanBlamed, FrozenBlamed, Stops
  <2> QED BY <2>1, <2>2 DEF Justified
<1>2. Justified /\ [Next]_vars => Justified'
  BY AgentTypeStep, EvidenceStep, OrdersStep, StopsStep DEF Justified
<1> QED BY <1>1, <1>2, JustifiedStops, PTL DEF Spec

-----------------------------------------------------------------------------
(***************************************************************************)
(* Write-ahead.                                                            *)
(***************************************************************************)
Recorded(o) == <<o.id, "event">> \in wal /\ <<o.id, o.why>> \in wal
RollbackRecorded(i) ==
    <<i, "event">> \in wal /\ <<i, "ransom">> \in wal /\ <<i, "rollback">> \in wal

\* Inside the callback the event of the record is in the log; between an action
\* and its send, and during a rollback, the lines of the action are too.  The
\* orders that wait, those carried out and the rollbacks have all of theirs.
EventLogged == loop # "poll" => <<Rec.id, "event">> \in wal
ActionLogged ==
    /\ loop \in {"send", "rollback"} =>
          /\ <<Rec.id, why>> \in wal
          /\ why = "ransom" => <<Rec.id, "rollback">> \in wal
    /\ loop = "rollback" => why = "ransom"
OrdersLogged == \A i \in 1..Len(chan) : Recorded(chan[i])
FrozenLogged == \A f \in frozen : Recorded(f.order)
RolledLogged == \A i \in rolled : RollbackRecorded(i)
WalInv == disk = "ok" => /\ EventLogged /\ ActionLogged /\ OrdersLogged
                         /\ FrozenLogged /\ RolledLogged

\* WriteAhead is what WalInv says of the orders and the rollbacks.
LEMMA WalWritesAhead == WalInv => WriteAhead
<1> SUFFICES ASSUME WalInv, disk = "ok" PROVE WriteAhead
  BY DEF WriteAhead
<1>1. ASSUME NEW o \in OrdersOut PROVE Recorded(o)
  BY <1>1 DEF WalInv, OrdersOut, OrdersLogged, FrozenLogged
<1>2. ASSUME NEW i \in RollbacksOut PROVE RollbackRecorded(i)
  <2>1. CASE i \in rolled
    BY <2>1 DEF WalInv, RolledLogged
  <2>2. CASE i \notin rolled
    <3>1. loop = "rollback" /\ i = Rec.id
      BY <1>2, <2>2 DEF RollbacksOut
    <3> QED BY <3>1 DEF WalInv, EventLogged, ActionLogged, RollbackRecorded
  <2> QED BY <2>1, <2>2
<1> QED BY <1>1, <1>2 DEF WriteAhead, Recorded, RollbackRecorded

\* Nothing is taken out of the log.
LEMMA WalGrows == [Next]_vars => wal \subseteq wal' /\ (disk' = "ok" => disk = "ok")
BY DEF Next, Hooks, Trip, Exec, Host, ToggleFile, DiskFills, Exit, Spawn,
   Callback, Bypass, LogEvent, CheckTrap, Yara, YaraMatch, YaraClean, CheckMock,
   CheckRansom, Send, RollbackEnds, Rollback, Logged, MonitorPoll, Respond, Freeze,
   ReadMaps, ReadMem, Package, Route, Life, PollError, ShutdownDone, Killed,
   Restart, vars, hostVars, walVars

\* The lines of the record the callback is at.
LEMMA InHandLogged ==
    ASSUME TypeOK, [Next]_vars, disk = "ok", EventLogged, ActionLogged
    PROVE  EventLogged' /\ ActionLogged'
<1>0. wal \subseteq wal'
  BY WalGrows
<1>1. CASE loop' = "poll"
  BY <1>1 DEF EventLogged, ActionLogged
<1>2. CASE loop = "poll" /\ loop' # "poll"
  <2>1. LogEvent
    BY <1>2 DEF Next, Hooks, Trip, Exec, Host, ToggleFile, DiskFills, Exit, Spawn,
       Callback, Bypass, CheckTrap, Yara, YaraMatch, YaraClean, CheckMock,
       CheckRansom, Send, RollbackEnds, Rollback, Return, MonitorPoll, Respond,
       Freeze, ReadMaps, ReadMem, Package, Route, Life, PollError, ShutdownDone,
       Killed, Restart, DropRing, vars, loopVars
  <2>2. ring' = ring /\ loop' = "check" /\ <<Rec.id, "event">> \in wal'
    BY <2>1 DEF LogEvent, Check, Logged, kernelVars
  <2> QED BY <2>2 DEF EventLogged, ActionLogged, Rec
<1>3. CASE loop # "poll" /\ loop' # "poll"
  <2>1. Rec' = Rec
    BY <1>3, RecordKept
  <2>2. EventLogged'
    BY <1>0, <1>3, <2>1 DEF EventLogged
  <2>3. CASE Callback
    <3>1. /\ loop' \in {"send", "rollback"} =>
               /\ <<Rec.id, why'>> \in wal'
               /\ why' = "ransom" => <<Rec.id, "rollback">> \in wal'
          /\ loop' = "rollback" => why' = "ransom"
      <4>1. CASE CheckTrap \/ YaraMatch \/ CheckMock \/ CheckRansom
        BY <1>3, <4>1 DEF CheckTrap, YaraMatch, CheckMock, CheckRansom, Check, Goto,
           Return, Logged
      <4>2. CASE Send
        BY <1>0, <4>2 DEF Send, Check, Goto, ActionLogged
      <4>3. CASE Bypass \/ LogEvent \/ YaraClean \/ RollbackEnds
        BY <1>3, <4>3 DEF Bypass, LogEvent, YaraClean, RollbackEnds, Rollback,
           Return, Check
      <4> QED BY <2>3, <4>1, <4>2, <4>3 DEF Callback, Yara
    <3> QED BY <2>1, <2>2, <3>1 DEF ActionLogged
  <2>4. CASE ~Callback
    <3>1. loop' = loop /\ why' = why
      BY <1>3, <2>4 DEF Next, Hooks, Trip, Exec, Host, ToggleFile, DiskFills, Exit,
         Spawn, MonitorPoll, Respond, Freeze, ReadMaps, ReadMem, Package, Route,
         Life, PollError, ShutdownDone, Killed, Restart, DropRing, vars, loopVars
    <3> QED BY <1>0, <2>1, <2>2, <3>1 DEF ActionLogged
  <2> QED BY <2>2, <2>3, <2>4
<1> QED BY <1>1, <1>2, <1>3

\* An order's lines stay in the log.
LEMMA RecordedStays ==
    ASSUME wal \subseteq wal', NEW o, Recorded(o)
    PROVE  Recorded(o)'
BY DEF Recorded

\* The lines come before the order, and the responder carries out only orders.
LEMMA WalStep == TypeOK /\ WalInv /\ [Next]_vars => WalInv'
<1> SUFFICES ASSUME TypeOK, WalInv, [Next]_vars, disk' = "ok"
             PROVE  /\ EventLogged' /\ ActionLogged' /\ OrdersLogged'
                    /\ FrozenLogged' /\ RolledLogged'
  BY DEF WalInv
<1>0. disk = "ok" /\ wal \subseteq wal' /\ chan \in Seq(Orders)
  BY WalGrows DEF TypeOK, AgentTyped
<1>1. /\ EventLogged /\ ActionLogged /\ OrdersLogged /\ FrozenLogged
      /\ RolledLogged
  BY <1>0 DEF WalInv
<1>2. EventLogged' /\ ActionLogged'
  BY <1>0, <1>1, InHandLogged
<1>f. ASSUME frozen' = frozen PROVE FrozenLogged'
  BY <1>0, <1>1, <1>f DEF FrozenLogged, Recorded
<1>r. ASSUME rolled' = rolled PROVE RolledLogged'
  BY <1>0, <1>1, <1>r DEF RolledLogged, RollbackRecorded
<1>c. ASSUME \A i \in 1..Len(chan') : \E j \in 1..Len(chan) : chan'[i] = chan[j]
      PROVE  OrdersLogged'
  <2>1. ASSUME NEW i \in 1..Len(chan'), NEW o, o = chan'[i] PROVE Recorded(o)'
    <3>1. Recorded(o)
      BY <1>1, <1>c, <2>1 DEF OrdersLogged
    <3> QED BY <1>0, <3>1, RecordedStays
  <2> QED BY <2>1 DEF OrdersLogged, Recorded
<1>3. CASE Send
  <2>1. PICK o : o = Order(Rec)
    OBVIOUS
  <2>2. /\ UNCHANGED <<frozen, rolled>> /\ loop = "send"
        /\ chan' = chan \/ chan' = Append(chan, o)
    BY <1>3, <2>1 DEF Send, Dispatch
  <2>3. Recorded(o)
    BY <1>1, <2>1, <2>2 DEF Recorded, Order, EventLogged, ActionLogged
  <2>4. OrdersLogged'
    <3>1. CASE chan' = chan
      BY <1>c, <3>1
    <3>2. CASE chan' = Append(chan, o)
      <4>1. ASSUME NEW i \in 1..Len(chan'), NEW x, x = chan'[i] PROVE Recorded(x)'
        <5>1. CASE i \in 1..Len(chan)
          <6>1. x = chan[i]
            BY <1>0, <3>2, <4>1, <5>1
          <6> QED BY <1>0, <1>1, <5>1, <6>1, RecordedStays DEF OrdersLogged
        <5>2. CASE i = Len(chan) + 1
          <6>1. x = o
            BY <1>0, <3>2, <4>1, <5>2
          <6> QED BY <1>0, <2>3, <6>1, RecordedStays
        <5> QED BY <1>0, <3>2, <4>1, <5>1, <5>2
      <4> QED BY <4>1 DEF OrdersLogged, Recorded
    <3> QED BY <2>2, <3>1, <3>2
  <2> QED BY <1>2, <1>f, <1>r, <2>2, <2>4
<1>4. CASE Freeze
  <2>1. PICK o, g : o = Head(chan) /\ g = gen[o.pid]
    OBVIOUS
  <2>2. /\ chan # <<>> /\ chan' = Tail(chan) /\ rolled' = rolled
        /\ frozen' = frozen \/ frozen' = frozen \cup {[order |-> o, gen |-> g]}
    BY <1>4, <2>1 DEF Freeze
  <2>3. /\ o = chan[1] /\ 1 \in 1..Len(chan)
        /\ \A i \in 1..Len(chan') : i + 1 \in 1..Len(chan) /\ chan'[i] = chan[i + 1]
    BY <1>0, <2>1, <2>2
  <2>4. OrdersLogged'
    BY <1>c, <2>3
  <2>5. FrozenLogged'
    <3>1. Recorded(o)
      BY <1>1, <2>3 DEF OrdersLogged
    <3>2. ASSUME NEW f \in frozen', NEW x, x = f.order PROVE Recorded(x)'
      <4>1. CASE f \in frozen
        BY <1>0, <1>1, <3>2, <4>1, RecordedStays DEF FrozenLogged
      <4>2. CASE f = [order |-> o, gen |-> g]
        <5>1. x = o
          BY <3>2, <4>2
        <5> QED BY <1>0, <3>1, <5>1, RecordedStays
      <4> QED BY <2>2, <3>2, <4>1, <4>2
    <3> QED BY <3>2 DEF FrozenLogged, Recorded
  <2> QED BY <1>2, <1>r, <2>2, <2>4, <2>5
<1>5. CASE RollbackEnds
  <2>1. /\ UNCHANGED <<frozen, chan>> /\ loop = "rollback"
        /\ rolled' \subseteq rolled \cup {Rec.id}
    BY <1>5 DEF RollbackEnds, Rollback
  <2>2. RollbackRecorded(Rec.id)
    BY <1>1, <2>1 DEF EventLogged, ActionLogged, RollbackRecorded
  <2>3. RolledLogged'
    <3>1. ASSUME NEW i \in rolled' PROVE RollbackRecorded(i)
      BY <1>1, <2>1, <2>2, <3>1 DEF RolledLogged
    <3> QED BY <1>0, <3>1 DEF RolledLogged, RollbackRecorded
  <2> QED BY <1>2, <1>c, <1>f, <2>1, <2>3
<1>6. ASSUME ~Send, ~Freeze, ~RollbackEnds
      PROVE  OrdersLogged' /\ FrozenLogged' /\ RolledLogged'
  <2>1. UNCHANGED <<frozen, rolled>> /\ (chan' = chan \/ chan' = <<>>)
    BY <1>6 DEF Next, Hooks, Trip, Exec, Host, ToggleFile, DiskFills, Exit, Spawn,
       Callback, Bypass, LogEvent, CheckTrap, Yara, YaraMatch, YaraClean,
       CheckMock, CheckRansom, MonitorPoll, Respond, ReadMaps, ReadMem, Package,
       Route, Life, PollError, ShutdownDone, Killed, Restart, vars, history
  <2>2. OrdersLogged'
    <3>1. CASE chan' = chan
      BY <1>c, <3>1
    <3>2. CASE chan' = <<>>
      BY <3>2 DEF OrdersLogged
    <3> QED BY <2>1, <3>1, <3>2
  <2> QED BY <1>f, <1>r, <2>1, <2>2
<1> QED BY <1>2, <1>3, <1>4, <1>5, <1>6

\* As long as the disk takes writes, no order is queued, none carried out and
\* no data set rolled back before the event and the action of that very record
\* are in the log, whatever the responder does between the append and the send.
THEOREM OrdersWrittenAhead == Spec => []WriteAhead
<1>1. Init => TypeOK /\ WalInv
  BY AgentTypeInit DEF Init, WalInv, EventLogged, ActionLogged, OrdersLogged,
     FrozenLogged, RolledLogged
<1>2. TypeOK /\ WalInv /\ [Next]_vars => TypeOK' /\ WalInv'
  BY AgentTypeStep, WalStep
<1> QED BY <1>1, <1>2, WalWritesAhead, PTL DEF Spec

-----------------------------------------------------------------------------
(***************************************************************************)
(* What the responder freezes, it carves.                                  *)
(***************************************************************************)
Carving(p) == resp.at \in {"maps", "mem", "package"} /\ resp.pid = p
Living(f) == gen[f.order.pid] = f.gen /\ proc[f.order.pid] # "gone"

\* The layout and the memory the responder has read so far of a PID are those
\* of the process it froze, if that one still lives; a PID never returns to a
\* process that is gone.
ReadsFrozen ==
    \A f \in frozen :
        Living(f) =>
            /\ resp.at \in {"mem", "package"} /\ resp.pid = f.order.pid
                  => resp.maps = f.gen
            /\ resp.at = "package" /\ resp.pid = f.order.pid => resp.mem = f.gen
FrozenPast == \A f \in frozen : f.gen <= gen[f.order.pid]
Whole(f) == [pid |-> f.order.pid, maps |-> f.gen, mem |-> f.gen, regs |-> f.gen]
CarveInv == ReadsFrozen /\ FrozenPast /\ FrozenIsCarved

\* FrozenIsCarved, process by process.
CarvedOrNot(f) ==
    (/\ disk = "ok" /\ crashes = 0 /\ f.order.pid \notin Opaque
     /\ Living(f) /\ ~Carving(f.order.pid))
    => Whole(f) \in blobs

\* Nothing but a change of notation.
LEMMA CarvedEach == FrozenIsCarved <=> \A f \in frozen : CarvedOrNot(f)
BY DEF FrozenIsCarved, CarvedOrNot, Living, Carving, Whole

\* A frozen process keeps its PID until it dies, so the reads of one carve are
\* all of it; a blob once written stays.
LEMMA CarveStep == TypeOK /\ CarveInv /\ [Next]_vars => CarveInv'
<1> SUFFICES ASSUME TypeOK, CarveInv, [Next]_vars PROVE CarveInv'
  OBVIOUS
<1>0. /\ ReadsFrozen /\ FrozenPast /\ \A f \in frozen : CarvedOrNot(f)
      /\ proc \in [Pids -> {"running", "stopped", "gone"}]
      /\ gen \in [Pids -> 1..MaxGen] /\ crashes \in Nat
      /\ frozen \subseteq [order: Orders, gen: 1..MaxGen]
  BY CarvedEach, Parameters DEF CarveInv, TypeOK, HostTyped, HistoryTyped,
     AgentTyped
<1>1. \A f \in frozen : f.order.pid \in Pids /\ f.gen \in Nat /\ gen[f.order.pid] \in Nat
  BY <1>0, Parameters DEF Orders
<1>e. (\A f \in frozen' : CarvedOrNot(f)') => FrozenIsCarved'
  BY DEF FrozenIsCarved, CarvedOrNot, Living, Carving, Whole
\* Steps that leave the responder's task alone, or drop it with the agent.
<1>2. ASSUME UNCHANGED <<resp, frozen, blobs>>,
             \A f \in frozen : Living(f)' => Living(f),
             \A f \in frozen : f.gen <= gen'[f.order.pid],
             disk' = "ok" => disk = "ok", crashes' = 0 => crashes = 0
      PROVE  CarveInv'
  <2>1. ReadsFrozen' /\ FrozenPast'
    BY <1>0, <1>2 DEF ReadsFrozen, FrozenPast, Living
  <2>2. \A f \in frozen' : CarvedOrNot(f)'
    BY <1>0, <1>2 DEF CarvedOrNot, Living, Carving, Whole
  <2> QED BY <1>e, <2>1, <2>2 DEF CarveInv
<1>3. CASE Hooks
  <2>1. /\ UNCHANGED <<resp, frozen, blobs, gen, disk, crashes>>
        /\ \A q \in Pids : proc'[q] # "gone" => proc[q] # "gone"
    BY <1>0, <1>3 DEF Hooks, Trip, Exec, hostVars, blobVars, lifeVars
  <2>2. \A f \in frozen : (Living(f)' => Living(f)) /\ f.gen <= gen'[f.order.pid]
    BY <1>0, <1>1, <2>1 DEF Living, FrozenPast
  <2> QED BY <1>2, <2>1, <2>2
<1>4. ASSUME NEW p \in Pids, Exit(p) \/ Spawn(p) PROVE CarveInv'
  <2>1. UNCHANGED <<resp, frozen, blobs, disk, crashes>>
    BY <1>4 DEF Exit, Spawn, history, blobVars, lifeVars
  <2>2. ASSUME NEW f \in frozen
        PROVE  (Living(f)' => Living(f)) /\ f.gen <= gen'[f.order.pid]
    <3>1. /\ f.order.pid \in Pids /\ f.gen \in Nat /\ gen[f.order.pid] \in Nat
          /\ f.gen <= gen[f.order.pid]
      BY <1>0, <1>1 DEF FrozenPast
    <3>2. CASE Exit(p)
      BY <1>0, <3>1, <3>2 DEF Exit, Living
    <3>3. CASE Spawn(p)
      BY <1>0, <3>1, <3>3 DEF Spawn, Living
    <3> QED BY <1>4, <3>2, <3>3
  <2> QED BY <1>2, <2>1, <2>2
<1>5. CASE \/ ToggleFile \/ DiskFills \/ MonitorPoll \/ Callback \/ PollError
           \/ ShutdownDone \/ Restart \/ UNCHANGED vars
  <2>1. UNCHANGED <<resp, frozen, blobs, proc, gen>>
    BY <1>5 DEF ToggleFile, DiskFills, MonitorPoll, Callback, Bypass, CheckTrap,
       LogEvent, Yara, YaraMatch, YaraClean, CheckMock, CheckRansom, Send,
       RollbackEnds, Rollback,
       PollError, ShutdownDone, Restart, vars, history, blobVars, hostVars
  <2>2. disk' = "ok" => disk = "ok"
    BY <1>5 DEF ToggleFile, DiskFills, MonitorPoll, Callback, Bypass, CheckTrap,
       LogEvent, Yara, YaraMatch, YaraClean, CheckMock, CheckRansom, Send,
       RollbackEnds, Rollback,
       PollError, ShutdownDone, Restart, vars, hostVars
  <2>3. crashes' = crashes \/ crashes' = crashes + 1
    BY <1>5 DEF ToggleFile, DiskFills, MonitorPoll, Callback, Bypass, CheckTrap,
       LogEvent, Yara, YaraMatch, YaraClean, CheckMock, CheckRansom, Send,
       RollbackEnds, Rollback,
       PollError, ShutdownDone, Restart, vars, lifeVars
  <2>4. \A f \in frozen : (Living(f)' => Living(f)) /\ f.gen <= gen'[f.order.pid]
    BY <1>0, <2>1 DEF Living, FrozenPast
  <2> QED BY <1>0, <1>2, <2>1, <2>2, <2>3, <2>4
<1>6. CASE Killed
  <2>1. /\ UNCHANGED <<frozen, blobs, proc, gen>> /\ resp'.at = "idle"
        /\ crashes' = crashes + 1
    BY <1>6 DEF Killed, hostVars, blobVars, Idle
  <2>2. ReadsFrozen' /\ FrozenPast'
    BY <1>0, <2>1 DEF ReadsFrozen, FrozenPast
  <2>3. \A f \in frozen' : CarvedOrNot(f)'
    BY <1>0, <2>1 DEF CarvedOrNot
  <2> QED BY <1>e, <2>2, <2>3 DEF CarveInv
<1>7. CASE Freeze
  <2>0. PICK o, q, g : o = Head(chan) /\ q = o.pid /\ g = gen[q]
    OBVIOUS
  <2>1. q \in Pids
    <3>1. chan \in Seq(Orders) /\ chan # <<>>
      BY <1>7 DEF Freeze, TypeOK, AgentTyped
    <3>2. Head(chan) \in Orders
      BY <3>1
    <3> QED BY <2>0, <3>2 DEF Orders
  <2>2. UNCHANGED <<gen, disk, crashes, blobs>> /\ resp.at = "idle"
    BY <1>7 DEF Freeze, blobVars, lifeVars
  <2>3. CASE ~Signalled(q)
    <3>1. UNCHANGED <<proc, frozen, resp>>
      BY <1>7, <2>0, <2>3 DEF Freeze
    <3>2. \A f \in frozen : (Living(f)' => Living(f)) /\ f.gen <= gen'[f.order.pid]
      BY <1>0, <2>2, <3>1 DEF Living, FrozenPast
    <3> QED BY <1>2, <2>2, <3>1, <3>2
  <2>4. CASE Signalled(q)
    <3>1. /\ proc' = [proc EXCEPT ![q] = "stopped"] /\ proc[q] # "gone"
          /\ frozen' = frozen \cup {[order |-> o, gen |-> g]}
          /\ resp'.at = "maps" /\ resp'.pid = q
      BY <1>7, <2>0, <2>4 DEF Freeze, Signalled
    <3>2. \A f \in frozen' : \/ f \in frozen
                             \/ f.order.pid = q /\ f.gen = gen[q]
      BY <2>0, <3>1
    <3>3. ReadsFrozen'
      BY <3>1 DEF ReadsFrozen
    <3>4. FrozenPast'
      BY <1>0, <2>1, <2>2, <3>2, Parameters DEF FrozenPast
    <3>5. ASSUME NEW f \in frozen' PROVE CarvedOrNot(f)'
      <4>1. CASE f.order.pid = q
        BY <3>1, <4>1 DEF CarvedOrNot, Carving
      <4>2. CASE f.order.pid # q
        <5>1. f \in frozen /\ f.order.pid \in Pids
          BY <1>1, <3>2, <3>5, <4>2
        <5>2. proc'[f.order.pid] = proc[f.order.pid]
          BY <1>0, <2>1, <3>1, <4>2, <5>1
        <5>3. CarvedOrNot(f) /\ ~Carving(f.order.pid)
          BY <1>0, <2>2, <5>1 DEF Carving
        <5> QED BY <2>2, <5>2, <5>3 DEF CarvedOrNot, Living, Whole
      <4> QED BY <4>1, <4>2
    <3> QED BY <1>e, <3>3, <3>4, <3>5 DEF CarveInv
  <2> QED BY <2>3, <2>4
\* The responder goes on: either it has read the process that has the PID now,
\* or there is none.
<1>8. ASSUME UNCHANGED <<proc, gen, frozen, disk, crashes>>, blobs \subseteq blobs',
             ReadsFrozen',
             \A f \in frozen : Carving(f.order.pid) =>
                 \/ Carving(f.order.pid)' \/ ~Living(f) \/ disk # "ok"
                 \/ f.order.pid \in Opaque \/ Whole(f) \in blobs'
      PROVE  CarveInv'
  <2>1. FrozenPast'
    BY <1>0, <1>8 DEF FrozenPast
  <2>2. ASSUME NEW f \in frozen' PROVE CarvedOrNot(f)'
    <3>1. f \in frozen /\ CarvedOrNot(f)
      BY <1>0, <1>8
    <3> QED BY <1>8, <3>1 DEF CarvedOrNot, Living, Whole
  <2> QED BY <1>8, <1>e, <2>1, <2>2 DEF CarveInv
<1>9. CASE ReadMaps
  <2>1. /\ UNCHANGED <<proc, gen, frozen, disk, crashes, blobs>> /\ resp.at = "maps"
        /\ \/ proc[resp.pid] = "gone" /\ resp'.at = "idle"
           \/ resp.pid \in Opaque /\ resp'.at = "idle"
           \/ resp'.at = "mem" /\ resp'.pid = resp.pid /\ resp'.maps = gen[resp.pid]
    BY <1>9 DEF ReadMaps, hostVars, history, blobVars, lifeVars, Idle
  <2>2. ReadsFrozen'
    BY <2>1 DEF ReadsFrozen, Living
  <2>3. \A f \in frozen : Carving(f.order.pid) =>
            Carving(f.order.pid)' \/ ~Living(f) \/ f.order.pid \in Opaque
    BY <2>1 DEF Carving, Living
  <2> QED BY <1>8, <2>1, <2>2, <2>3
<1>10. CASE ReadMem
  <2>1. /\ UNCHANGED <<proc, gen, frozen, disk, crashes, blobs>> /\ resp.at = "mem"
        /\ \/ proc[resp.pid] = "gone" /\ resp'.at = "idle"
           \/ /\ resp'.at = "package" /\ resp'.pid = resp.pid
              /\ resp'.maps = resp.maps /\ resp'.mem = gen[resp.pid]
    BY <1>10 DEF ReadMem, hostVars, history, blobVars, lifeVars, Idle
  <2>2. ReadsFrozen'
    BY <1>0, <2>1 DEF ReadsFrozen, Living
  <2>3. \A f \in frozen : Carving(f.order.pid) => Carving(f.order.pid)' \/ ~Living(f)
    BY <2>1 DEF Carving, Living
  <2> QED BY <1>8, <2>1, <2>2, <2>3
<1>11. CASE Package
  <2> DEFINE b == [pid |-> resp.pid, maps |-> resp.maps, mem |-> resp.mem,
                   regs |-> IF proc[resp.pid] = "gone" THEN 0 ELSE gen[resp.pid]]
  <2>1. /\ UNCHANGED <<proc, gen, frozen, disk, crashes>> /\ resp.at = "package"
        /\ \/ blobs' = blobs \cup {b} /\ resp'.at = "route"
           \/ blobs' = blobs /\ disk = "full" /\ resp'.at = "idle"
    BY <1>11 DEF Package, hostVars, history, lifeVars, Idle
  <2>2. ReadsFrozen'
    BY <2>1 DEF ReadsFrozen
  <2>3. ASSUME NEW f \in frozen, Carving(f.order.pid), Living(f), disk = "ok"
        PROVE  Whole(f) \in blobs'
    <3>1. resp.pid = f.order.pid /\ resp.maps = f.gen /\ resp.mem = f.gen
      BY <1>0, <2>1, <2>3 DEF ReadsFrozen, Carving
    <3>2. b = Whole(f)
      BY <2>3, <3>1 DEF Whole, Living
    <3> QED BY <2>1, <2>3, <3>2
  <2>4. blobs \subseteq blobs'
    BY <2>1
  <2> QED BY <1>8, <2>1, <2>2, <2>3, <2>4
<1>12. CASE Route
  <2>1. /\ UNCHANGED <<proc, gen, frozen, disk, crashes, blobs>> /\ resp.at = "route"
        /\ resp'.at = "idle"
    BY <1>12 DEF Route, hostVars, history, lifeVars, Idle
  <2>2. ReadsFrozen' /\ \A f \in frozen : ~Carving(f.order.pid)
    BY <2>1 DEF ReadsFrozen, Carving
  <2> QED BY <1>8, <2>1, <2>2
<1>13. CASE Host
  BY <1>4, <1>5, <1>13 DEF Host
<1>14. CASE Respond
  BY <1>7, <1>9, <1>10, <1>11, <1>12, <1>14 DEF Respond
<1>15. CASE Life
  BY <1>5, <1>6, <1>15 DEF Life
<1> QED BY <1>3, <1>5, <1>13, <1>14, <1>15 DEF Next

\* With a disk that takes writes and an agent that stays alive, a process that
\* the responder froze and left alive has been carved whole, if its maps can be
\* read at all: PID reuse never mixes the layout, the memory and the registers
\* of two processes in its blob.
THEOREM FrozenCarved == Spec => []FrozenIsCarved
<1>1. Init => TypeOK /\ CarveInv
  BY AgentTypeInit DEF Init, CarveInv, ReadsFrozen, FrozenPast, FrozenIsCarved
<1>2. TypeOK /\ CarveInv /\ [Next]_vars => TypeOK' /\ CarveInv'
  BY AgentTypeStep, CarveStep
<1>3. CarveInv => FrozenIsCarved
  BY DEF CarveInv
<1> QED BY <1>1, <1>2, <1>3, PTL DEF Spec

=============================================================================

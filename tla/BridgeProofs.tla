---------------------------- MODULE BridgeProofs ----------------------------
(***************************************************************************)
(* Proofs about the Proxmox bridge, for every set of slots, every delay    *)
(* and any number of routes, failures and restarts.                        *)
(***************************************************************************)
EXTENDS Bridge, TLAPS

\* What the responder knows in each step of a route.
LEMMA InRoute ==
    ASSUME TypeOK
    PROVE  /\ resp.at \in {"write", "scan", "plug"} =>
                  resp.vol \in Names /\ resp # Idle
           /\ resp.at = "plug" => resp.slot \in Slots
           /\ resp # Idle => resp.vol \in Names
<1>1. resp \in RespStates
  BY DEF TypeOK
<1>2. CASE resp = Idle
  BY <1>2 DEF Idle
<1>3. CASE resp \in [at: {"write", "scan"}, vol: Names]
  BY <1>3 DEF Idle
<1>4. CASE resp \in [at: {"plug"}, vol: Names, slot: Slots]
  BY <1>4 DEF Idle
<1> QED BY <1>1, <1>2, <1>3, <1>4 DEF RespStates

\* The three states a route goes through are proper ones.
LEMMA RouteStates ==
    /\ \A v \in Names : /\ [at |-> "write", vol |-> v] \in RespStates \ {Idle}
                        /\ [at |-> "scan", vol |-> v] \in RespStates \ {Idle}
    /\ \A v \in Names, s \in Slots :
          [at |-> "plug", vol |-> v, slot |-> s] \in RespStates \ {Idle}
BY DEF RespStates, Idle

(***************************************************************************)
(* Type correctness.                                                       *)
(***************************************************************************)

\* One step per command, task, crash and tick.
LEMMA TypeStep == TypeOK /\ [Next]_vars => TypeOK'
<1> SUFFICES ASSUME TypeOK, [Next]_vars PROVE TypeOK'
  OBVIOUS
<1> USE BridgeBounds
<1>1. ASSUME NEW ok \in BOOLEAN, Allocate(ok) PROVE TypeOK'
  <2>1. now \in Names
    BY DEF TypeOK
  <2>2. resp' \in RespStates
    BY <1>1, <2>1, RouteStates DEF Allocate, TypeOK
  <2>3. routes' \in 0..MaxRoutes
    BY <1>1 DEF Allocate, TypeOK
  <2> QED BY <1>1, <2>1, <2>2, <2>3 DEF Allocate, TypeOK
<1>2. ASSUME NEW ok \in BOOLEAN, Write(ok) PROVE TypeOK'
  <2>1. resp.vol \in Names
    BY <1>2, InRoute DEF Write
  <2>2. resp' \in RespStates
    BY <1>2, <2>1, RouteStates DEF Write, Abandon, RespStates
  <2>3. stranded' \subseteq Names \X Reasons
    BY <1>2, <2>1 DEF Write, Abandon, TypeOK, Reasons
  <2> QED BY <1>2, <2>2, <2>3 DEF Write, TypeOK
<1>3. ASSUME NEW ok \in BOOLEAN, Plug(ok) PROVE TypeOK'
  <2>1. resp.vol \in Names /\ resp.slot \in Slots
    BY <1>3, InRoute DEF Plug
  <2>2. resp' \in RespStates
    BY <1>3 DEF Plug, Abandon, RespStates
  <2>3. stranded' \subseteq Names \X Reasons
    BY <1>3, <2>1 DEF Plug, Abandon, TypeOK, Reasons
  <2>4. slots' \in [Slots -> Names \cup {None}]
    BY <1>3, <2>1 DEF Plug, TypeOK
  <2>5. tasks' \subseteq Tasks
    BY <1>3, <2>1 DEF Plug, TypeOK, Tasks
  <2> QED BY <1>3, <2>2, <2>3, <2>4, <2>5 DEF Plug, TypeOK
<1>4. ASSUME Scan PROVE TypeOK'
  <2>1. resp.vol \in Names
    BY <1>4, InRoute DEF Scan
  <2>2. resp' \in RespStates
    BY <1>4, <2>1, RouteStates DEF Scan, Abandon, RespStates
  <2>3. stranded' \subseteq Names \X Reasons
    BY <1>4, <2>1 DEF Scan, Abandon, TypeOK, Reasons
  <2> QED BY <1>4, <2>2, <2>3 DEF Scan, TypeOK
<1>5. ASSUME ScanBlind PROVE TypeOK'
  <2>1. resp.vol \in Names
    BY <1>5, InRoute DEF ScanBlind
  <2>2. resp' \in RespStates
    BY <1>5, <2>1, RouteStates DEF ScanBlind
  <2> QED BY <1>5, <2>2 DEF ScanBlind, TypeOK
<1>6. ASSUME NEW k \in tasks, NEW ok \in BOOLEAN, Unplug(k, ok) PROVE TypeOK'
  <2>1. k \in Tasks
    BY DEF TypeOK
  <2>2. tasks' \subseteq Tasks
    BY <1>6, <2>1 DEF Unplug, Become, Tasks, TypeOK
  <2>3. slots' \in [Slots -> Names \cup {None}]
    BY <1>6 DEF Unplug, TypeOK
  <2>4. stranded' \subseteq Names \X Reasons
    BY <1>6, <2>1 DEF Unplug, TypeOK, Reasons, Tasks
  <2> QED BY <1>6, <2>2, <2>3, <2>4 DEF Unplug, TypeOK
<1>7. ASSUME NEW k \in tasks, NEW ok \in BOOLEAN, FreeVolume(k, ok) PROVE TypeOK'
  <2>1. k \in Tasks
    BY DEF TypeOK
  <2>2. stranded' \subseteq Names \X Reasons
    BY <1>7, <2>1 DEF FreeVolume, TypeOK, Reasons, Tasks
  <2> QED BY <1>7, <2>2 DEF FreeVolume, TypeOK
<1>8. ASSUME Tick PROVE TypeOK'
  <2>1. now' \in Names
    BY <1>8 DEF Tick, TypeOK, Names
  <2>2. tasks' \subseteq Tasks
    BY <1>8 DEF Tick, TypeOK, Tasks
  <2> QED BY <1>8, <2>1, <2>2 DEF Tick, TypeOK
<1>9. ASSUME Crash PROVE TypeOK'
  <2>1. stranded' \subseteq Names \X Reasons
    <3>1. {<<k.vol, "restart">> : k \in tasks} \subseteq Names \X Reasons
      BY DEF TypeOK, Tasks, Reasons
    <3>2. resp # Idle => <<resp.vol, "restart">> \in Names \X Reasons
      BY InRoute DEF Reasons
    <3> QED BY <1>9, <3>1, <3>2 DEF Crash, TypeOK
  <2>2. crashes' \in 0..MaxCrashes
    BY <1>9 DEF Crash, TypeOK
  <2> QED BY <1>9, <2>1, <2>2 DEF Crash, TypeOK, RespStates
<1>10. ASSUME UNCHANGED vars PROVE TypeOK'
  BY <1>10 DEF vars, TypeOK
<1> QED BY <1>1, <1>2, <1>3, <1>4, <1>5, <1>6, <1>7, <1>8, <1>9, <1>10
        DEF Next, Route, Cleanup

\* The clock, the routes and the cleanup tasks stay within their types, for
\* any delay and any set of slots.
THEOREM BridgeTypeCorrect == Spec => []TypeOK
<1>1. Init => TypeOK
  BY BridgeBounds DEF Init, TypeOK, Names, RespStates
<1> QED BY <1>1, TypeStep, PTL DEF Spec

(***************************************************************************)
(* Volumes and slots.  Both invariants are inductive with the types: a     *)
(* volume and a slot each change hands in single steps.                    *)
(***************************************************************************)

\* What was left behind is never picked up again.
LEMMA StrandedStays ==
    ASSUME [Next]_vars, NEW v, Stranded(v)
    PROVE  \E why \in Reasons : <<v, why>> \in stranded'
<1>1. stranded \subseteq stranded'
  BY DEF Next, Route, Cleanup, Allocate, Write, Plug, Scan, ScanBlind,
         Abandon, Unplug, FreeVolume, Tick, Crash, vars
<1> QED BY <1>1 DEF Stranded

\* A second changes only the time a task has left.
LEMMA TickKeeps ==
    ASSUME TypeOK, Tick
    PROVE  /\ \A k \in tasks : \E l \in tasks' :
                 l.at = k.at /\ l.vol = k.vol /\ l.slot = k.slot
           /\ \A l \in tasks' : \E k \in tasks :
                 /\ l = [k EXCEPT !.left = IF @ > 0 THEN @ - 1 ELSE 0]
                 /\ l.at = k.at /\ l.vol = k.vol /\ l.slot = k.slot
<1> DEFINE Later(k) == [k EXCEPT !.left = IF @ > 0 THEN @ - 1 ELSE 0]
<1>1. tasks' = {Later(k) : k \in tasks}
  BY DEF Tick
<1>2. ASSUME NEW k \in tasks
      PROVE  /\ Later(k).at = k.at /\ Later(k).vol = k.vol
             /\ Later(k).slot = k.slot
  <2>1. k \in Tasks
    BY DEF TypeOK
  <2> QED BY <2>1 DEF Tasks
<1> HIDE DEF Later
<1>3. \A l \in tasks' : \E k \in tasks :
         l = Later(k) /\ l.at = k.at /\ l.vol = k.vol /\ l.slot = k.slot
  BY <1>1, <1>2
<1>4. \A k \in tasks : \E l \in tasks' :
         l.at = k.at /\ l.vol = k.vol /\ l.slot = k.slot
  BY <1>1, <1>2
<1> QED BY <1>3, <1>4 DEF Later

\* A volume is freed, passes from the route to its cleanup, or is stranded by
\* the command that failed.
LEMMA VolumeStep == TypeOK /\ VolumeAccounted /\ [Next]_vars => VolumeAccounted'
<1> SUFFICES ASSUME TypeOK, VolumeAccounted, [Next]_vars, NEW v \in volumes'
             PROVE  \/ resp' # Idle /\ resp'.vol = v
                    \/ \E k \in tasks' : k.vol = v
                    \/ \E why \in Reasons : <<v, why>> \in stranded'
  BY DEF VolumeAccounted, InHand, ToClean, Stranded
<1> DEFINE Kept == \/ resp' # Idle /\ resp'.vol = v
                   \/ \E k \in tasks' : k.vol = v
                   \/ \E why \in Reasons : <<v, why>> \in stranded'
<1>0. ASSUME v \in volumes, Stranded(v) PROVE Kept
  BY <1>0, StrandedStays
<1>a. ASSUME v \in volumes PROVE InHand(v) \/ ToClean(v) \/ Stranded(v)
  BY <1>a DEF VolumeAccounted
<1>1. ASSUME NEW ok \in BOOLEAN, Allocate(ok) PROVE Kept
  <2>1. CASE v = now /\ v \notin volumes
    <3>1. resp' = [at |-> "write", vol |-> now] /\ now \in Names
      BY <1>1, <2>1 DEF Allocate, TypeOK
    <3>2. resp' # Idle /\ resp'.vol = v
      BY <2>1, <3>1, RouteStates
    <3> QED BY <3>2
  <2>2. CASE v \in volumes
    BY <1>0, <1>1, <1>a, <2>2 DEF Allocate, InHand, ToClean
  <2> QED BY <1>1, <2>1, <2>2 DEF Allocate
<1>2. ASSUME NEW ok \in BOOLEAN, Write(ok) PROVE Kept
  <2>1. v \in volumes /\ resp.vol \in Names
    BY <1>2, InRoute DEF Write
  <2>2. CASE InHand(v)
    <3>1. CASE resp' = [at |-> "scan", vol |-> resp.vol]
      <4>1. resp' # Idle /\ resp'.vol = v
        BY <2>1, <2>2, <3>1, RouteStates DEF InHand
      <4> QED BY <4>1
    <3>2. CASE Abandon("write")
      BY <2>2, <3>2 DEF Abandon, InHand, Reasons
    <3> QED BY <1>2, <3>1, <3>2 DEF Write
  <2> QED BY <1>0, <1>2, <1>a, <2>1, <2>2 DEF Write, ToClean
<1>3. ASSUME NEW ok \in BOOLEAN, Plug(ok) PROVE Kept
  <2>1. v \in volumes
    BY <1>3 DEF Plug
  <2>2. CASE InHand(v)
    <3> DEFINE k == [at |-> "sleep", vol |-> resp.vol, slot |-> resp.slot,
                     left |-> Delay]
    <3>1. k \in tasks' \/ Abandon("hotplug")
      BY <1>3 DEF Plug
    <3>2. k.vol = v
      BY <2>2 DEF InHand
    <3>3. Abandon("hotplug") => Kept
      BY <2>2 DEF Abandon, InHand, Reasons
    <3> QED BY <3>1, <3>2, <3>3
  <2>3. tasks \subseteq tasks'
    BY <1>3 DEF Plug
  <2> QED BY <1>0, <1>a, <2>1, <2>2, <2>3 DEF ToClean
<1>4. ASSUME Scan PROVE Kept
  <2>1. v \in volumes /\ resp.vol \in Names
    BY <1>4, InRoute DEF Scan
  <2>2. CASE InHand(v)
    BY <1>4, <2>1, <2>2, RouteStates DEF Scan, Abandon, InHand, Reasons
  <2> QED BY <1>0, <1>4, <1>a, <2>1, <2>2 DEF Scan, ToClean
<1>5. ASSUME ScanBlind PROVE Kept
  <2>1. v \in volumes /\ resp.vol \in Names
    BY <1>5, InRoute DEF ScanBlind
  <2>2. CASE InHand(v)
    BY <1>5, <2>1, <2>2, RouteStates DEF ScanBlind, InHand
  <2> QED BY <1>0, <1>5, <1>a, <2>1, <2>2 DEF ScanBlind, ToClean
<1>6. ASSUME NEW k \in tasks, NEW ok \in BOOLEAN, Unplug(k, ok) PROVE Kept
  <2>1. v \in volumes /\ resp' = resp
    BY <1>6 DEF Unplug
  <2>2. [k EXCEPT !.at = "free"] \in tasks' /\ tasks \ {k} \subseteq tasks'
    BY <1>6 DEF Unplug, Become
  <2>3. [k EXCEPT !.at = "free"].vol = k.vol
    BY DEF TypeOK, Tasks
  <2> QED BY <1>0, <1>a, <2>1, <2>2, <2>3 DEF InHand, ToClean
<1>7. ASSUME NEW k \in tasks, NEW ok \in BOOLEAN, FreeVolume(k, ok) PROVE Kept
  <2>1. v \in volumes /\ resp' = resp
    BY <1>7 DEF FreeVolume
  <2>2. CASE v = k.vol
    BY <1>7, <2>2 DEF FreeVolume, Reasons
  <2>3. CASE v # k.vol
    BY <1>0, <1>7, <1>a, <2>1, <2>3 DEF FreeVolume, InHand, ToClean
  <2> QED BY <2>2, <2>3
<1>8. ASSUME Tick PROVE Kept
  <2>1. v \in volumes /\ resp' = resp
    BY <1>8 DEF Tick
  <2>2. \A k \in tasks : \E l \in tasks' : l.vol = k.vol
    BY <1>8, TickKeeps
  <2> QED BY <1>0, <1>a, <2>1, <2>2 DEF InHand, ToClean
<1>9. ASSUME Crash PROVE Kept
  <2>1. v \in volumes
    BY <1>9 DEF Crash
  <2>2. CASE InHand(v) \/ ToClean(v)
    BY <1>9, <2>2 DEF Crash, InHand, ToClean, Reasons
  <2> QED BY <1>0, <1>a, <2>1, <2>2
<1>10. ASSUME UNCHANGED vars PROVE Kept
  <2>1. /\ v \in volumes /\ resp' = resp /\ tasks' = tasks
    BY <1>10 DEF vars
  <2> QED BY <1>0, <1>a, <2>1 DEF InHand, ToClean
<1> QED BY <1>1, <1>2, <1>3, <1>4, <1>5, <1>6, <1>7, <1>8, <1>9, <1>10
        DEF Next, Route, Cleanup

\* No sequence of routes, failed commands, cleanups and restarts leaves a
\* volume in the storage for a reason other than the five that are listed.
THEOREM VolumesAccounted == Spec => []VolumeAccounted
<1>1. Init => VolumeAccounted
  BY DEF Init, VolumeAccounted
<1> QED BY <1>1, VolumeStep, BridgeTypeCorrect, PTL DEF Spec

\* A slot is freed, waits for the cleanup of the volume it holds, or is
\* stranded.
LEMMA SlotStep == TypeOK /\ SlotAccounted /\ [Next]_vars => SlotAccounted'
<1> SUFFICES ASSUME TypeOK, SlotAccounted, [Next]_vars, NEW s \in Slots,
                    slots'[s] # None
             PROVE  \/ \E k \in tasks' : /\ k.at = "sleep" /\ k.slot = s
                                         /\ k.vol = slots'[s]
                    \/ \E why \in Reasons : <<slots'[s], why>> \in stranded'
  BY DEF SlotAccounted, Stranded
<1> DEFINE Held == \E k \in tasks : k.at = "sleep" /\ k.slot = s /\ k.vol = slots[s]
           HeldNext == \E k \in tasks' : /\ k.at = "sleep" /\ k.slot = s
                                         /\ k.vol = slots'[s]
           Left == \E why \in Reasons : <<slots'[s], why>> \in stranded'
<1>a. ASSUME slots'[s] = slots[s] PROVE Held \/ Left
  BY <1>a, StrandedStays DEF SlotAccounted
<1>1. ASSUME UNCHANGED <<tasks, slots>> PROVE HeldNext \/ Left
  BY <1>1, <1>a
<1>2. ASSUME NEW ok \in BOOLEAN, Plug(ok) PROVE HeldNext \/ Left
  <2>1. resp.slot \in Slots /\ tasks \subseteq tasks'
    BY <1>2, InRoute DEF Plug
  <2>2. CASE slots'[s] = slots[s]
    BY <1>a, <2>1, <2>2
  <2>3. CASE slots'[s] # slots[s]
    <3>1. s = resp.slot /\ ok /\ slots'[s] = resp.vol
      BY <1>2, <2>1, <2>3 DEF Plug, TypeOK
    <3>2. [at |-> "sleep", vol |-> resp.vol, slot |-> resp.slot, left |-> Delay]
            \in tasks'
      BY <1>2, <3>1 DEF Plug
    <3> QED BY <3>1, <3>2
  <2> QED BY <2>2, <2>3
<1>3. ASSUME NEW k \in tasks, NEW ok \in BOOLEAN, Unplug(k, ok)
      PROVE  HeldNext \/ Left
  <2>1. tasks \ {k} \subseteq tasks' /\ k.slot \in Slots
    BY <1>3 DEF Unplug, Become, TypeOK, Tasks
  <2>2. slots'[s] = slots[s]
    BY <1>3, <2>1 DEF Unplug, TypeOK
  <2>3. CASE k.slot = s /\ k.vol = slots[s]
    <3>1. ~ok
      BY <1>3, <2>1, <2>3 DEF Unplug, TypeOK
    <3> QED BY <1>3, <2>2, <2>3, <3>1 DEF Unplug, Reasons
  <2>4. CASE ~(k.slot = s /\ k.vol = slots[s])
    BY <1>a, <2>1, <2>2, <2>4
  <2> QED BY <2>3, <2>4
<1>4. ASSUME NEW k \in tasks, NEW ok \in BOOLEAN, FreeVolume(k, ok)
      PROVE  HeldNext \/ Left
  BY <1>4, <1>a DEF FreeVolume
<1>5. ASSUME Tick PROVE HeldNext \/ Left
  <2>1. \A k \in tasks : \E l \in tasks' : /\ l.vol = k.vol /\ l.slot = k.slot
                                           /\ l.at = k.at
    BY <1>5, TickKeeps
  <2>2. slots' = slots
    BY <1>5 DEF Tick
  <2> QED BY <1>a, <2>1, <2>2
<1>6. ASSUME Crash PROVE HeldNext \/ Left
  BY <1>6, <1>a DEF Crash, Reasons
<1>7. ASSUME NEW ok \in BOOLEAN,
             Allocate(ok) \/ Write(ok) \/ Scan \/ ScanBlind
      PROVE  UNCHANGED <<tasks, slots>>
  BY <1>7 DEF Allocate, Write, Scan, ScanBlind
<1>8. UNCHANGED vars => UNCHANGED <<tasks, slots>>
  BY DEF vars
<1> QED BY <1>1, <1>2, <1>3, <1>4, <1>5, <1>6, <1>7, <1>8
        DEF Next, Route, Cleanup

\* Nothing but the five reasons uses the VM's slots up: every other plugged
\* volume has a cleanup of its own that is still to come.
THEOREM SlotsAccounted == Spec => []SlotAccounted
<1>1. Init => SlotAccounted
  BY DEF Init, SlotAccounted
<1> QED BY <1>1, SlotStep, BridgeTypeCorrect, PTL DEF Spec

(***************************************************************************)
(* The cleanups' own volumes.  That a sleeping task finds its volume in    *)
(* its slot is not inductive: the responder must not replace it, for which *)
(* the slot of a scan must still be free when it is used, and no two       *)
(* cleanups may wait for one slot.                                         *)
(***************************************************************************)

SleepsOn(k, s) == k.at = "sleep" /\ k.slot = s

\* The responder and the sleeping tasks each have a slot to themselves.
SlotsApart ==
    /\ resp.at = "plug" /\ resp.slot \notin blind => slots[resp.slot] = None
    /\ \A k, l \in tasks :
          (k.slot \notin blind /\ SleepsOn(k, k.slot) /\ SleepsOn(l, k.slot))
              => k = l

OwnInv == TypeOK /\ UnplugsItsOwn /\ SlotsApart

\* Nobody sleeps on a free slot.
LEMMA FreeSlotAlone ==
    ASSUME OwnInv, NEW s \in Slots \ blind, slots[s] = None, NEW k \in tasks
    PROVE  ~SleepsOn(k, s)
<1>1. k.vol \in Nat /\ None \notin Nat
  BY BridgeBounds DEF OwnInv, TypeOK, Tasks, Names
<1> QED BY <1>1 DEF OwnInv, UnplugsItsOwn, SleepsOn

\* A truthful scan chooses a slot that no cleanup waits for.
LEMMA OwnStep == OwnInv /\ [Next]_vars => OwnInv'
<1> SUFFICES ASSUME OwnInv, [Next]_vars PROVE UnplugsItsOwn' /\ SlotsApart'
  BY TypeStep DEF OwnInv
<1> DEFINE Own == UnplugsItsOwn' /\ SlotsApart'
<1>0. TypeOK /\ UnplugsItsOwn /\ SlotsApart
  BY DEF OwnInv
<1>1. ASSUME UNCHANGED <<slots, tasks, blind>>, resp' = resp \/ resp'.at # "plug"
      PROVE  Own
  BY <1>0, <1>1 DEF UnplugsItsOwn, SlotsApart, SleepsOn
<1>2. ASSUME NEW ok \in BOOLEAN, Allocate(ok) \/ Write(ok) PROVE Own
  <2>1. resp' = resp \/ resp'.at # "plug"
    BY <1>2 DEF Allocate, Write, Abandon, Idle
  <2> QED BY <1>1, <1>2, <2>1 DEF Allocate, Write
<1>3. ASSUME NEW ok \in BOOLEAN, Plug(ok) PROVE Own
  <2>1. CASE Abandon("hotplug") /\ UNCHANGED <<slots, tasks>>
    BY <1>1, <1>3, <2>1 DEF Plug, Abandon, Idle
  <2>2. CASE ~(Abandon("hotplug") /\ UNCHANGED <<slots, tasks>>)
    <3> DEFINE n == [at |-> "sleep", vol |-> resp.vol, slot |-> resp.slot,
                     left |-> Delay]
    <3>1. /\ slots' = [slots EXCEPT ![resp.slot] = resp.vol]
          /\ tasks' = tasks \cup {n} /\ resp' = Idle /\ blind' = blind
      BY <1>3, <2>2 DEF Plug
    <3>2. n.at = "sleep" /\ n.vol = resp.vol /\ n.slot = resp.slot
      OBVIOUS
    <3>3. resp.slot \in Slots /\ slots \in [Slots -> Names \cup {None}]
      BY <1>0, <1>3, InRoute DEF Plug, TypeOK
    <3>4. resp.slot \notin blind => \A k \in tasks : ~SleepsOn(k, resp.slot)
      BY <1>0, <1>3, <3>3, FreeSlotAlone DEF SlotsApart, Plug
    <3> HIDE DEF n
    <3>5. UnplugsItsOwn'
      BY <1>0, <3>1, <3>2, <3>3, <3>4 DEF UnplugsItsOwn, SleepsOn, TypeOK, Tasks
    <3>6. SlotsApart'
      BY <1>0, <3>1, <3>2, <3>4 DEF SlotsApart, SleepsOn, Idle
    <3> QED BY <3>5, <3>6
  <2> QED BY <2>1, <2>2
<1>4. ASSUME Scan PROVE Own
  <2>1. CASE Abandon("hotplug")
    BY <1>1, <1>4, <2>1 DEF Scan, Abandon, Idle
  <2>2. ASSUME NEW s \in Slots, Pick(s),
               resp' = [at |-> "plug", vol |-> resp.vol, slot |-> s]
        PROVE  Own
    BY <1>0, <1>4, <2>2 DEF Scan, Pick, Unused, UnplugsItsOwn, SlotsApart, SleepsOn
  <2> QED BY <1>4, <2>1, <2>2 DEF Scan
<1>5. ASSUME ScanBlind PROVE Own
  BY <1>0, <1>5 DEF ScanBlind, UnplugsItsOwn, SlotsApart, SleepsOn
<1>6. ASSUME NEW k \in tasks, NEW ok \in BOOLEAN, Unplug(k, ok) PROVE Own
  <2> DEFINE f == [k EXCEPT !.at = "free"]
  <2>1. /\ tasks' = (tasks \ {k}) \cup {f} /\ resp' = resp /\ blind' = blind
        /\ slots' = slots \/ slots' = [slots EXCEPT ![k.slot] = None]
        /\ SleepsOn(k, k.slot)
    BY <1>6 DEF Unplug, Become, SleepsOn
  <2>2. k \in Tasks /\ slots \in [Slots -> Names \cup {None}]
    BY <1>0 DEF TypeOK
  <2>3. f.at = "free" /\ f.slot = k.slot
    BY <2>2 DEF Tasks
  <2>4. \A l \in tasks' : l.at = "sleep" => l \in tasks \ {k}
    BY <2>1, <2>3
  <2>5. \A l \in tasks : l.slot \in Slots
    BY <1>0 DEF TypeOK, Tasks
  <2> HIDE DEF f
  <2>6. UnplugsItsOwn'
    <3> SUFFICES ASSUME NEW l \in tasks', l.at = "sleep", l.slot \notin blind
                 PROVE  slots'[l.slot] = l.vol
      BY <2>1 DEF UnplugsItsOwn
    <3>1. l \in tasks /\ l # k /\ slots[l.slot] = l.vol
      BY <1>0, <2>4 DEF UnplugsItsOwn
    <3>2. l.slot # k.slot
      BY <1>0, <2>1, <3>1 DEF SlotsApart, SleepsOn
    <3> QED BY <2>1, <2>2, <2>5, <3>1, <3>2
  <2>7. SlotsApart'
    <3>1. resp.at = "plug" /\ resp.slot \notin blind => slots'[resp.slot] = None
      BY <1>0, <2>1, <2>2, InRoute DEF SlotsApart
    <3>2. \A l, m \in tasks' :
             (l.slot \notin blind /\ SleepsOn(l, l.slot) /\ SleepsOn(m, l.slot))
                 => l = m
      BY <1>0, <2>4 DEF SlotsApart, SleepsOn
    <3> QED BY <2>1, <3>1, <3>2 DEF SlotsApart
  <2> QED BY <2>6, <2>7
<1>7. ASSUME NEW k \in tasks, NEW ok \in BOOLEAN, FreeVolume(k, ok) PROVE Own
  BY <1>0, <1>7 DEF FreeVolume, UnplugsItsOwn, SlotsApart, SleepsOn
<1>8. ASSUME Tick PROVE Own
  <2>1. UNCHANGED <<slots, resp, blind>>
    BY <1>8 DEF Tick
  <2>2. UnplugsItsOwn'
    BY <1>0, <1>8, <2>1, TickKeeps DEF UnplugsItsOwn
  <2>3. SlotsApart'
    <3> SUFFICES ASSUME NEW l \in tasks', NEW m \in tasks', l.slot \notin blind,
                        SleepsOn(l, l.slot), SleepsOn(m, l.slot)
                 PROVE  l = m
      BY <1>0, <2>1 DEF SlotsApart
    <3>1. PICK k \in tasks :
             /\ l = [k EXCEPT !.left = IF @ > 0 THEN @ - 1 ELSE 0]
             /\ l.at = k.at /\ l.slot = k.slot
      BY <1>0, <1>8, TickKeeps
    <3>2. PICK j \in tasks :
             /\ m = [j EXCEPT !.left = IF @ > 0 THEN @ - 1 ELSE 0]
             /\ m.at = j.at /\ m.slot = j.slot
      BY <1>0, <1>8, TickKeeps
    <3>3. k = j
      BY <1>0, <3>1, <3>2 DEF SlotsApart, SleepsOn
    <3> QED BY <3>1, <3>2, <3>3
  <2> QED BY <2>2, <2>3
<1>9. ASSUME Crash PROVE Own
  BY <1>9 DEF Crash, UnplugsItsOwn, SlotsApart, Idle
<1>10. ASSUME UNCHANGED vars PROVE Own
  <2>1. UNCHANGED <<slots, tasks, blind, resp>>
    BY <1>10 DEF vars
  <2> QED BY <1>1, <2>1
<1> QED BY <1>2, <1>3, <1>4, <1>5, <1>6, <1>7, <1>8, <1>9, <1>10
        DEF Next, Route, Cleanup

\* As long as `qm config' tells the truth, a cleanup never takes the volume of
\* another route away from the VM, for any number of slots, routes and restarts.
THEOREM CleanupUnplugsItsOwn == Spec => []UnplugsItsOwn
<1>1. Init => OwnInv
  BY BridgeBounds
     DEF Init, OwnInv, TypeOK, Names, RespStates, UnplugsItsOwn, SlotsApart, Idle
<1>2. OwnInv => UnplugsItsOwn
  BY DEF OwnInv
<1> QED BY <1>1, <1>2, OwnStep, PTL DEF Spec

=============================================================================

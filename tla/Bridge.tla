------------------------------- MODULE Bridge -------------------------------
(***************************************************************************)
(* The Proxmox bridge: the responder routes one core dump after the other  *)
(* to the analysis VM through a volume of its own, and a task of its own   *)
(* takes every routed volume away again after a fixed time.                *)
(*                                                                         *)
(*    allocate -> write -> scan for a slot -> plug      (responder)        *)
(*    sleep -> unplug -> free                           (cleanup tasks)    *)
(*                                                                         *)
(* A failed command ends a route at once; the cleanup ignores failures.    *)
(* A volume is named after the second in which it was allocated.  The      *)
(* cleanup tasks, and what they know, end with the agent process.          *)
(***************************************************************************)
EXTENDS Naturals

CONSTANTS
    Slots,      \* SCSI slots for core dumps (10..30)
    Delay,      \* time to the cleanup (300 s)
    None,       \* the content of a free slot
    MaxTime,    \* bound: the clock, by which no route starts any more
    MaxRoutes,  \* bound: blobs to route
    MaxCrashes  \* bound: times the agent goes down

ASSUME SlotsAssumption == Slots # {} /\ Slots \subseteq Nat
ASSUME BridgeBounds    == /\ Delay \in Nat /\ MaxTime \in Nat
                          /\ MaxRoutes \in Nat /\ MaxCrashes \in Nat
                          /\ None \notin Nat

VARIABLES
    now,       \* the clock, in seconds
    volumes,   \* the volumes in the storage
    slots,     \* slots[s]: the volume plugged in slot s of the VM
    resp,      \* the responder, in route_to_kp14
    tasks,     \* the cleanup tasks: [at, vol, slot, left]
    routes, crashes,
    \* history
    stranded,  \* <<vol, why>>: volumes or slots that nobody will clean up
    blind      \* slots that were chosen without knowing what they hold

vars == <<now, volumes, slots, resp, tasks, routes, crashes, stranded, blind>>

Names == 0..MaxTime
Idle  == [at |-> "idle"]
Reasons == {"write", "hotplug", "unplug", "free", "restart"}

-----------------------------------------------------------------------------
(***************************************************************************)
(* route_to_kp14, step by step; `ok' is the exit status of the command.    *)
(***************************************************************************)

\* A route that fails leaves its volume behind.
Abandon(why) ==
    /\ stranded' = stranded \cup {<<resp.vol, why>>}
    /\ resp' = Idle

\* pvesm alloc, which refuses a name that exists.
Allocate(ok) ==
    /\ resp = Idle /\ routes < MaxRoutes /\ now < MaxTime
    /\ routes' = routes + 1
    /\ \/ /\ ok /\ now \notin volumes
          /\ volumes' = volumes \cup {now}
          /\ resp' = [at |-> "write", vol |-> now]
       \/ /\ ~ok
          /\ UNCHANGED <<volumes, resp>>
    /\ UNCHANGED <<now, slots, tasks, crashes, stranded, blind>>

\* pvesm path and dd.
Write(ok) ==
    /\ resp.at = "write"
    /\ \/ /\ ok /\ resp' = [at |-> "scan", vol |-> resp.vol]
          /\ UNCHANGED stranded
       \/ ~ok /\ Abandon("write")
    /\ UNCHANGED <<now, volumes, slots, tasks, routes, crashes, blind>>

Unused(s) == slots[s] = None

\* Faulty variant: used slots are not skipped.
PickAny(s) == s \in Slots

\* The first slot that does not appear in the configuration.
Pick(s) == Unused(s) /\ \A r \in Slots : Unused(r) => s <= r

\* Faulty variant: the scan runs past the last slot.
ScanPastEnd ==
    /\ resp.at = "scan"
    /\ \E s \in Slots :
          \/ /\ Pick(s)
             /\ resp' = [at |-> "plug", vol |-> resp.vol, slot |-> s]
          \/ /\ \A r \in Slots : r <= s /\ ~Unused(r)
             /\ resp' = [at |-> "plug", vol |-> resp.vol, slot |-> s + 1]
    /\ UNCHANGED <<now, volumes, slots, tasks, routes, crashes, stranded, blind>>

\* qm config: when every slot is in use, or it cannot be run, the route fails.
Scan ==
    /\ resp.at = "scan"
    /\ \/ /\ \E s \in Slots :
                /\ Pick(s)
                /\ resp' = [at |-> "plug", vol |-> resp.vol, slot |-> s]
          /\ UNCHANGED stranded
       \/ Abandon("hotplug")
    /\ UNCHANGED <<now, volumes, slots, tasks, routes, crashes, blind>>

\* The exit status of qm config is not looked at: when it fails, its empty
\* output reads like a VM without any slot in use.
ScanBlind ==
    /\ resp.at = "scan"
    /\ \E s \in Slots :
          /\ \A r \in Slots : s <= r
          /\ resp' = [at |-> "plug", vol |-> resp.vol, slot |-> s]
          /\ blind' = blind \cup {s}
    /\ UNCHANGED <<now, volumes, slots, tasks, routes, crashes, stranded>>

\* qm set replaces what the slot holds.  Then main starts the cleanup task.
Plug(ok) ==
    /\ resp.at = "plug"
    /\ \/ /\ ok
          /\ slots' = [slots EXCEPT ![resp.slot] = resp.vol]
          /\ tasks' = tasks \cup {[at |-> "sleep", vol |-> resp.vol,
                                   slot |-> resp.slot, left |-> Delay]}
          /\ resp' = Idle
          /\ UNCHANGED stranded
       \/ /\ ~ok /\ Abandon("hotplug")
          /\ UNCHANGED <<slots, tasks>>
    /\ UNCHANGED <<now, volumes, routes, crashes, blind>>

-----------------------------------------------------------------------------
(***************************************************************************)
(* cleanup_volume, in a task of its own.                                   *)
(***************************************************************************)

Become(k, l) == tasks' = (tasks \ {k}) \cup {l}

\* Faulty variant: a failed unplug ends the cleanup.
UnplugReturns(k, ok) ==
    /\ k.at = "sleep" /\ k.left = 0
    /\ \/ /\ ok /\ slots' = [slots EXCEPT ![k.slot] = None]
          /\ Become(k, [k EXCEPT !.at = "free"])
       \/ /\ ~ok /\ tasks' = tasks \ {k}
          /\ UNCHANGED slots
    /\ UNCHANGED <<now, volumes, resp, routes, crashes, stranded, blind>>

\* qm set --delete, on the slot, whatever it holds by now.
Unplug(k, ok) ==
    /\ k.at = "sleep" /\ k.left = 0
    /\ Become(k, [k EXCEPT !.at = "free"])
    /\ \/ /\ ok /\ slots' = [slots EXCEPT ![k.slot] = None]
          /\ UNCHANGED stranded
       \/ /\ ~ok /\ stranded' = stranded \cup {<<k.vol, "unplug">>}
          /\ UNCHANGED slots
    /\ UNCHANGED <<now, volumes, resp, routes, crashes, blind>>

\* pvesm free; the task is over in any case.
FreeVolume(k, ok) ==
    /\ k.at = "free"
    /\ tasks' = tasks \ {k}
    /\ \/ /\ ok /\ volumes' = volumes \ {k.vol}
          /\ UNCHANGED stranded
       \/ /\ ~ok /\ stranded' = stranded \cup {<<k.vol, "free">>}
          /\ UNCHANGED volumes
    /\ UNCHANGED <<now, slots, resp, routes, crashes, blind>>

-----------------------------------------------------------------------------
\* A second passes, for the clock and for the sleeping tasks.
Tick ==
    /\ now' = IF now < MaxTime THEN now + 1 ELSE now
    /\ tasks' = {[k EXCEPT !.left = IF @ > 0 THEN @ - 1 ELSE 0] : k \in tasks}
    /\ UNCHANGED <<volumes, slots, resp, routes, crashes, stranded, blind>>

\* The agent goes down and is restarted: nothing of it is on disk.
Crash ==
    /\ crashes < MaxCrashes
    /\ crashes' = crashes + 1
    /\ stranded' = stranded \cup {<<k.vol, "restart">> : k \in tasks}
                    \cup (IF resp = Idle THEN {}
                          ELSE {<<resp.vol, "restart">>})
    /\ resp' = Idle /\ tasks' = {}
    /\ UNCHANGED <<now, volumes, slots, routes, blind>>

Init ==
    /\ now = 0 /\ volumes = {} /\ slots = [s \in Slots |-> None]
    /\ resp = Idle /\ tasks = {}
    /\ routes = 0 /\ crashes = 0 /\ stranded = {} /\ blind = {}

Route == \/ \E ok \in BOOLEAN : Allocate(ok) \/ Write(ok) \/ Plug(ok)
         \/ Scan \/ ScanBlind
Cleanup == \E k \in tasks, ok \in BOOLEAN : Unplug(k, ok) \/ FreeVolume(k, ok)

Next == Route \/ Cleanup \/ Tick \/ Crash

Spec == Init /\ [][Next]_vars

\* Time passes, commands end and tasks that are due run.
FairSpec == Spec /\ WF_vars(Route) /\ WF_vars(Cleanup) /\ WF_vars(Tick)

-----------------------------------------------------------------------------
Tasks == [at: {"sleep", "free"}, vol: Names, slot: Slots, left: 0..Delay]
RespStates == {Idle} \cup [at: {"write", "scan"}, vol: Names]
                     \cup [at: {"plug"}, vol: Names, slot: Slots]

\* Type invariant.
TypeOK ==
    /\ now \in Names /\ volumes \subseteq Names
    /\ slots \in [Slots -> Names \cup {None}]
    /\ resp \in RespStates /\ tasks \subseteq Tasks
    /\ routes \in 0..MaxRoutes /\ crashes \in 0..MaxCrashes
    /\ stranded \subseteq Names \X Reasons /\ blind \subseteq Slots

InHand(v)   == resp # Idle /\ resp.vol = v
ToClean(v)  == \E k \in tasks : k.vol = v
Stranded(v) == \E why \in Reasons : <<v, why>> \in stranded

\* Every volume in the storage is on its way to the VM, waits for its cleanup,
\* or stays for ever for one of five reasons: a write, a hotplug, an unplug or
\* a free that failed, or the end of the agent.
VolumeAccounted == \A v \in volumes : InHand(v) \/ ToClean(v) \/ Stranded(v)

\* A slot that is in use is unplugged by the cleanup of the volume it holds, or
\* that volume stays for one of the five reasons: nothing else uses slots up.
SlotAccounted ==
    \A s \in Slots : slots[s] # None =>
        \/ \E k \in tasks : k.at = "sleep" /\ k.slot = s /\ k.vol = slots[s]
        \/ Stranded(slots[s])

\* The cleanup unplugs the volume it was started for and no other, in every
\* interleaving of routes and cleanups, unless the slot was once chosen blindly.
UnplugsItsOwn ==
    \A k \in tasks : (k.at = "sleep" /\ k.slot \notin blind)
        => slots[k.slot] = k.vol

\* Every volume that is allocated is eventually freed or left behind for one of
\* the five reasons.
VolumeResolved ==
    \A v \in Names : (v \in volumes) ~> (v \notin volumes \/ Stranded(v))

=============================================================================

----------------------------- MODULE Kp14Daemon -----------------------------
(***************************************************************************)
(* The KP14 daemon: once in every agent process it waits for a new block   *)
(* device, mounts it, parses the blob on it, extracts and analyses the     *)
(* memory, pushes what it finds, and ends.                                 *)
(*                                                                         *)
(* Devices come and go at any time, mounted ones too: the bridge unplugs a *)
(* volume after five minutes whoever uses it.  An error return leaves the  *)
(* device mounted; the agent may go down anywhere, and the mounts stay.    *)
(***************************************************************************)
EXTENDS CoreDump

CONSTANTS
    Devices,    \* names of block devices
    None,       \* no device
    Carved,     \* the dump that was packaged
    Polls,      \* polls until the daemon gives up (3600 s, one every 2 s)
    MaxPlugs,   \* bound: devices plugged in
    MaxCrashes  \* bound: times the agent goes down

ASSUME CarvedAssumption == Carved \in Dumps
ASSUME DaemonBounds == Polls \in Nat /\ MaxPlugs \in Nat /\ MaxCrashes \in Nat

VARIABLES
    devs,    \* the block devices that are there
    mounts,  \* what is mounted on /mnt/alphvdr, the top first
    dm,      \* the daemon
    plugs, crashes,
    left     \* history: devices that an error return, a failed umount or the
             \* end of the agent left mounted

vars == <<devs, mounts, dm, plugs, crashes, left>>

Asleep == [at |-> "start", known |-> {}, polls |-> 0, dev |-> None,
           blob |-> "whole", got |-> "nothing"]
Mounted == {"mounted", "parsed", "unmounted", "pushed"}

Leave(d) == left' = left \cup {d}
Goto(at) == dm' = [dm EXCEPT !.at = at]
Finish   == dm' = [Asleep EXCEPT !.at = "end"]

\* The devices that are there already are remembered and never looked at.
Watch ==
    /\ dm.at = "start"
    /\ dm' = [dm EXCEPT !.at = "watch", !.known = devs, !.polls = 0]
    /\ UNCHANGED <<devs, mounts, plugs, crashes, left>>

\* Faulty variant: the time starts again with every poll.
PollRestarts ==
    /\ dm.at = "watch"
    /\ \/ \E d \in devs \ dm.known :
             dm' = [dm EXCEPT !.at = "found", !.dev = d]
       \/ devs \subseteq dm.known /\ UNCHANGED dm
    /\ UNCHANGED <<devs, mounts, plugs, crashes, left>>

\* Faulty variant: devices that were there before are taken as well.
PollAny ==
    /\ dm.at = "watch"
    /\ \/ dm.polls = Polls /\ Finish
       \/ /\ dm.polls < Polls
          /\ \/ \E d \in devs : dm' = [dm EXCEPT !.at = "found", !.dev = d]
             \/ devs = {} /\ dm' = [dm EXCEPT !.polls = @ + 1]
    /\ UNCHANGED <<devs, mounts, plugs, crashes, left>>

\* Any new device; when there is none until the time is over, an error.
Poll ==
    /\ dm.at = "watch"
    /\ \/ dm.polls = Polls /\ Finish
       \/ /\ dm.polls < Polls
          /\ \/ \E d \in devs \ dm.known :
                   dm' = [dm EXCEPT !.at = "found", !.dev = d]
             \/ /\ devs \subseteq dm.known
                /\ dm' = [dm EXCEPT !.polls = @ + 1]
    /\ UNCHANGED <<devs, mounts, plugs, crashes, left>>

\* mount_and_ingest: the device may be gone by now, or have no file system,
\* as when it was written with dd; one without a blob stays mounted.
Mount(holds) ==
    /\ dm.at = "found"
    /\ \/ /\ holds = "nothing" /\ Finish /\ UNCHANGED <<mounts, left>>
       \/ /\ holds # "nothing" /\ dm.dev \in devs
          /\ mounts' = <<dm.dev>> \o mounts
          /\ \/ holds = "blob" /\ Goto("mounted") /\ UNCHANGED left
             \/ holds = "files" /\ Finish /\ Leave(dm.dev)
    /\ UNCHANGED <<devs, plugs, crashes>>

\* The blobs that may be found on a device, by what became of the carved one.
Blobs(blob) ==
    LET b == Serialize(Carved) IN
    CASE blob = "whole"   -> {b}
      [] blob = "cut"     -> {SubSeq(b, 1, n) : n \in 0..(Len(b) - 1)}
      [] blob = "changed" ->
            {[b EXCEPT ![i] = v] : i \in DOMAIN b, v \in 0..(Width - 1)}

\* What the daemon works on, compared with what was carved.
Verdict(b) ==
    LET p == Parse(b) IN
    CASE ~p.ok -> "refused"
      [] p.ok /\ p.dump = Carved -> "same"
      [] OTHER -> IF Memory(p.dump.regions) # Memory(Carved.regions)
                  THEN "memory" ELSE "other"

Verdicts ==
    [blob \in {"whole", "cut", "changed"} |-> {Verdict(b) : b \in Blobs(blob)}]

\* from_file, then extract_executable_regions: a blob that cannot be read, as
\* when its device is gone, one that is refused, and files that cannot be
\* written end the daemon and leave the device mounted.
Ingest(blob, ok) ==
    /\ dm.at = "mounted"
    /\ \E got \in Verdicts[blob] \cup {"unread"} :
          LET fine == ok /\ got \notin {"refused", "unread"} IN
          /\ dm' = [dm EXCEPT !.blob = blob, !.got = got,
                              !.at = IF fine THEN "parsed" ELSE "end"]
          /\ \/ fine /\ UNCHANGED left
             \/ ~fine /\ Leave(dm.dev)
    /\ UNCHANGED <<devs, mounts, plugs, crashes>>

\* cleanup_mount: the top of what is mounted there, and errors are ignored.
Umount(ok) ==
    \/ /\ ok /\ mounts # <<>>
       /\ mounts' = Tail(mounts)
       /\ left' = left \ {Head(mounts)}
    \/ /\ ~ok \/ mounts = <<>>
       /\ left' = left \cup Range(mounts)
       /\ UNCHANGED mounts

\* Faulty variant: only the second cleanup is there.
FirstCleanupMissing(ok) ==
    /\ dm.at = "parsed" /\ Goto("unmounted")
    /\ UNCHANGED <<devs, mounts, plugs, crashes, left>>

\* The device is unmounted once before the pipeline, whose errors are ignored.
FirstCleanup(ok) ==
    /\ dm.at = "parsed" /\ Goto("unmounted") /\ Umount(ok)
    /\ UNCHANGED <<devs, plugs, crashes>>

\* push_iocs_to_misp (its file is in Kp14); an error returns.
Push(ok) ==
    /\ dm.at = "unmounted"
    /\ \/ ok /\ Goto("pushed")
       \/ ~ok /\ Finish
    /\ UNCHANGED <<devs, mounts, plugs, crashes, left>>

\* ... and a second time when it is done.
SecondCleanup(ok) ==
    /\ dm.at = "pushed" /\ Finish /\ Umount(ok)
    /\ UNCHANGED <<devs, plugs, crashes>>

-----------------------------------------------------------------------------
\* A device that went away while it was mounted keeps its name.
Plug(d) ==
    /\ plugs < MaxPlugs /\ d \notin devs \cup Range(mounts)
    /\ devs' = devs \cup {d} /\ plugs' = plugs + 1
    /\ UNCHANGED <<mounts, dm, crashes, left>>

Unplug(d) ==
    /\ d \in devs
    /\ devs' = devs \ {d}
    /\ UNCHANGED <<mounts, dm, plugs, crashes, left>>

\* The agent ends, and with it its daemon; the mounts stay.
Crash ==
    /\ dm.at # "down" /\ crashes < MaxCrashes
    /\ crashes' = crashes + 1
    /\ dm' = [Asleep EXCEPT !.at = "down"]
    /\ left' = left \cup Range(mounts)
    /\ UNCHANGED <<devs, mounts, plugs>>

Restart ==
    /\ dm.at = "down" /\ dm' = Asleep
    /\ UNCHANGED <<devs, mounts, plugs, crashes, left>>

Init ==
    /\ devs \in SUBSET Devices /\ mounts = <<>> /\ dm = Asleep
    /\ plugs = 0 /\ crashes = 0 /\ left = {}

DaemonStep ==
    \/ Watch \/ Poll
    \/ \E holds \in {"nothing", "files", "blob"} : Mount(holds)
    \/ \E ok \in BOOLEAN : FirstCleanup(ok) \/ Push(ok) \/ SecondCleanup(ok)
    \/ \E blob \in {"whole", "cut", "changed"}, ok \in BOOLEAN :
          Ingest(blob, ok)

Next ==
    \/ DaemonStep
    \/ \E d \in Devices : Plug(d) \/ Unplug(d)
    \/ Crash \/ Restart

Spec == Init /\ [][Next]_vars

\* The commands the daemon runs return (it waits for them without a limit), and
\* systemd restarts the agent.
FairSpec == Spec /\ WF_vars(DaemonStep) /\ WF_vars(Restart)

-----------------------------------------------------------------------------
\* Type invariant; the daemon works on a device it did not know before.
TypeOK ==
    /\ devs \subseteq Devices /\ Range(mounts) \subseteq Devices
    /\ plugs \in 0..MaxPlugs /\ crashes \in 0..MaxCrashes
    /\ dm.at \in {"down", "start", "watch", "found", "end"} \cup Mounted
    /\ dm.polls \in 0..Polls /\ dm.known \subseteq Devices
    /\ dm.blob \in {"whole", "cut", "changed"}
    /\ dm.got \in {"nothing", "unread", "refused", "same", "memory", "other"}
    /\ dm.at \in Mounted => dm.dev \in Devices \ dm.known
    /\ left \subseteq Devices

\* The daemon works on exactly what was carved unless cells were changed: a
\* blob that was cut anywhere is refused, and a whole one never is.
ParsedIsCarved ==
    /\ dm.blob # "changed" => dm.got \in {"nothing", "unread", "refused", "same"}
    /\ dm.got = "refused" => dm.blob # "whole"

\* A device stays mounted only while the daemon works on it, or because the
\* daemon, or one before it, returned early, could not unmount or was ended.
MountAccounted ==
    \A d \in Range(mounts) :
        \/ dm.at \in {"mounted", "parsed"} /\ dm.dev = d
        \/ d \in left

\* Whatever is plugged in, the daemon of a process that stays up gives up or
\* ends.
DaemonEnds == []<>(dm.at = "end")

=============================================================================

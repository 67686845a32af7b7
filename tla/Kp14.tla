-------------------------------- MODULE Kp14 --------------------------------
(***************************************************************************)
(* The remote analyses of the KP14 suite.  Every freeze carves a blob and  *)
(* starts an analysis in a thread of its own:                              *)
(*                                                                         *)
(*   copy to the VM -> pipeline -> read results -> push -> remove the copy *)
(*                                                                         *)
(* where most failures return at once.  Blobs, copies and projects are     *)
(* named after the second in which they are made, and every push, those of *)
(* the daemon (Kp14Daemon) too, writes the same file.  Data is modelled by *)
(* the set of the orders whose memory may be in it, the text of a push by  *)
(* the head and the tail of what it says of each of them.                  *)
(***************************************************************************)
EXTENDS Naturals

CONSTANTS
    Pids,       \* processes that are carved
    None,       \* no file
    MaxOrders,  \* bound: blobs carved
    MaxTime,    \* bound: the clock, in seconds
    MaxCrashes  \* bound: times the agent goes down

ASSUME Kp14Bounds == MaxOrders \in Nat /\ MaxTime \in Nat /\ MaxCrashes \in Nat

Orders == 1..MaxOrders
Secs   == 0..MaxTime
Daemon == 0  \* stands for an order in what the daemon pushes

Heads(S) == S \X {"head"}
Whole(S) == S \X {"head", "tail"}

\* Where there is no file there is neither data nor a name.
ASSUME NoneAssumption ==
    /\ \A S \in SUBSET Orders : S # None
    /\ None \notin Secs /\ None \notin Pids \X Secs

VARIABLES
    up, now, crashes,
    disk,    \* disk[p, t]: the blob of PID p and second t, or None
    an,      \* an[o]: the analysis of order o
    remote,  \* remote[t]: the copy on the VM with t in its name, or None
    out,     \* out[t]: the results on the VM of the project with t in its name
    iocs,    \* extracted_iocs.json
    dm,      \* the daemon: "idle", "push", "end"
    \* history
    left,    \* copies that a failure or the end of the agent left behind
    overlap, \* the last push to open the file was not alone with it
    latest,  \* the results of that push
    cut      \* that push failed, or the process ended before it did

hostVars == <<up, now, crashes, disk>>
vmVars   == <<remote, out>>
iocVars  == <<iocs, overlap, latest, cut>>
vars == <<hostVars, an, vmVars, iocVars, dm, left>>

New == [at |-> "none", path |-> None, name |-> None, proj |-> None,
        seen |-> {}, found |-> {}]

Set(o, at)  == an' = [an EXCEPT ![o].at = at]
Done(o, at) == an' = [an EXCEPT ![o].at = at, ![o].seen = {}]
Data(f)     == IF f = None THEN {} ELSE f
Leave(t)    == left' = left \cup {t}

Pushing == dm = "push" \/ \E o \in Orders : an[o].at = "push"

-----------------------------------------------------------------------------
(***************************************************************************)
(* The responder carves one process after the other.                       *)
(***************************************************************************)

\* The file is created, or emptied when this PID has one in this second.
CarveStart(o, p) ==
    /\ up /\ an[o].at = "none"
    /\ \A n \in Orders : /\ an[n].at # "carve"
                         /\ n < o => an[n].at # "none"
    /\ an' = [an EXCEPT ![o].at = "carve", ![o].path = <<p, now>>]
    /\ disk' = [disk EXCEPT ![<<p, now>>] = {}]
    /\ UNCHANGED <<up, now, crashes, vmVars, iocVars, dm, left>>

\* The blob is written, and routed or not: the analysis starts in both cases.
CarveEnd(o, ok) ==
    /\ an[o].at = "carve"
    /\ \/ /\ ok /\ disk' = [disk EXCEPT ![an[o].path] = {o}] /\ Set(o, "ready")
       \/ /\ ~ok /\ Set(o, "end") /\ UNCHANGED disk
    /\ UNCHANGED <<up, now, crashes, vmVars, iocVars, dm, left>>

-----------------------------------------------------------------------------
(***************************************************************************)
(* run_remote_analysis.  A command begins and ends in steps of their own;  *)
(* what it reads may be what was there at either.                          *)
(***************************************************************************)

ScpStart(o) ==
    /\ an[o].at = "ready"
    /\ an' = [an EXCEPT ![o].at = "scp", ![o].name = now,
                        ![o].seen = Data(disk[an[o].path])]
    /\ remote' = [remote EXCEPT ![now] = {}]
    /\ UNCHANGED <<hostVars, out, iocVars, dm, left>>

ScpEnd(o, ok) ==
    /\ an[o].at = "scp"
    /\ \/ /\ ok
          /\ remote' = [remote EXCEPT ![an[o].name] =
                IF @ = None THEN None
                ELSE @ \cup an[o].seen \cup Data(disk[an[o].path])]
          /\ Done(o, "copied") /\ UNCHANGED left
       \/ /\ ~ok /\ Done(o, "end") /\ Leave(an[o].name)
          /\ UNCHANGED remote
    /\ UNCHANGED <<hostVars, out, iocVars, dm>>

\* Faulty variant: the name of the copy is made up again.
RunStartRenames(o) ==
    /\ an[o].at = "copied"
    /\ an' = [an EXCEPT ![o].at = "run", ![o].proj = now,
                        ![o].seen = Data(remote[now])]
    /\ UNCHANGED <<hostVars, vmVars, iocVars, dm, left>>

\* The project gets a name of its own.
RunStart(o) ==
    /\ an[o].at = "copied"
    /\ an' = [an EXCEPT ![o].at = "run", ![o].proj = now,
                        ![o].seen = Data(remote[an[o].name])]
    /\ UNCHANGED <<hostVars, vmVars, iocVars, dm, left>>

\* disasm_pipeline.py; a failure returns, and the copy stays on the VM.
RunEnd(o, ok) ==
    /\ an[o].at = "run"
    /\ \/ /\ ok
          /\ out' = [out EXCEPT ![an[o].proj] =
                        @ \cup an[o].seen \cup Data(remote[an[o].name])]
          /\ Done(o, "ran") /\ UNCHANGED left
       \/ /\ ~ok /\ Done(o, "end") /\ Leave(an[o].name)
          /\ UNCHANGED out
    /\ UNCHANGED <<hostVars, remote, iocVars, dm>>

\* extract_iocs_from_output: a lost connection reads like an empty file, and
\* nothing is pushed when nothing is found; an ssh that cannot be run returns.
Extract(o) ==
    /\ an[o].at = "ran"
    /\ \/ /\ \E S \in {out[an[o].proj], {}} :
                an' = [an EXCEPT
                          ![o].found = S,
                          ![o].at = IF S = {} THEN "pushed" ELSE "results"]
          /\ UNCHANGED left
       \/ Set(o, "end") /\ Leave(an[o].name)
    /\ UNCHANGED <<hostVars, vmVars, iocVars, dm>>

\* Faulty variant: the results are appended to the file.
OpenFileAppending(S) ==
    /\ overlap' = Pushing /\ latest' = S /\ cut' = FALSE
    /\ UNCHANGED iocs

\* fs::write opens the file and empties it, then writes it.
OpenFile(S) ==
    /\ iocs' = {}
    /\ overlap' = Pushing /\ latest' = S /\ cut' = FALSE

\* What was written before an error, or before the process ended, stays.
WriteCut(S) ==
    /\ \E W \in SUBSET S : iocs' = iocs \cup Heads(W)
    /\ cut' = TRUE
    /\ UNCHANGED <<overlap, latest>>

\* A file that cannot be opened keeps what it holds.
PushStart(o, ok) ==
    /\ an[o].at = "results"
    /\ \/ /\ ok /\ Set(o, "push") /\ OpenFile(an[o].found)
          /\ UNCHANGED left
       \/ /\ ~ok /\ Set(o, "end") /\ Leave(an[o].name)
          /\ UNCHANGED iocVars
    /\ UNCHANGED <<hostVars, vmVars, dm>>

PushEnd(o, ok) ==
    /\ an[o].at = "push"
    /\ \/ /\ ok /\ Set(o, "pushed") /\ iocs' = iocs \cup Whole(an[o].found)
          /\ UNCHANGED <<overlap, latest, cut, left>>
       \/ /\ ~ok /\ Set(o, "end") /\ Leave(an[o].name)
          /\ WriteCut(an[o].found)
    /\ UNCHANGED <<hostVars, vmVars, dm>>

\* Faulty variant: nothing is removed after an analysis without results.
RemoveFound(o, ok) ==
    /\ an[o].at = "pushed" /\ Set(o, "end")
    /\ \/ /\ ok /\ an[o].found # {}
          /\ remote' = [remote EXCEPT ![an[o].name] = None]
          /\ left' = left \ {an[o].name}
       \/ /\ ok /\ an[o].found = {} /\ UNCHANGED <<remote, left>>
       \/ /\ ~ok /\ Leave(an[o].name) /\ UNCHANGED remote
    /\ UNCHANGED <<hostVars, out, iocVars, dm>>

\* Faulty variant: the blob is removed as well.
RemoveBoth(o, ok) ==
    /\ an[o].at = "pushed" /\ Set(o, "end")
    /\ disk' = [disk EXCEPT ![an[o].path] = None]
    /\ remote' = [remote EXCEPT ![an[o].name] = None]
    /\ left' = left \ {an[o].name}
    /\ UNCHANGED <<up, now, crashes, out, iocVars, dm>>

\* ssh rm -f; its failure is ignored.
RemoveCopy(o, ok) ==
    /\ an[o].at = "pushed" /\ Set(o, "end")
    /\ \/ /\ ok /\ remote' = [remote EXCEPT ![an[o].name] = None]
          /\ left' = left \ {an[o].name}
       \/ /\ ~ok /\ Leave(an[o].name) /\ UNCHANGED remote
    /\ UNCHANGED <<hostVars, out, iocVars, dm>>

-----------------------------------------------------------------------------
\* The daemon of the process pushes once; it always has something to push.
DaemonPushStart(ok) ==
    /\ up /\ dm = "idle"
    /\ \/ ok /\ dm' = "push" /\ OpenFile({Daemon})
       \/ ~ok /\ dm' = "end" /\ UNCHANGED iocVars
    /\ UNCHANGED <<hostVars, an, vmVars, left>>

DaemonPushEnd(ok) ==
    /\ dm = "push" /\ dm' = "end"
    /\ \/ /\ ok /\ iocs' = iocs \cup Whole({Daemon})
          /\ UNCHANGED <<overlap, latest, cut>>
       \/ ~ok /\ WriteCut({Daemon})
    /\ UNCHANGED <<hostVars, an, vmVars, left>>

Tick ==
    /\ now < MaxTime
    /\ now' = now + 1
    /\ UNCHANGED <<up, crashes, disk, an, vmVars, iocVars, dm, left>>

Copying == {"scp", "copied", "run", "ran", "results", "push", "pushed"}

\* What the pushes that are under way write.
Writing == {w \in Orders \cup {Daemon} :
              \/ w = Daemon /\ dm = "push"
              \/ \E o \in Orders : an[o].at = "push" /\ w \in an[o].found}

\* The process ends, and with it its threads; what is on the VM stays.
Crash ==
    /\ up /\ crashes < MaxCrashes
    /\ up' = FALSE /\ crashes' = crashes + 1 /\ dm' = "idle"
    /\ an' = [o \in Orders |-> IF an[o].at = "none" THEN an[o]
                               ELSE [an[o] EXCEPT !.at = "end", !.seen = {}]]
    /\ left' = left \cup
                  {an[o].name : o \in {n \in Orders : an[n].at \in Copying}}
    /\ \/ Pushing /\ WriteCut(Writing)
       \/ ~Pushing /\ UNCHANGED iocVars
    /\ UNCHANGED <<now, disk, vmVars>>

\* RestartSec=5: never within the second of the crash.
Restart ==
    /\ ~up /\ now < MaxTime
    /\ up' = TRUE /\ now' = now + 1
    /\ UNCHANGED <<crashes, disk, an, vmVars, iocVars, dm, left>>

Init ==
    /\ up = TRUE /\ now = 0 /\ crashes = 0
    /\ disk = [f \in Pids \X Secs |-> None]
    /\ an = [o \in Orders |-> New]
    /\ remote = [t \in Secs |-> None] /\ out = [t \in Secs |-> {}]
    /\ iocs = {} /\ overlap = FALSE /\ latest = {} /\ cut = FALSE
    /\ dm = "idle" /\ left = {}

AnalysisStep(o) ==
    \/ ScpStart(o) \/ RunStart(o) \/ Extract(o)
    \/ \E ok \in BOOLEAN : \/ CarveEnd(o, ok) \/ ScpEnd(o, ok) \/ RunEnd(o, ok)
                           \/ PushStart(o, ok) \/ PushEnd(o, ok)
                           \/ RemoveCopy(o, ok)

Next ==
    \/ \E o \in Orders, p \in Pids : CarveStart(o, p)
    \/ \E o \in Orders : AnalysisStep(o)
    \/ \E ok \in BOOLEAN : DaemonPushStart(ok) \/ DaemonPushEnd(ok)
    \/ Tick \/ Crash \/ Restart

Spec == Init /\ [][Next]_vars

-----------------------------------------------------------------------------
Activities == {"none", "carve", "ready", "end"} \cup Copying

\* Type invariant; and an analysis that has a copy has a blob that was carved.
TypeOK ==
    /\ up \in BOOLEAN /\ now \in Secs /\ crashes \in 0..MaxCrashes
    /\ disk \in [Pids \X Secs -> (SUBSET Orders) \cup {None}]
    /\ \A o \in Orders :
          /\ an[o].at \in Activities
          /\ an[o].path \in (Pids \X Secs) \cup {None}
          /\ an[o].name \in Secs \cup {None} /\ an[o].proj \in Secs \cup {None}
          /\ an[o].seen \subseteq Orders /\ an[o].found \subseteq Orders
          /\ an[o].at \in Copying => /\ disk[an[o].path] # None
                                     /\ an[o].name # None
    /\ remote \in [Secs -> (SUBSET Orders) \cup {None}]
    /\ out \in [Secs -> SUBSET Orders] /\ left \subseteq Secs
    /\ iocs \subseteq Whole(Orders \cup {Daemon})
    /\ latest \subseteq Orders \cup {Daemon}
    /\ overlap \in BOOLEAN /\ cut \in BOOLEAN
    /\ dm \in {"idle", "push", "end"}

\* Another order has the same PID and second for its blob, the same second for
\* its copy or, in Clash, the same second for its project.
SharesCopy(o) == \E n \in Orders \ {o} :
                    \/ an[n].path # None /\ an[n].path = an[o].path
                    \/ an[n].name # None /\ an[n].name = an[o].name
Clash(o)      == \/ SharesCopy(o)
                 \/ \E n \in Orders \ {o} :
                       an[n].proj # None /\ an[n].proj = an[o].proj

\* The indicators an analysis reports come from its own carve, unless another
\* order had one of its names.
OwnResults == \A o \in Orders : an[o].found \subseteq {o} \/ Clash(o)

\* The copy of a carve that is being analysed is on the VM until its own
\* analysis has ended, unless another order had the name of its blob or copy;
\* and a copy that no analysis works on any more was left there by a failure or
\* by a restart.
RemoteAccounted ==
    /\ \A o \in Orders : an[o].at \in Copying \ {"scp"} /\ ~SharesCopy(o)
                         => remote[an[o].name] = {o}
    /\ \A t \in Secs : remote[t] # None =>
          \/ \E o \in Orders : an[o].name = t /\ an[o].at \in Copying
          \/ t \in left

\* Between two pushes the file holds all that the last push to open it wrote,
\* whose ever it was, and nothing of an earlier one, though other pushes may
\* have failed to open it since; of a push that failed or that a restart cut
\* off it holds at most the beginning.  This is so from one push that has the
\* file for itself to the next that has not.
FileIsLatest ==
    ~Pushing /\ ~overlap =>
        \/ ~cut /\ iocs = Whole(latest)
        \/ cut /\ iocs \subseteq Heads(latest)

=============================================================================

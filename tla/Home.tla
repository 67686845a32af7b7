-------------------------------- MODULE Home --------------------------------
(***************************************************************************)
(* The home data set and what the agent keeps on it and of it:             *)
(*                                                                         *)
(*   - trap files, guarded in the kernel by inode number alone;            *)
(*   - decoy processes, guarded by PID;                                    *)
(*   - daily snapshots, exported by a task of their own;                   *)
(*   - the rollback, which takes files, inode numbers and newer snapshots  *)
(*     back to a baseline while the kernel maps stay as they are.          *)
(*                                                                         *)
(* The hook looks inode numbers up without the file system, so the devices *)
(* (devtmpfs) and the files the agent opens outside the data set (its log, *)
(* the decoys' programs, /proc, the core dumps) share the number space of  *)
(* the traps.                                                              *)
(***************************************************************************)
EXTENDS Naturals, FiniteSets

CONSTANTS
    Inos,       \* inode numbers
    DevInos,    \* those of the guarded devices
    ReadInos,   \* those the files outside the data set may have that the
                \* agent reads (/usr/bin/sleep, /proc/PID/maps and mem)
    WriteInos,  \* and that it writes (its log, decoy programs, core dumps)
    Pids,       \* process ids
    Decoys,     \* the decoys to start
    MaxTime,    \* bound: the clock, in seconds
    MaxMoves,   \* bound: files that users replace, remove or create
    MaxCrashes  \* bound: times the agent goes down

ASSUME InosAssumption == /\ 0 \notin Inos
                         /\ DevInos \subseteq Inos
                         /\ ReadInos \subseteq Inos /\ WriteInos \subseteq Inos
ASSUME HomeBounds == /\ MaxTime \in Nat \ {0} /\ MaxMoves \in Nat
                     /\ MaxCrashes \in Nat

VARIABLES
    home,         \* home[n]: the inode number of file n, or 0
    baseline,     \* home in the snapshot edr_pre_dev_snapshot
    snaps,        \* daily snapshots that exist, by the second in their name
    backups,      \* exported files: [name, snap, content]
    now, moves, crashes,
    pc,           \* the agent: [at, token]
    honeytokens,  \* honeytokens[i]: 0 (no element), 1 (any open), 2 (writing)
    ghost_pids,   \* elements of the map
    todo,         \* decoys still to start
    proc,         \* proc[p]: "free", "decoy", "zombie", "other"
    task,         \* the snapshot task: [at, snap]
    \* history
    guard,        \* guard[n]: the number trap n was registered under, or 0
    selfTrips,    \* opens by the agent that tripped a trap: [file, ino]
    taken,        \* daily snapshots ever taken
    gone          \* <<snap, why>>: daily versions that are not kept

dataVars == <<home, baseline, moves>>
trapVars == <<pc, honeytokens, guard, selfTrips>>
procVars == <<ghost_pids, todo, proc>>
snapVars == <<snaps, backups, task, taken, gone>>
lifeVars == <<now, crashes>>
vars == <<dataVars, trapVars, procVars, snapVars, lifeVars>>

Tokens == {"aws", "kube", "ssh"}
Files  == Tokens \cup {"doc"}
Down   == [at |-> "down", token |-> "aws"]
Start  == [at |-> "write", token |-> "aws"]
Loop   == [at |-> "loop", token |-> "ssh"]
Fresh  == [at |-> "start", snap |-> 0]

-----------------------------------------------------------------------------
(***************************************************************************)
(* The hook and the set-up of the traps.                                   *)
(***************************************************************************)

\* kprobe_vfs_open: 1 traps every open, 2 those for writing or appending.
Fires(i, mode) == \/ honeytokens[i] = 1
                  \/ honeytokens[i] = 2 /\ mode = "write"

Unused(i) == \A n \in Files : home[n] # i

\* The value a token is registered with.
Value(n) == IF n = "ssh" THEN 2 ELSE 1

\* The step after token n's.
After(n) == CASE n = "aws"  -> [at |-> "write", token |-> "kube"]
              [] n = "kube" -> [at |-> "write", token |-> "ssh"]
              [] OTHER      -> [at |-> "devices", token |-> "ssh"]

\* The agent opens files, each with or without writing; the hook does not
\* exempt it.
Opened(file, opens) ==
    selfTrips' = selfTrips \cup
        {[file |-> file, ino |-> o[1]] : o \in {x \in opens : Fires(x[1], x[2])}}

\* fs::write truncates a file that exists, which keeps its number; the SSH
\* keys are written only when there are none, and a failure is ignored.
WriteToken(n) ==
    /\ pc = [at |-> "write", token |-> n]
    /\ \/ /\ n = "ssh"
          /\ UNCHANGED <<home, selfTrips>>
       \/ /\ ~(n = "ssh" /\ home[n] # 0)
          /\ \E i \in Inos :
                /\ i = home[n] \/ (home[n] = 0 /\ Unused(i))
                /\ home' = [home EXCEPT ![n] = i]
                /\ Opened(n, {<<i, "write">>})
    /\ pc' = [pc EXCEPT !.at = "register"]
    /\ UNCHANGED <<baseline, moves, honeytokens, guard, procVars, snapVars,
                   lifeVars>>

\* Faulty variant: the contents are written after the registration.
RegisterThenWrite(n) ==
    /\ pc = [at |-> "register", token |-> n] /\ home[n] # 0
    /\ honeytokens' = [honeytokens EXCEPT ![home[n]] = Value(n)]
    /\ guard' = [guard EXCEPT ![n] = home[n]]
    /\ selfTrips' = selfTrips \cup {[file |-> n, ino |-> home[n]]}
    /\ pc' = After(n)
    /\ UNCHANGED <<dataVars, procVars, snapVars, lifeVars>>

\* metadata and the update of the map.
RegisterToken(n) ==
    /\ pc = [at |-> "register", token |-> n] /\ home[n] # 0
    /\ honeytokens' = [honeytokens EXCEPT ![home[n]] = Value(n)]
    /\ guard' = [guard EXCEPT ![n] = home[n]]
    /\ pc' = After(n)
    /\ UNCHANGED <<dataVars, selfTrips, procVars, snapVars, lifeVars>>

\* The SSH trap is skipped when there is no file by then.
SkipSsh ==
    /\ pc = [at |-> "register", token |-> "ssh"] /\ home["ssh"] = 0
    /\ pc' = After("ssh")
    /\ UNCHANGED <<dataVars, honeytokens, guard, selfTrips, procVars, snapVars,
                   lifeVars>>

\* Every device that exists becomes a write trap.
RegisterDevices ==
    /\ pc.at = "devices"
    /\ honeytokens' =
          [i \in Inos |-> IF i \in DevInos THEN 2 ELSE honeytokens[i]]
    /\ pc' = [pc EXCEPT !.at = "decoys"]
    /\ UNCHANGED <<dataVars, guard, selfTrips, procVars, snapVars, lifeVars>>

\* fs::copy reads the sleep program and writes the decoy's; then the decoy is
\* started and registered.  It is skipped when one of these steps fails.
StartDecoy(d) ==
    /\ pc.at = "decoys" /\ d \in todo
    /\ todo' = todo \ {d}
    /\ \/ /\ \E i \in ReadInos, j \in WriteInos :
                Opened("outside", {<<i, "read">>, <<j, "write">>})
          /\ \/ \E p \in Pids : /\ proc[p] = "free"
                                /\ proc' = [proc EXCEPT ![p] = "decoy"]
                                /\ ghost_pids' = ghost_pids \cup {p}
             \/ UNCHANGED <<proc, ghost_pids>>
       \/ /\ \E i \in ReadInos : Opened("outside", {<<i, "read">>})
          /\ UNCHANGED <<proc, ghost_pids>>
    /\ UNCHANGED <<dataVars, pc, honeytokens, guard, snapVars, lifeVars>>

EndSetup ==
    /\ pc.at = "decoys" /\ todo = {}
    /\ pc' = Loop
    /\ UNCHANGED <<dataVars, honeytokens, guard, selfTrips, procVars, snapVars,
                   lifeVars>>

\* The log is opened for every record.
AppendLog ==
    /\ pc.at = "loop"
    /\ \E i \in WriteInos : Opened("outside", {<<i, "write">>})
    /\ UNCHANGED <<dataVars, pc, honeytokens, guard, procVars, snapVars, lifeVars>>

\* The carver opens maps and mem of the process it carves, and the blob.
Carve ==
    /\ pc.at = "loop"
    /\ \/ \E i \in ReadInos : Opened("outside", {<<i, "read">>})
       \/ \E i \in WriteInos : Opened("outside", {<<i, "write">>})
    /\ UNCHANGED <<dataVars, pc, honeytokens, guard, procVars, snapVars, lifeVars>>

\* The callback reads the record of the agent's own open, one made during the
\* set-up included, and the responder stops the agent.
FreezeSelf ==
    /\ pc.at = "loop" /\ selfTrips # {}
    /\ pc' = [pc EXCEPT !.at = "frozen"]
    /\ UNCHANGED <<dataVars, honeytokens, guard, selfTrips, procVars, snapVars,
                   lifeVars>>

-----------------------------------------------------------------------------
(***************************************************************************)
(* Users and processes.                                                    *)
(***************************************************************************)

\* A file is created, or replaced by renaming another one over it, which opens
\* no guarded number; or it is removed.
MoveFile(n, i) ==
    /\ moves < MaxMoves
    /\ (i = 0 /\ home[n] # 0) \/ (i \in Inos /\ Unused(i))
    /\ moves' = moves + 1
    /\ home' = [home EXCEPT ![n] = i]
    /\ UNCHANGED <<baseline, trapVars, procVars, snapVars, lifeVars>>

\* Faulty variant: somebody waits for the decoys.
DecoyReaped(p) ==
    /\ proc[p] = "decoy"
    /\ proc' = [proc EXCEPT ![p] = "free"]
    /\ UNCHANGED <<dataVars, trapVars, ghost_pids, todo, snapVars, lifeVars>>

\* A decoy that dies stays a zombie: the agent, its parent, never waits for it.
DecoyDies(p) ==
    /\ proc[p] = "decoy"
    /\ proc' = [proc EXCEPT ![p] = "zombie"]
    /\ UNCHANGED <<dataVars, trapVars, ghost_pids, todo, snapVars, lifeVars>>

OtherProcess(p) ==
    /\ proc[p] \in {"free", "other"}
    /\ proc' = [proc EXCEPT ![p] = IF @ = "free" THEN "other" ELSE "free"]
    /\ UNCHANGED <<dataVars, trapVars, ghost_pids, todo, snapVars, lifeVars>>

-----------------------------------------------------------------------------
(***************************************************************************)
(* Snapshots.  The task and the callback run in different threads.         *)
(***************************************************************************)

\* Faulty variant: every backup goes to the same file.
BackupPathFixed(t) == 0

BackupPath(t) == t

\* Faulty variant: the shell appends to the file.
WrittenAppended(t, content) ==
    backups' = backups \cup
               {[name |-> BackupPath(t), snap |-> t, content |-> content]}

\* The shell truncates or creates the file before anything is sent.
Written(t, content) ==
    backups' = {b \in backups : b.name # BackupPath(t)} \cup
               {[name |-> BackupPath(t), snap |-> t, content |-> content]}

\* zfs snapshot, first when the agent starts and then every day; a name that
\* exists is refused.
Snapshot(ok) ==
    /\ pc.at = "loop"
    /\ task.at = "start" \/ (task.at = "sleep" /\ now > task.snap)
    /\ \/ /\ ok /\ now \notin snaps
          /\ snaps' = snaps \cup {now} /\ taken' = taken \cup {now}
          /\ task' = [at |-> "send", snap |-> now]
       \/ /\ ~ok
          /\ task' = [at |-> "sleep", snap |-> now]
          /\ UNCHANGED <<snaps, taken>>
    /\ UNCHANGED <<dataVars, trapVars, procVars, backups, gone, lifeVars>>

\* zfs send starts, unless a rollback has taken its snapshot away: then zstd
\* compresses nothing, and reports success.
StartSend ==
    /\ pc.at = "loop" /\ task.at = "send"
    /\ \/ /\ task.snap \in snaps
          /\ task' = [task EXCEPT !.at = "sending"]
          /\ Written(task.snap, "cut")
       \/ /\ task.snap \notin snaps
          /\ task' = [task EXCEPT !.at = "sleep"]
          /\ Written(task.snap, "empty")
    /\ UNCHANGED <<dataVars, trapVars, procVars, snaps, taken, gone, lifeVars>>

\* The status of the pipeline is that of zstd alone, so a cut backup may be
\* reported as a whole one; the task sleeps either way.
EndSend(sent, compressed) ==
    /\ pc.at = "loop" /\ task.at = "sending"
    /\ task' = [task EXCEPT !.at = "sleep"]
    /\ Written(task.snap, IF sent /\ compressed THEN "whole" ELSE "cut")
    /\ gone' = IF sent /\ compressed THEN gone
               ELSE gone \cup {<<task.snap, "export">>}
    /\ UNCHANGED <<dataVars, trapVars, procVars, snaps, taken, lifeVars>>

\* zfs rollback -r destroys the newer snapshots first.  One that is being sent
\* is busy: the rollback fails there, when others may be gone already.
Rollback ==
    /\ pc.at = "loop"
    /\ \/ /\ task.at # "sending"
          /\ home' = baseline /\ snaps' = {}
       \/ /\ task.at = "sending"
          /\ \E S \in SUBSET snaps : task.snap \in S /\ snaps' = S
          /\ UNCHANGED home
    /\ gone' = gone \cup (IF task.at = "send" /\ task.snap \in snaps
                          THEN {<<task.snap, "rollback">>} ELSE {})
    /\ UNCHANGED <<baseline, moves, trapVars, procVars, backups, task, taken,
                   lifeVars>>

-----------------------------------------------------------------------------
Tick ==
    /\ now < MaxTime
    /\ now' = now + 1
    /\ UNCHANGED <<dataVars, trapVars, procVars, snapVars, crashes>>

\* The agent ends: a step of the set-up fails (`?'), a poll error, a kill.  Its
\* maps, its tasks with their commands and its decoys end with it.
Crash ==
    /\ pc # Down /\ crashes < MaxCrashes
    /\ crashes' = crashes + 1 /\ pc' = Down
    /\ honeytokens' = [i \in Inos |-> 0] /\ guard' = [n \in Tokens |-> 0]
    /\ selfTrips' = {}
    /\ ghost_pids' = {} /\ todo' = Decoys
    /\ proc' = [p \in Pids |-> IF proc[p] = "other" THEN "other" ELSE "free"]
    /\ task' = Fresh
    /\ gone' = gone \cup (IF task.at \in {"send", "sending"}
                          THEN {<<task.snap, "restart">>} ELSE {})
    /\ UNCHANGED <<dataVars, snaps, backups, taken, now>>

\* Faulty variant: systemd restarts the agent at once.
RestartAtOnce ==
    /\ pc = Down
    /\ pc' = Start
    /\ UNCHANGED <<dataVars, honeytokens, guard, selfTrips, procVars, snapVars,
                   lifeVars>>

\* Restart=always with RestartSec=5: never within the second of the crash.
Restart ==
    /\ pc = Down /\ now < MaxTime
    /\ pc' = Start /\ now' = now + 1
    /\ UNCHANGED <<dataVars, honeytokens, guard, selfTrips, procVars, snapVars,
                   crashes>>

\* The SSH keys and another file may exist already, and be in the baseline.
Init ==
    /\ home \in [Files -> Inos \cup {0}]
    /\ home["aws"] = 0 /\ home["kube"] = 0
    /\ home["ssh"] = home["doc"] => home["doc"] = 0
    /\ baseline = home /\ snaps = {} /\ backups = {}
    /\ now = 1 /\ moves = 0 /\ crashes = 0
    /\ pc = Start /\ honeytokens = [i \in Inos |-> 0]
    /\ ghost_pids = {} /\ todo = Decoys /\ proc = [p \in Pids |-> "free"]
    /\ task = Fresh
    /\ guard = [n \in Tokens |-> 0] /\ selfTrips = {} /\ taken = {} /\ gone = {}

Setup == \/ \E n \in Tokens : WriteToken(n) \/ RegisterToken(n)
         \/ SkipSsh \/ RegisterDevices \/ EndSetup
         \/ \E d \in Decoys : StartDecoy(d)
Users == \/ \E n \in Files, i \in Inos \cup {0} : MoveFile(n, i)
         \/ \E p \in Pids : DecoyDies(p) \/ OtherProcess(p)
Daily == \/ \E ok \in BOOLEAN : Snapshot(ok)
         \/ StartSend
         \/ \E sent, compressed \in BOOLEAN : EndSend(sent, compressed)

Next == \/ Setup \/ AppendLog \/ Carve \/ FreezeSelf \/ Users \/ Daily \/ Rollback
        \/ Tick \/ Crash \/ Restart

Spec == Init /\ [][Next]_vars

-----------------------------------------------------------------------------
Steps == {"write", "register", "devices", "decoys", "loop", "frozen", "down"}

\* Type invariant; two files never share a number, and a backup its name.
TypeOK ==
    /\ home \in [Files -> Inos \cup {0}]
    /\ \A m, n \in Files : m # n /\ home[m] = home[n] => home[n] = 0
    /\ baseline \in [Files -> Inos \cup {0}]
    /\ now \in 0..MaxTime /\ moves \in 0..MaxMoves /\ crashes \in 0..MaxCrashes
    /\ pc \in [at: Steps, token: Tokens]
    /\ honeytokens \in [Inos -> 0..2] /\ guard \in [Tokens -> Inos \cup {0}]
    /\ ghost_pids \subseteq Pids /\ todo \subseteq Decoys
    /\ proc \in [Pids -> {"free", "decoy", "zombie", "other"}]
    /\ task \in [at: {"start", "sleep", "send", "sending"}, snap: 0..MaxTime]
    /\ snaps \subseteq taken /\ taken \subseteq 0..MaxTime
    /\ \A b, c \in backups : b.name = c.name => b = c
    /\ selfTrips \subseteq [file: Tokens \cup {"outside"}, ino: Inos]
    /\ gone \subseteq taken \X {"export", "rollback", "restart"}

\* The agent never trips a trap through the file the trap is for: every open of
\* its own that does trip one, during the set-up or later, in the data set or
\* outside, is of a file that shares its number with a device or with the trap
\* of another file.  So it stops itself only after such a coincidence.
SelfQuiet ==
    \A t \in selfTrips : \/ t.ino \in DevInos
                          \/ \E m \in Tokens \ {t.file} : guard[m] = t.ino

\* What the ghost hooks guard is a decoy, alive or dead, and never a process
\* that got the PID later.
GhostsAreDecoys == \A p \in ghost_pids : proc[p] \in {"decoy", "zombie"}

\* Every daily version of the data that was ever taken is still a snapshot, or
\* in a whole backup, or is lost for one of three reasons: its export failed,
\* a rollback came before its export, the agent ended during it.
VersionAccounted ==
    \A t \in taken :
        \/ t \in snaps
        \/ \E b \in backups : b.snap = t /\ b.content = "whole"
        \/ \E why \in {"export", "rollback", "restart"} : <<t, why>> \in gone

\* A whole backup is never written over: not after a rollback that frees the
\* name of its snapshot, nor by a restarted agent.
BackupsKept == [][\A b \in backups : b.content = "whole" => b \in backups']_vars

-----------------------------------------------------------------------------
(***************************************************************************)
(* What the repository says of the program and the program does not do.    *)
(***************************************************************************)

\* docs/FULL_DOCUMENTATION.md: the traps are "lethal, zero-false-positive": no
\* access to a file that is no trap file trips one.
ZeroFalsePositives ==
    \A n \in Files \ Tokens : home[n] # 0 => honeytokens[home[n]] = 0

=============================================================================

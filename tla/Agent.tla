------------------------------- MODULE Agent -------------------------------
(***************************************************************************)
(* The detection-to-response pipeline of the ALPHVDR agent:                *)
(*                                                                         *)
(*   eBPF hook --> `events' ring --> ring callback --> mpsc --> responder  *)
(*   (kernel)                        (main loop)       (tx/rx)  (freeze,   *)
(*                                                               carve,    *)
(*                                                               route)    *)
(*                                                                         *)
(* with what disturbs it: PID reuse, research mode, a full ring or channel,*)
(* ring memory that still holds earlier records, a full disk, a poll error *)
(* that ends main(), a killed agent and the restart by systemd.            *)
(***************************************************************************)
EXTENDS Naturals, Sequences

CONSTANTS
    Pids,        \* process ids
    Kinds,       \* the kernel traps of the instance, a subset of Traps
    Paths,       \* the classes of exec path of the instance
    Comms,       \* the classes of command name of the instance
    Infected,    \* PIDs whose processes may carry a YARA signature
    NoSignal,    \* PIDs of processes the agent may not signal: those of other
                 \* users than root, as its unit withholds CAP_KILL
    Opaque,      \* PIDs of processes whose /proc/PID/maps is not UTF-8 or has
                 \* a line that does not parse
    DiskMayFill, \* can the disk fill up?
    RingSlots,   \* records the `events' ring holds (256 KB / 296 bytes)
    ChanCap,     \* capacity of the response channel (1000)
    MaxEvents,   \* bound: records the hooks try to write
    MaxGen,      \* bound: processes that use one PID one after the other
    MaxToggles,  \* bound: toggles of the research-mode file
    MaxCrashes   \* bound: times the agent goes down

\* Traps whose hook only reports: user space must freeze the process.
UserTraps == {"HONEYTOKEN_TRIGGERED", "GHOST_PROCESS_TRAP"}

\* Traps whose hook sends SIGSTOP itself before it writes the record.
KernelTraps == {"PRIVILEGE_ESCALATION_TRAP", "UNAUTHORIZED_EXEC_TRAP",
                "SELF_DEFENSE_TRAP", "INODE_EXHAUSTION_TRAP",
                "JOURNALD_EXHAUSTION_TRAP"}

Traps == UserTraps \cup KernelTraps

\* "pwn": contains "/tmp/pwn"; "enc": ends with ".enc"; "plain": neither.
AllPaths == {"plain", "pwn", "enc"}
AllComms == {"other", "malware", "ransomware"}

ASSUME KindsAssumption  == Kinds \subseteq Traps
ASSUME PathsAssumption  == Paths \subseteq AllPaths
ASSUME CommsAssumption  == Comms \subseteq AllComms
ASSUME HostAssumption   == /\ Infected \subseteq Pids /\ NoSignal \subseteq Pids
                           /\ Opaque \subseteq Pids
                           /\ DiskMayFill \in BOOLEAN
ASSUME BoundsAssumption ==
    /\ RingSlots \in Nat \ {0} /\ ChanCap \in Nat \ {0}
    /\ MaxEvents \in Nat /\ MaxGen \in Nat \ {0}
    /\ MaxToggles \in Nat /\ MaxCrashes \in Nat

VARIABLES
    \* the host
    proc,           \* proc[p]: is PID p in use, and is its process stopped?
    gen,            \* gen[p]: which process, counted from 1, last had PID p
    flagFile,       \* does /tmp/ALPHVDR_RESEARCH_MODE exist?
    toggles,
    disk,           \* the file system of the WAL and of the core dumps
    wal,            \* lines of the QIHSE write-ahead log: <<record, line>>
    blobs,          \* complete core dump blobs in /tmp/alphvdr/carved
    analyses,       \* blobs a KP14 analysis was started for
    \* the kernel side
    nextId,         \* number of the next record a hook tries to write
    ring,           \* the `events' ring, oldest record first
    produced,       \* records written since the ring was created
    imprint,        \* path classes left behind in the ring's memory
    \* the agent process
    agent,          \* "up", "draining" (main returned), "down"
    crashes,
    research_mode,  \* the AtomicBool
    loop,           \* where the main loop is in the ring callback,
    why,            \* and the check it is at
    chan,           \* the response channel
    resp,           \* the responder task
    \* history
    trips,          \* traps that fired: [id, pid]
    evidence,       \* what really incriminates a process: [id, pid, gen, why]
    frozen,         \* orders whose kill succeeded, with the process it hit
    answered,       \* ids whose order the responder received
    lost,           \* <<id, why>>: traps whose order was never sent or received
    rolled          \* ids whose record rolled the ZFS data set back

hostVars   == <<proc, gen, flagFile, toggles, disk>>
kernelVars == <<nextId, ring, produced, imprint>>
walVars    == <<wal>>
loopVars   == <<loop, why>>
blobVars   == <<blobs, analyses>>
lifeVars   == <<agent, crashes, research_mode>>
history    == <<trips, evidence, frozen, answered, lost, rolled>>
vars == <<hostVars, kernelVars, walVars, blobVars, lifeVars, loopVars, chan,
          resp, history>>

Ids  == 1..MaxEvents
Gens == 0..MaxGen
Tails == SUBSET {"junk", "pwn", "enc"}
Records == [id: Ids, pid: Pids, gen: Gens, text: Traps \cup AllPaths,
            comm: AllComms, tail: Tails]
Idle == [at |-> "idle"]

\* The checks of the callback, in their order, each with a freeze order of its
\* own.
Whys == {"trap", "yara", "mock", "ransom"}
Orders == [id: Ids, pid: Pids, why: Whys]

\* The lines of the log: the event, a YARA match, the freeze for each of the
\* reasons, the rollback.  A line is kept with the record it was written for.
Lines == {"event", "yara_match", "rollback"} \cup Whys
Reasons == {"ring_full", "research", "unread", "chan_full", "restart"}

-----------------------------------------------------------------------------
(***************************************************************************)
(* Records.  The hooks copy a text and its NUL into the 256-byte `filename'*)
(* of a reserved record; bpf_ringbuf_reserve does not clear the rest, and  *)
(* user space decodes all 256 bytes and trims NULs only at the very end.   *)
(* `tail' is what earlier records left behind the text: {} is nothing,     *)
(* otherwise the path classes that can be recognised in it, or "junk".     *)
(***************************************************************************)
StaleTails == IF produced < RingSlots THEN {{}}
              ELSE (SUBSET imprint) \cup {{"junk"}}

\* Faulty variant: the comparisons with the kernel-frozen traps are missing.
FilenameIsUserTrap(r, texts) == r.text \in texts \cap UserTraps /\ r.tail = {}

\* filename == "<trap>"
FilenameIs(r, texts) == r.text \in texts /\ r.tail = {}

\* filename.contains("/tmp/pwn")
ContainsPwn(r) == r.text = "pwn" \/ "pwn" \in r.tail

\* Faulty variant: any bytes behind the text count as an encrypted name.
EndsWithAnything(r) == r.text = "enc" \/ r.tail # {}

\* filename.ends_with(".enc")
EndsWithEnc(r) == IF r.tail = {} THEN r.text = "enc" ELSE "enc" \in r.tail

\* What a record truly says of the process that caused it, and what only the
\* bytes behind its text say.
Incriminates(r) ==
    {[id |-> r.id, pid |-> r.pid, gen |-> r.gen, why |-> w] : w \in
        ({r.text} \cap {"pwn", "enc"})
        \cup ({r.comm} \cap {"malware", "ransomware"})
        \cup (IF r.text \in Traps THEN {"trap"} ELSE {})
        \cup (IF "pwn" \in r.tail THEN {"stale_pwn"} ELSE {})
        \cup (IF "enc" \in r.tail THEN {"stale_enc"} ELSE {})}

-----------------------------------------------------------------------------
(***************************************************************************)
(* The kernel side and the host.                                           *)
(***************************************************************************)

\* bpf_ringbuf_reserve .. bpf_ringbuf_submit: nothing is written when the
\* ring is full.
Submit(p, text, comm) ==
    /\ nextId <= MaxEvents
    /\ nextId' = nextId + 1
    /\ \/ /\ Len(ring) < RingSlots
          /\ \E tail \in StaleTails :
                LET r == [id |-> nextId, pid |-> p, gen |-> gen[p],
                          text |-> text, comm |-> comm, tail |-> tail]
                IN  /\ ring' = Append(ring, r)
                    /\ evidence' = evidence \cup Incriminates(r)
          /\ produced' = produced + 1
          /\ imprint' = imprint \cup ({text} \cap {"pwn", "enc"})
          /\ UNCHANGED lost
       \/ /\ Len(ring) = RingSlots
          /\ lost' = IF text \in Traps
                     THEN lost \cup {<<nextId, "ring_full">>} ELSE lost
          /\ evidence' = IF text \in Traps
                         THEN evidence \cup
                              {[id |-> nextId, pid |-> p, gen |-> gen[p],
                                why |-> "trap"]}
                         ELSE evidence
          /\ UNCHANGED <<ring, produced, imprint>>

\* A trap fires on a system call of process p.  The hook's SIGSTOP, if it
\* sends one, comes first and does not depend on the record.
Trip(p, kind, comm) ==
    /\ agent = "up" /\ proc[p] = "running"
    /\ Submit(p, kind, comm)
    /\ proc' = IF kind \in KernelTraps THEN [proc EXCEPT ![p] = "stopped"]
               ELSE proc
    /\ trips' = trips \cup {[id |-> nextId, pid |-> p]}
    /\ UNCHANGED <<gen, flagFile, toggles, disk, wal, blobVars, lifeVars, loopVars,
                   chan, resp, frozen, answered, rolled>>

\* Any other execve of process p is reported with its path.
Exec(p, path, comm) ==
    /\ agent = "up" /\ proc[p] = "running"
    /\ Submit(p, path, comm)
    /\ UNCHANGED <<hostVars, wal, blobVars, lifeVars, loopVars, chan, resp, trips,
                   frozen, answered, rolled>>

\* Process p exits, or is killed while stopped.
Exit(p) ==
    /\ proc[p] # "gone"
    /\ proc' = [proc EXCEPT ![p] = "gone"]
    /\ UNCHANGED <<gen, flagFile, toggles, disk, kernelVars, wal, blobVars,
                   lifeVars, loopVars, chan, resp, history>>

\* The kernel gives the PID to a new process.
Spawn(p) ==
    /\ proc[p] = "gone" /\ gen[p] < MaxGen
    /\ proc' = [proc EXCEPT ![p] = "running"]
    /\ gen' = [gen EXCEPT ![p] = @ + 1]
    /\ UNCHANGED <<flagFile, toggles, disk, kernelVars, wal, blobVars, lifeVars,
                   loopVars, chan, resp, history>>

\* scripts/toggle_dev_mode.sh
ToggleFile ==
    /\ toggles < MaxToggles
    /\ toggles' = toggles + 1
    /\ flagFile' = ~flagFile
    /\ UNCHANGED <<proc, gen, disk, kernelVars, wal, blobVars, lifeVars, loopVars,
                   chan, resp, history>>

DiskFills ==
    /\ DiskMayFill /\ disk = "ok"
    /\ disk' = "full"
    /\ UNCHANGED <<proc, gen, flagFile, toggles, kernelVars, wal, blobVars,
                   lifeVars, loopVars, chan, resp, history>>

-----------------------------------------------------------------------------
(***************************************************************************)
(* The main loop: ringbuf.poll runs the callback on the oldest record, and *)
(* the record leaves the ring when the callback returns.  The callback     *)
(* shares nothing but the channel and the WAL with the other tasks; its    *)
(* appends and its sends are steps of their own, because processes exit,   *)
(* the responder works and the agent may be killed between them.           *)
(***************************************************************************)
Rec == Head(ring)

\* Faulty variant: the actions are not appended.
LoggedEventOnly(id, lines) ==
    wal' = IF disk = "ok" THEN wal \cup ({id} \X (lines \cap {"event"})) ELSE wal

\* insert_event, insert_yara_match, insert_edr_action: a failed append is only
\* reported.
Logged(id, lines) ==
    wal' = IF disk = "ok" THEN wal \cup ({id} \X lines) ELSE wal

\* The freeze order of record r for the check the callback is at; on the wire
\* it is the PID alone.
Order(r) == [id |-> r.id, pid |-> r.pid, why |-> why]

\* Faulty variant: an unbounded channel.
DispatchUnbounded(r) == chan' = Append(chan, Order(r))

\* Faulty variant: the newest order is taken up first.
DispatchFirst(r) ==
    chan' = IF Len(chan) < ChanCap THEN <<Order(r)>> \o chan ELSE chan

\* tx_exec.try_send(event.pid): a full channel drops the order.
Dispatch(r) ==
    chan' = IF Len(chan) < ChanCap THEN Append(chan, Order(r)) ELSE chan

\* The callback goes on to check w, or to step at of the check it is at.
Check(w) == loop' = "check" /\ why' = w
Goto(at) == loop' = at /\ UNCHANGED why

\* Faulty variant: the newest record is freed instead of the oldest.
ReturnNewest ==
    /\ ring' = SubSeq(ring, 1, Len(ring) - 1)
    /\ loop' = "poll" /\ why' = "trap"
    /\ UNCHANGED <<nextId, produced, imprint>>

Return ==
    /\ ring' = Tail(ring)
    /\ loop' = "poll" /\ why' = "trap"
    /\ UNCHANGED <<nextId, produced, imprint>>

\* Faulty variant: in research mode records are left in the ring.
BypassPaused ==
    /\ agent = "up" /\ loop = "poll" /\ ring # <<>>
    /\ research_mode
    /\ UNCHANGED vars

\* The bypass of research mode: the callback returns before it logs anything.
Bypass ==
    /\ agent = "up" /\ loop = "poll" /\ ring # <<>>
    /\ research_mode
    /\ Return
    /\ lost' = IF Rec.text \in Traps THEN lost \cup {<<Rec.id, "research">>}
               ELSE lost
    /\ UNCHANGED <<hostVars, wal, blobVars, lifeVars, chan, resp, trips,
                   evidence, frozen, answered, rolled>>

\* insert_event
LogEvent ==
    /\ agent = "up" /\ loop = "poll" /\ ring # <<>>
    /\ ~research_mode
    /\ Logged(Rec.id, {"event"})
    /\ Check("trap")
    /\ UNCHANGED <<hostVars, kernelVars, blobVars, lifeVars, chan, resp, history>>

\* The seven comparisons of the file name with a trap's text; the one that
\* holds appends its action.
CheckTrap ==
    /\ agent = "up" /\ loop = "check" /\ why = "trap"
    /\ \/ /\ FilenameIs(Rec, Traps)
          /\ Logged(Rec.id, {"trap"})
          /\ Goto("send")
          /\ UNCHANGED lost
       \/ /\ ~FilenameIs(Rec, Traps)
          /\ lost' = IF Rec.text \in Traps /\ Rec.tail # {}
                     THEN lost \cup {<<Rec.id, "unread">>} ELSE lost
          /\ Check("yara")
          /\ UNCHANGED wal
    /\ UNCHANGED <<hostVars, kernelVars, blobVars, lifeVars, chan, resp, trips,
                   evidence, frozen, answered, rolled>>

\* scan_process_memory(event.pid) reads whatever process has the PID now.
YaraMatch ==
    /\ agent = "up" /\ loop = "check" /\ why = "yara"
    /\ Rec.pid \in Infected /\ proc[Rec.pid] # "gone"
    /\ evidence' = evidence \cup
          {[id |-> Rec.id, pid |-> Rec.pid, gen |-> gen[Rec.pid],
            why |-> "yara"]}
    /\ Logged(Rec.id, {"yara_match", "yara"})
    /\ Goto("send")
    /\ UNCHANGED <<hostVars, kernelVars, blobVars, lifeVars, chan, resp, trips,
                   frozen, answered, lost, rolled>>

YaraClean ==
    /\ agent = "up" /\ loop = "check" /\ why = "yara"
    /\ Check("mock")
    /\ UNCHANGED <<hostVars, kernelVars, wal, blobVars, lifeVars, chan, resp,
                   history>>

\* HEURISTIC_MOCK_THREAT
MockThreat(r) == r.comm = "malware" \/ ContainsPwn(r)

CheckMock ==
    /\ agent = "up" /\ loop = "check" /\ why = "mock"
    /\ \/ MockThreat(Rec) /\ Logged(Rec.id, {"mock"}) /\ Goto("send")
       \/ ~MockThreat(Rec) /\ Check("ransom") /\ UNCHANGED wal
    /\ UNCHANGED <<hostVars, kernelVars, blobVars, lifeVars, chan, resp, history>>

\* RANSOMWARE_ENCRYPTION_BURST
Ransomware(r) == r.comm = "ransomware" \/ EndsWithEnc(r)

CheckRansom ==
    /\ agent = "up" /\ loop = "check" /\ why = "ransom"
    /\ \/ /\ Ransomware(Rec)
          /\ Logged(Rec.id, {"ransom", "rollback"})
          /\ Goto("send")
          /\ UNCHANGED kernelVars
       \/ ~Ransomware(Rec) /\ Return /\ UNCHANGED wal
    /\ UNCHANGED <<hostVars, blobVars, lifeVars, chan, resp, history>>

\* The try_send that ends each check that struck; after the ransomware check
\* the rollback follows, after the others the next check.
Send ==
    /\ agent = "up" /\ loop = "send"
    /\ Dispatch(Rec)
    /\ lost' = IF why = "trap" /\ Len(chan) = ChanCap
               THEN lost \cup {<<Rec.id, "chan_full">>} ELSE lost
    /\ \/ why = "trap"   /\ Check("yara")
       \/ why = "yara"   /\ Check("mock")
       \/ why = "mock"   /\ Check("ransom")
       \/ why = "ransom" /\ Goto("rollback")
    /\ UNCHANGED <<hostVars, kernelVars, wal, blobVars, lifeVars, resp, trips,
                   evidence, frozen, answered, rolled>>

\* trigger_rollback blocks the callback until `zfs rollback' has ended; an
\* error is only logged.
Rollback(ok) ==
    /\ agent = "up" /\ loop = "rollback"
    /\ Return
    /\ rolled' = IF ok THEN rolled \cup {Rec.id} ELSE rolled
    /\ UNCHANGED <<hostVars, wal, blobVars, lifeVars, chan, resp, trips,
                   evidence, frozen, answered, lost>>

\* Faulty variant: the flag is set but never cleared.
MonitorPollLatch ==
    /\ agent = "up"
    /\ research_mode' = (research_mode \/ flagFile)
    /\ UNCHANGED <<hostVars, kernelVars, wal, blobVars, agent, crashes, loopVars,
                   chan, resp, history>>

\* One poll of the research-mode monitor, every two seconds.
MonitorPoll ==
    /\ agent = "up"
    /\ research_mode' = flagFile
    /\ UNCHANGED <<hostVars, kernelVars, wal, blobVars, agent, crashes, loopVars,
                   chan, resp, history>>

-----------------------------------------------------------------------------
(***************************************************************************)
(* The responder task.  It finishes the order it is working on even after  *)
(* main() has returned, because dropping the runtime waits for the worker. *)
(***************************************************************************)

\* Faulty variant: the result of kill is tested the wrong way round.
FreezeInverted ==
    /\ agent # "down" /\ resp.at = "idle" /\ chan # <<>>
    /\ LET o == Head(chan) IN
          /\ answered' = answered \cup {o.id}
          /\ \/ /\ proc[o.pid] # "gone"
                /\ proc' = [proc EXCEPT ![o.pid] = "stopped"]
                /\ frozen' = frozen \cup {[order |-> o, gen |-> gen[o.pid]]}
                /\ UNCHANGED resp
             \/ /\ proc[o.pid] = "gone"
                /\ resp' = [at |-> "maps", id |-> o.id, pid |-> o.pid]
                /\ UNCHANGED <<proc, frozen>>
    /\ chan' = Tail(chan)
    /\ UNCHANGED <<gen, flagFile, toggles, disk, kernelVars, wal, blobVars,
                   lifeVars, loopVars, trips, evidence, lost, rolled>>

\* kill(pid, SIGSTOP) == 0
Signalled(p) == proc[p] # "gone" /\ p \notin NoSignal

\* recv() and kill; when kill fails, because there is no such process or the
\* agent may not signal it, the order is over.
Freeze ==
    /\ agent # "down" /\ resp.at = "idle" /\ chan # <<>>
    /\ LET o == Head(chan) IN
          /\ answered' = answered \cup {o.id}
          /\ \/ /\ Signalled(o.pid)
                /\ proc' = [proc EXCEPT ![o.pid] = "stopped"]
                /\ frozen' = frozen \cup {[order |-> o, gen |-> gen[o.pid]]}
                /\ resp' = [at |-> "maps", id |-> o.id, pid |-> o.pid]
             \/ /\ ~Signalled(o.pid)
                /\ UNCHANGED <<proc, frozen, resp>>
    /\ chan' = Tail(chan)
    /\ UNCHANGED <<gen, flagFile, toggles, disk, kernelVars, wal, blobVars,
                   lifeVars, loopVars, trips, evidence, lost, rolled>>

\* parse_vma_layout: a failed read of /proc/PID/maps or a line that does not
\* parse gives the carve up.
ReadMaps ==
    /\ agent # "down" /\ resp.at = "maps"
    /\ resp' = IF proc[resp.pid] = "gone" \/ resp.pid \in Opaque THEN Idle
               ELSE [at |-> "mem", id |-> resp.id, pid |-> resp.pid,
                     maps |-> gen[resp.pid]]
    /\ UNCHANGED <<hostVars, kernelVars, wal, blobVars, lifeVars, loopVars,
                   chan, history>>

\* carve_memory: one open of /proc/PID/mem serves every region; a region that
\* cannot be read is skipped.
ReadMem ==
    /\ agent # "down" /\ resp.at = "mem"
    /\ resp' = IF proc[resp.pid] = "gone" THEN Idle
               ELSE [at |-> "package", id |-> resp.id, pid |-> resp.pid,
                     maps |-> resp.maps, mem |-> gen[resp.pid]]
    /\ UNCHANGED <<hostVars, kernelVars, wal, blobVars, lifeVars, loopVars,
                   chan, history>>

\* capture_register_state, which cannot fail, and package_core_dump.
Package ==
    /\ agent # "down" /\ resp.at = "package"
    /\ LET b == [pid |-> resp.pid, maps |-> resp.maps, mem |-> resp.mem,
                 regs |-> IF proc[resp.pid] = "gone" THEN 0
                          ELSE gen[resp.pid]]
       IN  \/ /\ disk = "ok"
              /\ blobs' = blobs \cup {b}
              /\ resp' = [at |-> "route", id |-> resp.id, blob |-> b]
           \/ /\ disk = "full"
              /\ resp' = Idle
              /\ UNCHANGED blobs
    /\ UNCHANGED <<hostVars, kernelVars, wal, analyses, lifeVars, loopVars,
                   chan, history>>

\* route_to_kp14; the analysis is started whether it succeeds or not, through
\* the hot-plugged volume or by direct SSH.  A runtime that shuts down may
\* refuse to start it.
Route ==
    /\ agent # "down" /\ resp.at = "route"
    /\ \/ analyses' = analyses \cup {resp.blob}
       \/ agent = "draining" /\ UNCHANGED analyses
    /\ resp' = Idle
    /\ UNCHANGED <<hostVars, kernelVars, wal, blobs, lifeVars, loopVars,
                   chan, history>>

Respond == Freeze \/ ReadMaps \/ ReadMem \/ Package \/ Route

-----------------------------------------------------------------------------
(***************************************************************************)
(* The life of the agent process.                                          *)
(***************************************************************************)

\* The trap orders that a lost ring takes with it: those whose record has not
\* got past the comparison with the trap texts and the order that follows.
Unchecked(i) == ring[i].text \in Traps /\ (i = 1 => why = "trap")
RingTraps == {ring[i].id : i \in {j \in 1..Len(ring) : Unchecked(j)}}
ChanTraps == {chan[i].id : i \in 1..Len(chan)}
                \cap {t.id : t \in trips}

\* Main returns: its locals go, the skeleton with the hooks and the ring too.
DropRing ==
    /\ ring' = <<>> /\ produced' = 0 /\ imprint' = {}
    /\ loop' = "poll" /\ why' = "trap"
    /\ UNCHANGED nextId

\* ringbuf.poll(..)? fails between two callbacks (EINTR, for one).
PollError ==
    /\ agent = "up" /\ loop = "poll" /\ crashes < MaxCrashes
    /\ agent' = "draining" /\ crashes' = crashes + 1
    /\ DropRing
    /\ lost' = lost \cup {<<i, "restart">> : i \in RingTraps}
    /\ UNCHANGED <<hostVars, wal, blobVars, research_mode, chan, resp, trips,
                   evidence, frozen, answered, rolled>>

\* The runtime has shut down: orders still queued go with it.
ShutdownDone ==
    /\ agent = "draining" /\ resp.at = "idle"
    /\ agent' = "down"
    /\ chan' = <<>>
    /\ lost' = lost \cup {<<i, "restart">> : i \in ChanTraps}
    /\ UNCHANGED <<hostVars, kernelVars, wal, blobVars, crashes, research_mode,
                   loopVars, resp, trips, evidence, frozen, answered, rolled>>

\* The process dies at once (SIGKILL, OOM): handle_kill stops the sender of
\* the signal but does not hold the signal back.
Killed ==
    /\ agent # "down" /\ crashes < MaxCrashes
    /\ agent' = "down" /\ crashes' = crashes + 1
    /\ DropRing
    /\ chan' = <<>> /\ resp' = Idle
    /\ lost' = lost \cup {<<i, "restart">> : i \in RingTraps \cup ChanTraps}
    /\ UNCHANGED <<hostVars, wal, blobVars, research_mode, trips, evidence,
                   frozen, answered, rolled>>

\* Faulty variant: the restart gives up after repeated failures.
RestartLimited ==
    /\ agent = "down" /\ crashes < MaxCrashes
    /\ agent' = "up"
    /\ research_mode' = FALSE
    /\ UNCHANGED <<hostVars, kernelVars, wal, blobVars, crashes, loopVars, chan,
                   resp, history>>

\* systemd, Restart=always: a new process with new maps and a fresh AtomicBool.
Restart ==
    /\ agent = "down"
    /\ agent' = "up"
    /\ research_mode' = FALSE
    /\ UNCHANGED <<hostVars, kernelVars, wal, blobVars, crashes, loopVars, chan,
                   resp, history>>

-----------------------------------------------------------------------------
Init ==
    /\ proc = [p \in Pids |-> "running"] /\ gen = [p \in Pids |-> 1]
    /\ flagFile = FALSE /\ toggles = 0 /\ disk = "ok"
    /\ wal = {} /\ blobs = {} /\ analyses = {}
    /\ nextId = 1 /\ ring = <<>> /\ produced = 0 /\ imprint = {}
    /\ agent = "up" /\ crashes = 0 /\ research_mode = FALSE
    /\ loop = "poll" /\ why = "trap" /\ chan = <<>> /\ resp = Idle
    /\ trips = {} /\ evidence = {} /\ frozen = {} /\ answered = {}
    /\ lost = {} /\ rolled = {}

Hooks == \E p \in Pids, c \in Comms :
            \/ \E k \in Kinds : Trip(p, k, c)
            \/ \E f \in Paths : Exec(p, f, c)

Host == ToggleFile \/ DiskFills \/ \E p \in Pids : Exit(p) \/ Spawn(p)

Yara == YaraMatch \/ YaraClean
RollbackEnds == \E ok \in BOOLEAN : Rollback(ok)

Callback == Bypass \/ LogEvent \/ CheckTrap \/ Yara \/ CheckMock
                \/ CheckRansom \/ Send \/ RollbackEnds

Life == PollError \/ ShutdownDone \/ Killed \/ Restart

Next == Hooks \/ Host \/ Callback \/ MonitorPoll \/ Respond \/ Life

\* The main loop, the responder and the monitor are threads or tasks that the
\* scheduler keeps running, and every command they wait for ends; systemd
\* restarts the agent.
Fairness ==
    /\ WF_vars(Callback) /\ WF_vars(Respond) /\ WF_vars(MonitorPoll)
    /\ WF_vars(ShutdownDone) /\ WF_vars(Restart)

Spec == Init /\ [][Next]_vars
FairSpec == Spec /\ Fairness

-----------------------------------------------------------------------------
(***************************************************************************)
(* Properties.                                                             *)
(***************************************************************************)
Evidence == [id: Ids, pid: Pids, gen: Gens,
             why: {"trap", "yara", "malware", "pwn", "ransomware", "enc",
                   "stale_pwn", "stale_enc"}]
Blobs == [pid: Pids, maps: Gens, mem: Gens, regs: Gens]

\* The states of the responder task.
RespStates ==
    {Idle}
    \cup [at: {"maps"}, id: Ids, pid: Pids]
    \cup [at: {"mem"}, id: Ids, pid: Pids, maps: Gens]
    \cup [at: {"package"}, id: Ids, pid: Pids, maps: Gens, mem: Gens]
    \cup [at: {"route"}, id: Ids, blob: Blobs]

HostTyped ==
    /\ proc \in [Pids -> {"running", "stopped", "gone"}]
    /\ gen \in [Pids -> 1..MaxGen]
    /\ flagFile \in BOOLEAN /\ toggles \in 0..MaxToggles
    /\ disk \in {"ok", "full"}
    /\ wal \subseteq Ids \X Lines
    /\ blobs \subseteq Blobs /\ analyses \subseteq Blobs

KernelTyped ==
    /\ nextId \in 1..(MaxEvents + 1)
    /\ ring \in Seq(Records) /\ Len(ring) <= RingSlots
    /\ produced \in 0..MaxEvents /\ produced < nextId
    /\ imprint \subseteq {"pwn", "enc"}

AgentTyped ==
    /\ agent \in {"up", "draining", "down"} /\ crashes \in 0..MaxCrashes
    /\ research_mode \in BOOLEAN
    /\ loop \in {"poll", "check", "send", "rollback"} /\ why \in Whys
    /\ loop # "poll" => ring # <<>>
    /\ loop = "poll" => why = "trap"
    /\ loop = "rollback" => why = "ransom"
    /\ chan \in Seq(Orders) /\ Len(chan) <= ChanCap
    /\ resp \in RespStates

HistoryTyped ==
    /\ trips \subseteq [id: Ids, pid: Pids]
    /\ evidence \subseteq Evidence
    /\ frozen \subseteq [order: Orders, gen: 1..MaxGen]
    /\ answered \subseteq Ids
    /\ lost \subseteq Ids \X Reasons
    /\ rolled \subseteq Ids

\* Type invariant: the ring and the channel stay within their capacities and
\* the callback is inside a record only when there is one.
TypeOK == HostTyped /\ KernelTyped /\ AgentTyped /\ HistoryTyped

\* Every trap that ever fired is on its way to the responder, was received by
\* it, or was lost for one of five reasons: a full ring, research mode, a
\* record whose stale tail hides the trap's text, a full channel, the end of
\* the agent process.  Nothing else loses a trap, in any interleaving.
InRing(id)  == \E i \in 1..Len(ring) : ring[i].id = id /\ Unchecked(i)
InChan(id)  == \E i \in 1..Len(chan) : chan[i].id = id
LostFor(id) == \E w \in Reasons : <<id, w>> \in lost

TrapAccounted ==
    \A t \in trips : InRing(t.id) \/ InChan(t.id) \/ t.id \in answered
                        \/ LostFor(t.id)

\* What counts as grounds for each check.
Grounds(w) == CASE w = "trap"   -> {"trap"}
                [] w = "yara"   -> {"yara"}
                [] w = "mock"   -> {"malware", "pwn", "stale_pwn"}
                [] w = "ransom" -> {"ransomware", "enc", "stale_enc"}

\* Evidence from stale bytes goes back to an earlier record that really had
\* the path.
Sound(e) ==
    /\ e.why = "stale_pwn" => \E d \in evidence : d.why = "pwn" /\ d.id < e.id
    /\ e.why = "stale_enc" => \E d \in evidence : d.why = "enc" /\ d.id < e.id

\* The process that has PID p was caught by a hook, by itself.
HookStopped(p) ==
    \E e \in evidence : e.pid = p /\ e.gen = gen[p] /\ e.why = "trap"

\* The responder stopped the process that has PID p now, on an order for which
\* the very record it was sent for has grounds against that PID, in this
\* process or in an earlier one.
OrderStopped(p) ==
    \E f \in frozen, e \in evidence :
        /\ f.order.pid = p /\ f.gen = gen[p]
        /\ e.id = f.order.id /\ e.pid = p /\ e.gen <= gen[p]
        /\ e.why \in Grounds(f.order.why) /\ Sound(e)

\* A process is stopped only if it tripped a trap itself, or if the responder
\* stopped it for an order whose own record has grounds for that very reason
\* against its PID.  Orders never cross records or PIDs, junk bytes stop no one,
\* stale bytes count only when an earlier record really had that path, and a
\* process that only inherited its PID is never stopped by anything but an order
\* that an earlier process with the PID gave grounds for.
StopJustified ==
    \A p \in Pids : proc[p] = "stopped" => HookStopped(p) \/ OrderStopped(p)

\* The pipeline is first-in first-out from the kernel to the kill: the order
\* in hand, the queued orders and the ring hold record numbers in the order in
\* which the hooks wrote the records, and all orders of one record come before
\* those of the next.
NotAfter(id, j) ==
    IF j = 1 /\ why # "trap" THEN id <= ring[j].id ELSE id < ring[j].id

PipelineOrdered ==
    /\ \A i, j \in 1..Len(ring) : i < j => ring[i].id < ring[j].id
    /\ \A i, j \in 1..Len(chan) : i < j => chan[i].id <= chan[j].id
    /\ \A i \in 1..Len(chan), j \in 1..Len(ring) : NotAfter(chan[i].id, j)
    /\ resp.at # "idle" =>
          /\ \A i \in 1..Len(chan) : resp.id <= chan[i].id
          /\ \A j \in 1..Len(ring) : NotAfter(resp.id, j)

\* Write-ahead: as long as the disk takes writes, every order in the channel,
\* every order the responder carried out and every rollback has the event and
\* the action of its own record and of its own reason in the log before it.
OrdersOut == {chan[i] : i \in 1..Len(chan)} \cup {f.order : f \in frozen}
RollbacksOut == rolled \cup (IF loop = "rollback" THEN {Rec.id} ELSE {})

WriteAhead ==
    disk = "ok" =>
        /\ \A o \in OrdersOut : {<<o.id, "event">>, <<o.id, o.why>>} \subseteq wal
        /\ \A i \in RollbacksOut :
              {<<i, "event">>, <<i, "ransom">>, <<i, "rollback">>} \subseteq wal

\* A process the responder froze and that still lives has been carved whole
\* (layout, memory and registers of this very process) by the time the
\* responder is done with its PID, unless its maps cannot be read, the disk was
\* full or the agent died.
FrozenIsCarved ==
    \A f \in frozen :
        LET p == f.order.pid IN
        (/\ disk = "ok" /\ crashes = 0 /\ p \notin Opaque
         /\ gen[p] = f.gen /\ proc[p] # "gone"
         /\ resp.at \in {"maps", "mem", "package"} => resp.pid # p)
        => [pid |-> p, maps |-> f.gen, mem |-> f.gen, regs |-> f.gen] \in blobs

\* Every trap that fired is eventually received by the responder or lost for
\* one of the five reasons: no trap waits for ever behind a carve, a rollback,
\* research mode or a restart.
TrapResolved ==
    \A i \in Ids : (i \in {t.id : t \in trips})
                       ~> (i \in answered \/ LostFor(i))

\* Once the toggle file has settled, the flag the callback reads settles to the
\* same value, restarts in between included.
ResearchFollowsFile == <>[](research_mode = flagFile)

\* When the hooks have nothing more to report, the agent is up and ring,
\* channel and responder are empty for good.
Drained ==
    <>[](agent = "up" /\ ring = <<>> /\ chan = <<>> /\ resp.at = "idle")

-----------------------------------------------------------------------------
(***************************************************************************)
(* What the repository says of the program and the program does not do.    *)
(***************************************************************************)

\* scripts/toggle_dev_mode.sh: the research-mode file "disarms eBPF traps and
\* behavioral heuristics": once the agent has seen the file, no process that
\* runs gets stopped by a hook.
ResearchModeDisarmsTraps ==
    [][research_mode /\ flagFile =>
         ~ /\ nextId' # nextId
           /\ \E p \in Pids : proc[p] = "running" /\ proc'[p] = "stopped"]_vars

\* docs/FULL_DOCUMENTATION.md: any attempt on a trap file "triggers an instant
\* freeze": the callback recognises every trap record it reads.
TrapRecordsRecognised == \A i \in Ids : <<i, "unread">> \notin lost

=============================================================================

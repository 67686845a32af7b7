# ALPHVDR in TLA+

ALPHVDR is an endpoint detection and response agent for Linux: eBPF programs
watch system calls, a Rust agent (tokio) receives their records, freezes
processes, carves their memory and sends it to an analysis VM. This directory
holds TLA+ models of the parts that carry this logic, the TLC configurations
that check them on small instances, and TLAPS proofs of their main invariants.

## Inventory

| Component | State | Operations | What makes it correct |
|---|---|---|---|
| Sensor hooks (`src-bpf/sensor.bpf.c`) | maps `agent_pid`, `honeytokens`, `ghost_pids`, two LRU count maps, rings `events`, `tls_events` | `handle_execve`, `kprobe_vfs_open`, `handle_ptrace`, `handle_process_vm_readv`, `handle_kill`, `handle_openat`, `handle_sendto`, `xdp_c2_inspector` | a process is stopped only for what it did; counts survive races; a full ring loses nothing silently |
| Event callback (`main.rs` 329-452) | the record in hand, WAL, response channel | bypass, trap comparisons, YARA scan, two heuristics, rollback | every trap is dispatched or lost for a known reason; order; write-ahead |
| Responder (`main.rs` 110-184) | order in hand | freeze, carve, route, start analysis, delayed cleanup | what it freezes it carves whole; it never stops for ever |
| Memory carver (`memory_carver.rs`) | blob file | read maps, mem, registers; package | a blob describes one process; the parser reads back what was written |
| Proxmox bridge (`proxmox_bridge.rs`) | volumes, SCSI slots of VM 9211 | allocate, write, hotplug, cleanup, route | no leaked volume, no slot used twice, no cleanup of another route's volume |
| KP14 remote analysis (`kp14_suite.rs` 902-941) | copies and results on the VM, the IOC file | copy, run, extract, push, remove | results of one's own carve; no copy left or removed too early |
| KP14 daemon (`kp14_suite.rs` 791-899) | mount, extracted regions | watch, mount, parse, extract, unmount, push | works on what was carved; the device is unmounted or its mount accounted for; it ends |
| MISP sidecar and XDP (`misp.rs`, `main.rs` 186-190, 465-475) | channel of 100, `c2_blocklist` | poll, send, drain, look up | a published address is eventually blocked, and nothing else is |
| TLS telemetry (`sensor.bpf.c` 278-315, `main.rs` 59-77) | ring `tls_events` | record, log | a hello is logged with its length or lost for a known reason |
| ZFS (`rollback.rs`) | snapshots, backups | daily snapshot and export, rollback | a daily version is kept or lost for a known reason; a good backup is never replaced |
| QIHSE log (`qihse.rs`) | WAL file | appends | the log precedes the action |
| Research mode (`main.rs` 307-326, `scripts/toggle_dev_mode.sh`) | toggle file, `AtomicBool` | toggle, poll, bypass | the flag follows the file; disarmed means disarmed |
| Deception (`main.rs` 208-286) | honeytoken inodes, decoy PIDs | set up once | only the trap files are traps, also after renames, rollbacks and restarts; the agent is not its own victim |
| Life cycle (`systemd/alphvdr.service`) | - | poll error, kill, restart | nothing but volatile state is lost |
| Dashboard, installer, simulator, `vmlinux.h` | - | - | presentation, one-off scripts, generated code: not modelled |

The kernel and the agent meet in the rings and maps; callback and responder in a
bounded channel of PIDs; sidecar and main loop in another of addresses; agent
and disk in the WAL, the blobs and the trap files; rollback and snapshot task in
the data set; analyses and daemon in the IOC file and on the VM. The hard
behaviours: hooks run on all CPUs at once without locks; a PID outlives its
process in rings, channels, maps and files; the callback and the responder block
for long in scans and external commands; the ring's memory is never cleared; and
the agent may go down anywhere. `PROJECT.json` lists the hazards line by line.

## What is modelled

### `Agent.tla`: from the hook to the carved process

State: the host (which process has a PID: `proc`, `gen`; toggle file; disk; WAL;
blobs), the kernel side (`ring`, how many records it has held and which texts
its memory still contains), the agent (`agent`, `research_mode`, the position in
the callback, `loop` and the check `why` it is at, `chan`, `resp`), and history
variables that only properties read.

| Action | Code |
|---|---|
| `Trip`, `Exec`, with `Submit` | a hook: SIGSTOP for five of the seven traps, then the record, which a full ring loses |
| `Bypass`, `LogEvent`, `CheckTrap`, `YaraMatch`/`YaraClean`, `CheckMock`, `CheckRansom`, `Send`, `Rollback` | the callback, in the order of the code; one record can give several orders. The lines a check appends to the log and its `try_send` are separate steps, since the responder runs beside them and the agent may be killed between them |
| `MonitorPoll`, `ToggleFile` | research mode |
| `Freeze`, `ReadMaps`, `ReadMem`, `Package`, `Route` | the responder; its steps are separate because the process may die between any two |
| `Exit`, `Spawn`, `DiskFills` | the host |
| `PollError`, `ShutdownDone`, `Killed`, `Restart` | the life of the agent process |

Abstractions:

- A path is one of three classes ("contains `/tmp/pwn`", "ends with `.enc`",
  neither), a command name one of three. An executed path spelled like a trap's
  text is not among the inputs.
- `filename` is decoded over 256 bytes of which the hook wrote only the first.
  What follows the text is `tail`: empty until the ring has lapped, afterwards
  any combination of the texts the ring has held, or other bytes.
- A line of the WAL is kept as what it says (event, match, the freeze for each
  of the four checks, rollback) and the record it was written for. An order is
  the PID alone in the code; the model remembers its record and its check.
- A process that is a zombie counts as gone.
- `kill` fails for a process that is gone and for those in `NoSignal`: the unit
  runs the agent as root without `CAP_KILL`.
- `Opaque` are the processes whose `/proc/PID/maps` is not UTF-8 or has a line
  that `parse_maps_line` refuses: either ends the carve although the process
  lives.
- The size check of a record (`main.rs` 339-342) cannot fail, since both sides
  use the same structure.
- When `main` returns, dropping the runtime waits for the worker that is inside
  the responder: state "draining", in which the responder goes on with the order
  in hand, may take further queued orders as long as `recv` need not wait, and
  may find that an analysis is no longer started.

### `Sensor.tla`: counting tripwires and self-defence

One `hook[t]` per thread: outside, with the looked-up element ("found"), over
the limit, about to reset. `Enter`, `Count`, `Trip`, `Reset` are the steps of
`handle_openat` and `handle_sendto` between which other CPUs act; `Kill` is
`handle_kill`; `Register` the agent's write to `agent_pid`, which comes after
the hooks are attached. An update of an LRU hash map installs a new element, so
a pointer from an earlier lookup may read whatever the map stores in the
recycled memory (`Readable`). SIGSTOP is pending ("stopping") until a thread
leaves its system call, and other threads go on calling until then. Nothing in
the repository resumes a stopped process; `Resume` is the operator. The agent
does not restart here: a restart brings new, empty maps, the initial state.

### `Bridge.tla`: volumes, slots and cleanups

The responder's `route_to_kp14` with one action per command (`Allocate`,
`Write`, `Scan`, `Plug`), each of which may fail and then ends the route at
once, and the set of cleanup tasks, each a sleep followed by `Unplug` and
`FreeVolume`, whose failures are ignored. `ScanBlind` is the scan whose `qm
config` failed: its exit status is not looked at, so all slots seem free.
`Crash` ends all tasks; nothing of what they were to clean up is on disk.

- A volume is its name, the second of its allocation; `pvesm` refuses a name
  that exists. Names and sleeping tasks follow one clock (`Tick`).
- The commands are taken to understand the arguments the code gives them. Were
  one of them always refused, every route would end in the direct transfer,
  which is the failing branch here.
- Only local mode is modelled: the agent uses no other (`default_kp14`).
- `stranded` records why a volume or its slot is left behind, `blind` which
  slots a blind scan has chosen; only properties read them.

In `Agent`, a route is a single step that may fail; `Bridge` opens this step up.
The delay has nothing to wait for: the analysis that is started after a route
copies the blob itself and does not use the volume.

### `FreezeQueue.tla` and `AgentRefines.tla`: what the pipeline promises

`FreezeQueue` knows neither ring nor callback, channel or responder. A hook
reports a record; if it is a trap, its order waits until it is carried out or
lost; orders are carried out in the order of the records; nothing that was
carried out or lost waits again. `AgentRefines` maps `Agent` to it (`waiting`
are the traps that are neither in `answered` nor in `lost`) and
`ImplementsFreezeQueue` is the abstract specification under this mapping. Every
step of `Agent` has to be one step of the queue or none, the crash that loses
several orders at once included.

### `ThreatIntel.tla`: from MISP to the packet

MISP (`Edit`), the sidecar (`Fetch`, `Forward`, `LogIntel`, `EndRound`,
`SidecarEnds`), the main loop (`HandleTls`, `EndPoll`, `Drain`, `EndDrain`) and
the XDP program (`Receive`). An address has two octets below `Base`; the
conversions on its way (`FromIp`, `ToBe`, `ToNeBytes`) are modelled by what they
do on a little-endian host, and the map's keys are compared with the bytes of
the packet. A packet is described by how far its headers parse (`Packets`).

- `Forward` waits while the channel is full; `Update` fails for a new key when
  the map is full; the log says "Blocked" (`LogIntel`, `claimed`) before either
  the drain or the map has had its say, and possibly after main has returned and
  the channel with it (`gone`).
- The agent attaches the XDP program to no interface: `skel.attach()` does not
  know one. `AttachXdp` stands for whoever does.
- After a poll error the tasks run on until the runtime is gone ("draining").
- In `Agent` the main loop is only its callback of the other ring; the two
  models meet in the poll error and in the blocking of the loop, which here is
  any delay between its steps.

### `Home.tla`: the data set, its traps, its decoys and its snapshots

The set-up of `main` step by step (`WriteToken`, `RegisterToken`, `SkipSsh`,
`RegisterDevices`, `StartDecoy`, `EndSetup`), the agent's later opens
(`AppendLog`, `Carve`), users who create, rename over or remove files
(`MoveFile`), processes, the daily task (`Snapshot`, `StartSend`, `EndSend`) and
the `Rollback` of the callback's thread. Inode numbers are shared by the traps,
an ordinary file (`doc`), the devices and the files the agent opens outside the
data set, because the hook looks numbers up without the file system.

- The 24 hours of the daily task are any time of at least a second: what matters
  is that names come from the clock.
- A snapshot that is being sent is busy, and `zfs rollback -r` stops there.
- All opens by the agent are looked up like everybody's (`Opened`): the trap
  files it writes, `/usr/bin/sleep` and the decoys' programs (`StartDecoy`), the
  log, `/proc/PID/maps` and `mem`, the blobs. `ReadInos` and `WriteInos` are the
  numbers those outside the data set may have. After an open that trips a trap
  the agent may stop itself (`FreezeSelf`).
- Whether `f_inode` is set when the hook runs is left to the kernel (a hazard in
  `PROJECT.json`); the model takes the number to be that of the opened file.
- The wall clock does not step back.
- `mem::forget(child)`: nobody waits for a decoy, so one that dies keeps its PID
  as a zombie.
- `Crash` is any end of the agent, a failing step of the set-up included.

### `CoreDump.tla`: writer and reader of the blob

Operators only: `Serialize` (the carver) and `Parse` (the analysis) over
sequences of cells, one cell per field and one per byte of the variable parts.
Fields that the reader only copies (version, time, sizes, end and offset of a
region) are left out. A pathname is shorter than its length field allows
(`PATH_MAX` is 4096, the field has 16 bits); `Dumps` are the dumps whose lengths
all fit into their fields. The sums of offsets cannot overflow: lengths come
from the writer or, in changed blobs, from cells below `Width`.

### `Kp14.tla`: analyses side by side

Every order carves a blob (`CarveStart`, `CarveEnd`) and starts an analysis:
`ScpStart`/`ScpEnd`, `RunStart`/`RunEnd`, `Extract`, `PushStart`/`PushEnd`,
`RemoveCopy`, with the early returns of the code. Blobs, copies and projects
have the second of their making in their names, which is why they can clash.
Data is the set of orders whose memory may be in it; a command that reads while
others write may see what was there when it began and when it ended. The daemon
is here only with its push to the same file (`DaemonPushStart`,
`DaemonPushEnd`).

The file of indicators is the set of what it holds of each order, its beginning
("head") or all of it. `fs::write` opens and empties the file, then writes: an
open that fails leaves the file as it was, a write that fails or that the end of
the process cuts off leaves some beginning of the text (`WriteCut`).

### `Kp14Daemon.tla`: the daemon

`Watch`, `Poll`, `Mount`, `Ingest` (which runs `Parse` on a blob that is whole,
cut or changed), `FirstCleanup`, `Push`, `SecondCleanup`, with devices that come
and go, mounts that stack on one mount point and outlive the agent, and a new
daemon in every agent process. A device may go away while it is mounted, as when
a cleanup of the bridge unplugs it after its 300 s; its blob may then be
unreadable, and its name is not given to another device while the mount holds
it. The analyses between the two cleanups keep no state here and their failures
are ignored by the code. What the bridge writes to a volume with `dd` is a bare
blob without a file system, so its devices take the branch in which the mount
fails.

## Runs

| Run | Instance | Properties |
|---|---|---|
| `agent_pipeline` | 2 PIDs used twice each (one process YARA may match, one whose maps cannot be read), 2 traps and a ransomware path, 2 records, ring of 1, channel of 2 | `TypeOK`, `TrapAccounted`, `PipelineOrdered`, `StopJustified`, `WriteAhead`, `FrozenIsCarved` |
| `agent_life` | 1 process, 2 records, ring of 2, channel of 2, 2 toggles, disk may fill, agent down twice; fair | `TrapAccounted`, `PipelineOrdered`, `ImplementsFreezeQueue`, `TrapResolved`, `ResearchFollowsFile`, `Drained` |
| `sensor_tripwires` | 2 processes, 3 threads, limit 1, map of 1 element, 3 calls each, 1 reuse or resumption | `TypeOK`, `NoPhantomTrap`, `SerialExact`, `ResetPending` |
| `bridge` | 2 slots, 3 routes, delay of 1 s, clock up to 3, agent down once; fair | `TypeOK`, `VolumeAccounted`, `SlotAccounted`, `UnplugsItsOwn`, `VolumeResolved` |
| `intel` | 2 addresses that are each other's mirror image, 2 edits of the feed, channel, map and TLS ring of 1, 2 packets, hellos at and above the copied size, agent down once; fair | `TypeOK`, `BlocksTheIntel`, `IntelAccounted`, `TlsAccounted`, `FeedApplied` |
| `home` | 4 inode numbers (one a device's, one of files outside the data set), 1 decoy, 1 PID, 1 move, 2 seconds, agent down once | `TypeOK`, `SelfQuiet`, `GhostsAreDecoys`, `VersionAccounted`, `BackupsKept` |
| `kp14_remote` | 2 orders, 2 PIDs, 3 seconds, the daemon's push, agent down once | `TypeOK`, `OwnResults`, `RemoteAccounted`, `FileIsLatest` |
| `kp14_daemon` | 2 devices plugged in twice, 2 polls, agent down twice, a blob of two regions cut everywhere and changed in every cell; fair | `TypeOK`, `ParsedIsCarved`, `MountAccounted`, `DaemonEnds` |

Why the bounds suffice: each resource is exhausted and reused. With two records
the ring of one fills, overflows and laps, so the second record may carry the
first one's bytes; one record gives up to three orders, so the channel of two
fills; two toggles switch research mode on and off; one reuse of a PID can fall
between any two steps; three calls reach the limit, race with the reset and go
on after it; one element makes two processes evict each other; three routes find
two slots used up or free again, and a delay shorter than the clock lets
cleanups overlap later routes. Two mirrored addresses tell byte orders apart,
two edits publish two addresses for a map of one or publish and withdraw one. In
`home` a file can meet the number of a trap, of a device and of a file the agent
opens, and two seconds separate a restart from its crash. Two orders in three
seconds have equal and different names in every combination. A device can be
plugged in before, while and after the daemon looks, and mounts can stack.
Symmetry is used for the two threads of a process, for the two inode numbers
without a role and for the PIDs of `kp14_remote`, which no definition tells
apart. `NoSignal` is empty in all runs; the theorems hold for any.

Deadlock is not checked where the instance may really stop: in the sensor run
all processes may be stopped for good; in the `home` and KP14 runs everything
may be done with the clock, the plugs or the orders used up.

What they show. A trap that fired is on its way, received, or lost for one of
five reasons: full ring, research mode, unreadable record, full channel, end of
the agent. Nothing else loses it, and under fairness none is left waiting.
Orders are carried out in the order of the hooks. A stop goes back to a trap of
the process itself, or to grounds in the record of the very order that caused
it. The code cannot tell a process from an earlier one with its PID, so an
innocent heir of a PID can be stopped, but only by an order an earlier owner
gave grounds for; and bytes left in the ring incriminate the wrong process, but
only with a path some earlier record really had. The lines of an order and of a
rollback are in the log before them. A process that the responder stopped, that
still lives and whose maps can be read is carved whole: since nothing but its
death ends the stop, a blob mixes two processes only when the frozen one was
killed meanwhile. The counts of the tripwires are exact for one thread, may be
low but never early for several, and never stay above the limit. Volumes and
slots are left behind for exactly five reasons (a failed write, hotplug, unplug
or free, and the end of the agent); otherwise the cleanup comes, and it unplugs
its own volume unless a blind scan chose the slot. Ring, callback, channel and
responder together behave like the abstract queue.

An address keeps its bytes from the feed to the packet; what the log calls
blocked is blocked, on its way, refused by a full map or gone with a main loop
that has ended; and an address that stays published gets there, whatever
restarts come in between. (One that is withdrawn stays blocked until the agent
restarts.) A decoy's PID never passes to another process; the agent becomes its
own victim only when a file it opens shares its number with a device or with the
trap of another file, never through the order in which it writes and registers
its traps. A daily version survives as snapshot or whole backup, or is lost with
a failed export, an earlier rollback or the agent; since names follow the clock
and a restart takes five seconds, a whole backup is never replaced. Analyses mix
results, and remove copies under each other, only when two of them share a
second; the IOC file holds the last push only, so what other analyses found is
gone, and of a failed push no more than the beginning. A blob that was cut
anywhere is refused, so the lengths make up for the checksum there; a changed
cell goes unnoticed.

The properties named "Accounted" bound where losses come from: each of the
reasons they list is a loss the code really has, and they say that there is no
other. They do not say that the listed ones do no harm.

Four runs document that the program does something else than the repository says
(details in `PROJECT.json`, "findings"):

| Run | The repository says | The counterexample |
|---|---|---|
| `research_mode` | `scripts/toggle_dev_mode.sh:3`: the flag "disarms eBPF traps" | a hook stops a process in research mode |
| `stale_ring` | `docs/FULL_DOCUMENTATION.md:29`: a write "triggers an instant freeze" | a record with old bytes behind the trap's text is not recognised |
| `zero_false_positives` | `docs/FULL_DOCUMENTATION.md:27`: "lethal, zero-false-positive traps" | a rollback removes a trap file, its number stays in the map and is given to an ordinary file, which is now a trap |
| `c2_traffic` | `docs/FULL_DOCUMENTATION.md:18`: "drops malicious C2 traffic" before the TCP stack | a packet received from a blocked address passes, since only destinations are compared |

The definitions marked "Faulty variant" are plausible mistakes in the code; with
one of them in place of the definition it precedes, TLC finds the property
violated. They are part of no specification.

### Fairness

`Agent!Fairness` is weak fairness of the callback, the responder, the monitor,
the end of a shutdown and the restart: the first three are a thread and tasks of
a multi-threaded runtime, `Restart=always` with `RestartSec=5` stays below
systemd's start limit. `Bridge!FairSpec` is that of routes, due cleanups and the
clock. `ThreatIntel!FairSpec` is that of the sidecar, the main loop and the
restart, and of `EndPoll` on its own: the poll returns although TLS records keep
coming, because they are read faster than they come in the long run; a poll that
always finds another record is thereby excluded, though the code does not bound
one. It implies that MISP does not fail for ever. `Kp14Daemon!FairSpec` is that
of the daemon's steps and the restart. In all of them the commands the agent
waits for (`zfs`, `pvesm`, `dd`, `qm`, `curl`, `mount`, the analysis tools) are
assumed to end. That is an assumption about the host: the code sets no timeout,
so with a command that hangs the liveness properties say nothing. Hooks, host,
users, packets, devices and crashes are not fair. The safety properties need no
fairness.

## Proofs

Every safety property of the passing runs is also a theorem of its
specification, and so are the refinement and the action property, for all values
of the constants that satisfy the named assumptions: bounds are natural numbers,
capacities positive, traps and classes from the known sets; `Threads` is finite
(a process with one thread is told by a cardinality); in `Home` the clock can
reach its first second; the `None` of `Kp14` is none of the sets, seconds and
paths it is compared with; and the dump of `Kp14Daemon` is one the format has
room for (`CarvedAssumption`: every length fits into its field). Each module of
proofs first proves its type invariant and then one inductive invariant per
theorem.

| Theorem | Module | Argument |
|---|---|---|
| `AgentTypeCorrect`: `[]TypeOK` | `AgentProofs` | inductive as it stands: `TypeOK` also says that the callback holds a record only while the ring has one, without which `Head(ring)` has no type |
| `StopsJustified`: `[]StopJustified` | `AgentProofs` | a stop comes from an order, an order from a check of a record. The invariant follows the grounds along: every record in the ring has its evidence (`RingBlamed`), so has the order about to be sent, every queued one and every one carried out, each with the number and the check of its own (`OrdersInv`); what the ring's memory still holds some record really had (`ImprintSound`); evidence is of the process that has the PID or an earlier one (`EvidencePast`) |
| `OrdersWrittenAhead`: `[]WriteAhead` | `AgentProofs` | `WalInv`: inside the callback the event of the record in hand is in the log, and between an append and its `try_send`, and during the rollback, the lines of the action too; without that the send could overtake the log, since it is another step |
| `FrozenCarved`: `[]FrozenIsCarved` | `AgentProofs` | `ReadsFrozen`: what the responder has read so far under a PID is of the process it froze if that one still lives; `FrozenPast`: a PID never returns to an earlier process; the processes of `Opaque` are excepted, whose carve `ReadMaps` gives up |
| `TrapsAccounted`: `[]TrapAccounted` | `AgentTrapProofs` | inductive together with `TypeOK`; per action, where the trap's number moves to |
| `PipelineInOrder`: `[]PipelineOrdered` | `AgentTrapProofs` | `Fifo`: ring and channel are ordered by number, nothing in the channel is after anything in the ring that is still to be looked at, nothing received is after anything queued, and every number in use was issued |
| `PipelineIsQueue`: `ImplementsFreezeQueue` | `AgentTrapProofs` | the refinement. `QueueInv` adds to `Fifo` that the numbers of traps and losses were issued and that what is sent by the trap check is a trap's record; then one case per action: a hook reports, the responder's `Freeze` answers, the steps that lose records or orders lose, all others stutter |
| `SensorTypeCorrect`: `[]TypeOK` | `SensorProofs` | with the cardinality of the map under eviction |
| `TripwireNeverEarly`: `[]NoPhantomTrap` | `SensorProofs` | `CountsSound`: the stored value is at most the calls made, a value that was looked up is below them, a hook over the limit has seen more than `Limit` calls; all for PIDs that only read their own elements |
| `CountsComeDown`: `[]ResetPending` | `SensorProofs` | inductive together with `TypeOK`: whoever writes a count above the limit is the one that resets it |
| `SerialCountsExact`: `[]SerialExact` | `SensorProofs` | `SerialInv` says, for each place of the one thread in its hook, what separates the calls from what is stored and reported; other processes reach the element only by evicting it |
| `BridgeTypeCorrect`: `[]TypeOK` | `BridgeProofs` | inductive as it stands: the slot a scan chose is a slot of the VM |
| `VolumesAccounted`, `SlotsAccounted` | `BridgeProofs` | each inductive together with `TypeOK`; a slot's account names the cleanup of the volume it holds now, since with a blind scan another cleanup of that slot may be the first to fail |
| `CleanupUnplugsItsOwn`: `[]UnplugsItsOwn` | `BridgeProofs` | not inductive: a route could replace a volume that a cleanup still waits for. `SlotsApart` adds that the slot of a scan is free until it is used and that no two cleanups sleep on one slot |
| `IntelTypeCorrect`: `[]TypeOK` | `ThreatIntelProofs` | with the cardinality of the map under updates, and `ChanOK`: the number in the channel is the conversion of the address beside it |
| `IntelIsBlocked`: `[]BlocksTheIntel` | `ThreatIntelProofs` | lemma `KeyIsAddress`: the conversions compose to the identity on octets below `Base`, by arithmetic on quotient and remainder. `SourceInv` then carries "was published" along feed, round, channel and map |
| `ClaimsAccounted`: `[]IntelAccounted` | `ThreatIntelProofs` | `SentInv`: what was sent is accounted for already before it is logged, and nothing has gone with main while main runs |
| `HellosAccounted`: `[]TlsAccounted` | `ThreatIntelProofs` | `TlsInv`: packets have numbers of their own, and a record with a hello's number has that hello's copied length |
| `HomeTypeCorrect`: `[]TypeOK` | `HomeProofs` | adds that the baseline of the rollback keeps its files apart too, and that the version the task works on was taken |
| `AgentStaysQuiet`: `[]SelfQuiet` | `HomeProofs` | `TrapInv`: a number no trap was given has no element in the map (unless a device's), and traps the set-up has not come to have no number; so neither a trap file that is being written nor a file outside the data set meets its own trap |
| `GhostsStayDecoys`: `[]GhostsAreDecoys` | `HomeProofs` | inductive together with `TypeOK` |
| `BackupsAreKept`: `BackupsKept` | `HomeProofs` | an action property. `BackupInv`: a backup is named after the second of its snapshot, and a task about to take one is past the seconds of all backups; after a restart by the five seconds of `RestartSec` |
| `VersionsAccounted`: `[]VersionAccounted` | `HomeProofs` | `VersionInv`: a version is being exported, in a whole backup or lost for a reason; uses that whole backups are kept |
| `Kp14TypeCorrect`: `[]TypeOK` | `Kp14Proofs` | `Named`: blob, copy and project get their names one after the other and keep them |
| `ResultsAreOwn`: `[]OwnResults` | `Kp14Proofs` | `OwnInv` follows the memory of an order from its blob through its copy to its project, each under the condition that nobody shares the names so far; a project nobody has started is empty |
| `CopiesAccounted`: `[]RemoteAccounted` | `Kp14Proofs` | the first half from `OwnInv`; `CopyInv` for the second |
| `FileHoldsLatest`: `[]FileIsLatest` | `Kp14Proofs` | `Turn`: without an overlap whoever pushes is alone with a file that is still empty and holds the latest results; when nobody pushes, the file is whole or, after a failure or a crash, a beginning |
| `DaemonTypeCorrect`: `[]TypeOK` | `Kp14DaemonProofs` | adds that the device was new from the moment it was found |
| `MountsAccounted`: `[]MountAccounted` | `Kp14DaemonProofs` | `MountInv`: no device is mounted twice (otherwise an unmount would clear a device that is still mounted below), because the daemon knows what is mounted and still there, takes only what it does not know, and the name of a mounted device that went away is not given again; the device it works on is on top |
| `ReaderInvertsWriter`: `Parse(Serialize(d))` is `d` for every dump | `Kp14DaemonProofs` | by induction over the regions, see below |
| `ReaderRefusesCut`: `Parse` rejects every proper prefix of `Serialize(d)` | `Kp14DaemonProofs` | the same induction: as long as the loop goes on it is where it would be in the whole blob, and the last region ends with the last cell, so some turn runs out of cells |
| `ParsedExactly`: `[]ParsedIsCarved` | `Kp14DaemonProofs` | the two theorems say what the verdict on a whole and on a cut blob is; then, per action, only `Ingest` pairs a verdict with a blob and whoever finishes forgets both |

The reader's loop and `FlattenSeq` are recursive functions, so the theorems
about them need induction over data. The library's induction rules have an
operator as a parameter, which the provers here cannot instantiate; that a
well-founded relation has minimal elements (`WFMin`) is stated for sets and can
be cited. From it follow `Least` and `Induction`, both about sets of naturals,
and with them that the two recursions define functions (`PrefixesExist` and its
like for the loop) and what these return. The rest is a description of the blob
by position (`Written`: header and registers, then each region from the offset
where the one before it ends) and one lemma per way a turn of the loop can go.

Only model-checked: the liveness properties (`TrapResolved`,
`ResearchFollowsFile`, `Drained`, `VolumeResolved`, `FeedApplied`,
`DaemonEnds`), since the proof system has no rule for fairness.

## Not modelled

- Scanning of text: the patterns of the indicators, of MITRE techniques and of
  the scanner's signatures, and the entropy. Pure functions on characters and
  floating-point numbers, whose results the models take as inputs.
- The exec hook's classification of command names, which decides which trap a
  record carries: an input of `Agent`.
- The parsing of `/proc/[pid]/maps`, but for its failure (`Opaque`).
- The QMAG vector, a part of the log's text that no code reads back.
- Whether `sudo` works under the unit's `NoNewPrivileges=yes`, whether `f_inode`
  is set when `vfs_open` is entered, and to which interface the XDP program is
  attached: facts of the host. `zfs`, `mount` and the rest may always fail in
  the models.
- The reader of `extracted_iocs.json`: `kp14_suite.rs:761` says that the sidecar
  polls the file, and no code does.
- Dashboard, installer, simulator; `vmlinux.h`, 163425 generated lines of kernel
  types, which is nearly all the C code of the repository. The program itself is
  mostly Rust.

## Plan

Every safety property of the passing runs is proved. What is left:

1. What the reader makes of a changed blob. Nothing holds of all of them, since
   the checksum is not compared; that `Parse` is total, and that a change inside
   a region's memory changes that memory and nothing else, could be stated on
   top of `Written`.
2. Strengthenings of the accounts (`TrapAccounted`, `IntelAccounted`,
   `VersionAccounted`) into exact ones, with a reason per loss and a count.

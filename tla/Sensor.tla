------------------------------- MODULE Sensor -------------------------------
(***************************************************************************)
(* The counting tripwires of the eBPF sensor (file creations, datagrams)   *)
(* and its self-defence hook, with hooks of several threads running at the *)
(* same time.  A tripwire keeps one count per process id in an LRU hash    *)
(* map and updates it without any lock:                                    *)
(*                                                                         *)
(*    lookup -> count := value + 1, update -> SIGSTOP, record -> reset     *)
(*                                                                         *)
(* Nothing clears a count when a process ends, so the next process with    *)
(* its PID inherits it.  An update of an LRU hash map puts a new element in*)
(* the place of the old one; a hook that still points to the old element   *)
(* reads what the map has meanwhile stored in that memory.                 *)
(***************************************************************************)
EXTENDS Naturals, FiniteSets

CONSTANTS
    Pids,       \* thread group ids
    Agent,      \* the agent's own
    Threads,
    Tgid,       \* Tgid[t]: the PID of thread t
    Wires,      \* "file" (handle_openat), "journal" (handle_sendto)
    Limit,      \* Limit[w]: 10000 and 50000 in the code
    MapCap,     \* elements of an LRU map (10240)
    NoPid,      \* 0: the initial content of agent_pid, and a target of kill
    MaxCalls,   \* bound: calls counted for one PID and wire
    MaxLives    \* bound: times PIDs are reused, and times processes resume

ASSUME PidsAssumption ==
    Agent \in Pids /\ NoPid \notin Pids /\ Tgid \in [Threads -> Pids]
ASSUME ThreadsAssumption == IsFiniteSet(Threads)
ASSUME LimitAssumption == Limit \in [Wires -> Nat]
ASSUME SensorBounds ==
    MapCap \in Nat \ {0} /\ MaxCalls \in Nat /\ MaxLives \in Nat

VARIABLES
    agent_pid,  \* the one element of the agent_pid array
    held,       \* held[w]: the PIDs with an element in the LRU map of w
    counts,     \* counts[w][p]: the value of that element, 0 without one
    hook,       \* hook[t]: where thread t is in a tripwire hook
    proc,       \* proc[p]: "running", "stopping" (SIGSTOP pending), "stopped"
    lives,
    \* history
    calls,      \* calls[w][p]: counted calls under PID p
    traps,      \* traps[w][p]: how often the wire was tripped
    written,    \* written[w]: every value the map ever held
    evicted,    \* evicted[w]: PIDs that lost their element to another
    mixed,      \* mixed[w]: PIDs that counted on from a recycled element
    hits        \* [wire, pid, calls, clean] when a wire was tripped

history == <<calls, traps, written, evicted, mixed, hits>>
vars == <<agent_pid, held, counts, hook, proc, lives, history>>

Out == [at |-> "out"]

\* What the lookup returned, and what has become of it.
Pointers == {"null", "live", "recycled"}

\* The threads of p.
Siblings(p) == {t \in Threads : Tgid[t] = p}

-----------------------------------------------------------------------------
\* bpf_map_update_elem(map, p, n): the map has a new element for p and has
\* dropped those of the victims.  A hook that points to a replaced or dropped
\* element has a pointer to recycled memory from then on.  Thread t, which makes
\* the call, goes on to `then'.
Replace(t, w, p, n, then, victims) ==
    /\ held' = [held EXCEPT ![w] = (@ \ victims) \cup {p}]
    /\ counts' = [counts EXCEPT ![w] =
          [q \in Pids |-> IF q = p THEN n
                          ELSE IF q \in victims THEN 0 ELSE counts[w][q]]]
    /\ hook' = [u \in Threads |->
          IF u = t THEN then
          ELSE IF /\ hook[u].at = "found" /\ hook[u].wire = w
                  /\ hook[u].ptr = "live" /\ Tgid[u] \in victims \cup {p}
               THEN [hook[u] EXCEPT !.ptr = "recycled"]
               ELSE hook[u]]
    /\ evicted' = [evicted EXCEPT ![w] = @ \cup victims]
    /\ written' = [written EXCEPT ![w] = @ \cup {n}]

\* Faulty variant: the map grows without bound.
MapUpdateUnbounded(t, w, p, n, then) == Replace(t, w, p, n, then, {})

\* A full LRU map makes room for a new key at the expense of some other PID.
MapUpdate(t, w, p, n, then) ==
    \/ /\ p \in held[w] \/ Cardinality(held[w]) < MapCap
       /\ Replace(t, w, p, n, then, {})
    \/ /\ p \notin held[w] /\ Cardinality(held[w]) >= MapCap
       /\ \E q \in held[w] : Replace(t, w, p, n, then, {q})

\* A thread enters openat with O_CREAT, or sendto: the hook leaves the agent
\* alone and looks its element up.
Enter(t, w) ==
    LET p == Tgid[t] IN
    /\ hook[t] = Out /\ proc[p] # "stopped"
    /\ agent_pid # p
    /\ calls[w][p] < MaxCalls
    /\ hook' = [hook EXCEPT ![t] =
          [at |-> "found", wire |-> w, val |-> counts[w][p],
           ptr |-> IF p \in held[w] THEN "live" ELSE "null"]]
    /\ calls' = [calls EXCEPT ![w][p] = @ + 1]
    /\ UNCHANGED <<agent_pid, held, counts, proc, lives, traps, written, evicted,
                   mixed, hits>>

\* What *count yields: 0 stands for no element; recycled memory holds the old
\* value or any value the map has stored.
Readable(t) ==
    {hook[t].val} \cup (IF hook[t].ptr = "recycled" THEN written[hook[t].wire]
                       ELSE {})

\* Faulty variant: the limit itself trips the wire (>= for >).
CountEarly(t) ==
    /\ hook[t].at = "found"
    /\ LET p == Tgid[t]
           w == hook[t].wire
       IN  \E v \in Readable(t) :
              /\ MapUpdate(t, w, p, v + 1,
                           IF v + 1 >= Limit[w] THEN [at |-> "over", wire |-> w]
                           ELSE Out)
              /\ mixed' = IF v = hook[t].val THEN mixed
                          ELSE [mixed EXCEPT ![w] = @ \cup {p}]
    /\ UNCHANGED <<agent_pid, proc, lives, calls, traps, hits>>

\* new_count = *count + 1, update, compare with the limit.
Count(t) ==
    /\ hook[t].at = "found"
    /\ LET p == Tgid[t]
           w == hook[t].wire
       IN  \E v \in Readable(t) :
              /\ MapUpdate(t, w, p, v + 1,
                           IF v + 1 > Limit[w] THEN [at |-> "over", wire |-> w]
                           ELSE Out)
              /\ mixed' = IF v = hook[t].val THEN mixed
                          ELSE [mixed EXCEPT ![w] = @ \cup {p}]
    /\ UNCHANGED <<agent_pid, proc, lives, calls, traps, hits>>

\* bpf_send_signal(19): the signal is pending until a thread of the process
\* leaves its system call; the others run on until then.
Signal(p) == proc' = [proc EXCEPT ![p] = IF @ = "running" THEN "stopping" ELSE @]

\* The signal of the tripped wire and the record for user space.
Trip(t) ==
    /\ hook[t].at = "over"
    /\ LET p == Tgid[t]
           w == hook[t].wire
       IN  /\ Signal(p)
           /\ traps' = [traps EXCEPT ![w][p] = @ + 1]
           /\ hits' = hits \cup {[wire |-> w, pid |-> p, calls |-> calls[w][p],
                                  clean |-> p \notin mixed[w]]}
           /\ hook' = [hook EXCEPT ![t] = [at |-> "reset", wire |-> w]]
    /\ UNCHANGED <<agent_pid, held, counts, lives, calls, written, evicted,
                   mixed>>

\* Faulty variant: the count restarts at 1.
ResetToOne(t) ==
    /\ hook[t].at = "reset"
    /\ MapUpdate(t, hook[t].wire, Tgid[t], 1, Out)
    /\ UNCHANGED <<agent_pid, proc, lives, calls, traps, mixed, hits>>

\* Faulty variant: the count is left as it is.
ResetMissing(t) ==
    /\ hook[t].at = "reset"
    /\ hook' = [hook EXCEPT ![t] = Out]
    /\ UNCHANGED <<agent_pid, held, counts, proc, lives, history>>

\* "Reset to avoid spamming ringbuf"
Reset(t) ==
    /\ hook[t].at = "reset"
    /\ MapUpdate(t, hook[t].wire, Tgid[t], 0, Out)
    /\ UNCHANGED <<agent_pid, proc, lives, calls, traps, mixed, hits>>

\* handle_kill: a signal to the PID that agent_pid holds stops the sender.
Kill(t, target) ==
    LET p == Tgid[t] IN
    /\ hook[t] = Out /\ proc[p] # "stopped"
    /\ target = agent_pid
    /\ Signal(p)
    /\ UNCHANGED <<agent_pid, held, counts, hook, lives, history>>

\* main(): the agent registers its PID, after it has attached the hooks.
Register ==
    /\ agent_pid = NoPid /\ proc[Agent] # "stopped"
    /\ agent_pid' = Agent
    /\ UNCHANGED <<held, counts, hook, proc, lives, history>>

\* A thread of the process leaves its system call and takes the signal.
Stop(p) ==
    /\ proc[p] = "stopping"
    /\ \E t \in Siblings(p) : hook[t] = Out
    /\ proc' = [proc EXCEPT ![p] = "stopped"]
    /\ UNCHANGED <<agent_pid, held, counts, hook, lives, history>>

\* The process ends, once no thread of it is in a hook, and its PID goes to
\* another.
Reuse(p) ==
    /\ p # Agent /\ lives < MaxLives
    /\ \A t \in Siblings(p) : hook[t] = Out
    /\ lives' = lives + 1
    /\ proc' = [proc EXCEPT ![p] = "running"]
    /\ UNCHANGED <<agent_pid, held, counts, hook, history>>

\* An operator resumes a stopped process.
Resume(p) ==
    /\ proc[p] = "stopped" /\ lives < MaxLives
    /\ \A t \in Siblings(p) : hook[t] = Out
    /\ lives' = lives + 1
    /\ proc' = [proc EXCEPT ![p] = "running"]
    /\ UNCHANGED <<agent_pid, held, counts, hook, history>>

-----------------------------------------------------------------------------
Zero == [w \in Wires |-> [p \in Pids |-> 0]]
None == [w \in Wires |-> {}]

Init ==
    /\ agent_pid = NoPid
    /\ held = [w \in Wires |-> {}] /\ counts = Zero
    /\ hook = [t \in Threads |-> Out]
    /\ proc = [p \in Pids |-> "running"] /\ lives = 0
    /\ calls = Zero /\ traps = Zero
    /\ written = None /\ evicted = None /\ mixed = None
    /\ hits = {}

Next ==
    \/ \E t \in Threads :
          \/ \E w \in Wires : Enter(t, w)
          \/ Count(t) \/ Trip(t) \/ Reset(t)
          \/ \E target \in Pids \cup {NoPid} : Kill(t, target)
    \/ Register
    \/ \E p \in Pids : Stop(p) \/ Reuse(p) \/ Resume(p)

Spec == Init /\ [][Next]_vars

-----------------------------------------------------------------------------
\* Type invariant: an LRU map never outgrows its capacity.
TypeOK ==
    /\ agent_pid \in {NoPid, Agent}
    /\ held \in [Wires -> SUBSET Pids] /\ counts \in [Wires -> [Pids -> Nat]]
    /\ \A w \in Wires : IsFiniteSet(held[w]) /\ Cardinality(held[w]) <= MapCap
    /\ hook \in [Threads -> {Out}
                 \cup [at: {"found"}, wire: Wires, val: Nat, ptr: Pointers]
                 \cup [at: {"over", "reset"}, wire: Wires]]
    /\ proc \in [Pids -> {"running", "stopping", "stopped"}]
    /\ lives \in 0..MaxLives
    /\ calls \in [Wires -> [Pids -> 0..MaxCalls]]
    /\ traps \in [Wires -> [Pids -> Nat]]
    /\ written \in [Wires -> SUBSET Nat]
    /\ evicted \in [Wires -> SUBSET Pids] /\ mixed \in [Wires -> SUBSET Pids]
    /\ hits \subseteq [wire: Wires, pid: Pids, calls: 0..MaxCalls,
                      clean: BOOLEAN]

\* A tripwire never fires early: however the hooks of the threads interleave,
\* and whatever the map evicts, a PID whose hooks only read their own elements
\* is stopped only after more than Limit calls were made under it.
NoPhantomTrap == \A h \in hits : h.clean => h.calls > Limit[h.wire]

\* A process with one thread whose element was never evicted is counted
\* exactly: the wire trips at every (Limit + 1)-th call, no earlier, no later.
SerialExact ==
    \A w \in Wires, p \in Pids :
        (/\ Cardinality(Siblings(p)) = 1 /\ p \notin evicted[w]
         /\ \A t \in Siblings(p) : hook[t] = Out)
        => calls[w][p] = counts[w][p] + (Limit[w] + 1) * traps[w][p]

\* The reset keeps the ring from being spammed: a count above the limit is
\* about to be reset by some thread that is still in the hook.  No race of the
\* unlocked updates leaves such a count behind, which would turn every later
\* call of the process, or of the next one with its PID, into a trap.
ResetPending ==
    \A w \in Wires, p \in Pids : counts[w][p] > Limit[w] =>
        \E t \in Siblings(p) : /\ hook[t].at \in {"over", "reset"}
                                /\ hook[t].wire = w

=============================================================================

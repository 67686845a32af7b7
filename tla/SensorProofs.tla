---------------------------- MODULE SensorProofs ----------------------------
(***************************************************************************)
(* Proofs about the sensor's tripwires, for every set of processes and     *)
(* threads, every limit and every map capacity.                            *)
(***************************************************************************)
EXTENDS Sensor, FiniteSetTheorems, TLAPS

Found == [at: {"found"}, wire: Wires, val: Nat, ptr: Pointers]
Late  == [at: {"over", "reset"}, wire: Wires]

(***************************************************************************)
(* Type correctness.                                                       *)
(***************************************************************************)

\* bpf_map_update_elem keeps an LRU map within its capacity, whatever it drops.
LEMMA MapFits ==
    ASSUME TypeOK, NEW t \in Threads, NEW w \in Wires, NEW p \in Pids,
           NEW n \in Nat, NEW then, MapUpdate(t, w, p, n, then)
    PROVE  \A v \in Wires : /\ IsFiniteSet(held'[v])
                            /\ Cardinality(held'[v]) <= MapCap
<1>1. /\ held \in [Wires -> SUBSET Pids]
      /\ IsFiniteSet(held[w]) /\ Cardinality(held[w]) <= MapCap
      /\ Cardinality(held[w]) \in Nat /\ MapCap \in Nat \ {0}
  BY FS_CardinalityType, SensorBounds DEF TypeOK
<1>2. CASE /\ p \in held[w] \/ Cardinality(held[w]) < MapCap
           /\ Replace(t, w, p, n, then, {})
  <2>1. held'[w] = held[w] \cup {p} /\ \A v \in Wires \ {w} : held'[v] = held[v]
    BY <1>1, <1>2 DEF Replace
  <2>2. IsFiniteSet(held'[w]) /\ Cardinality(held'[w]) <= MapCap
    <3>1. CASE p \in held[w]
      <4>1. held'[w] = held[w]
        BY <2>1, <3>1
      <4> QED BY <1>1, <4>1
    <3>2. CASE p \notin held[w]
      <4>1. /\ IsFiniteSet(held'[w])
            /\ Cardinality(held'[w]) = Cardinality(held[w]) + 1
        BY <1>1, <2>1, <3>2, FS_AddElement
      <4> QED BY <1>1, <1>2, <3>2, <4>1
    <3> QED BY <3>1, <3>2
  <2> QED BY <2>1, <2>2 DEF TypeOK
<1>3. ASSUME NEW q \in held[w], p \notin held[w],
             Cardinality(held[w]) >= MapCap, Replace(t, w, p, n, then, {q})
      PROVE  \A v \in Wires : /\ IsFiniteSet(held'[v])
                              /\ Cardinality(held'[v]) <= MapCap
  <2>1. /\ held'[w] = (held[w] \ {q}) \cup {p}
        /\ \A v \in Wires \ {w} : held'[v] = held[v]
    BY <1>1, <1>3 DEF Replace
  <2>2. /\ IsFiniteSet(held[w] \ {q})
        /\ Cardinality(held[w] \ {q}) = Cardinality(held[w]) - 1
    BY <1>1, <1>3, FS_RemoveElement
  <2>3. /\ IsFiniteSet(held'[w])
        /\ Cardinality(held'[w]) = Cardinality(held[w] \ {q}) + 1
    BY <1>3, <2>1, <2>2, FS_AddElement
  <2>4. Cardinality(held'[w]) <= MapCap
    BY <1>1, <2>2, <2>3
  <2> QED BY <2>1, <2>3, <2>4 DEF TypeOK
<1> QED BY <1>2, <1>3 DEF MapUpdate

\* ... and keeps the map's values, the hooks and the history well typed.
LEMMA MapTyped ==
    ASSUME TypeOK, NEW t \in Threads, NEW w \in Wires, NEW p \in Pids,
           NEW n \in Nat, NEW then \in {Out} \cup Late,
           MapUpdate(t, w, p, n, then)
    PROVE  /\ held' \in [Wires -> SUBSET Pids]
           /\ counts' \in [Wires -> [Pids -> Nat]]
           /\ hook' \in [Threads -> {Out} \cup Found \cup Late]
           /\ written' \in [Wires -> SUBSET Nat]
           /\ evicted' \in [Wires -> SUBSET Pids]
<1>1. PICK victims \in SUBSET held[w] : Replace(t, w, p, n, then, victims)
  BY DEF MapUpdate
<1>2. victims \subseteq Pids /\ hook \in [Threads -> {Out} \cup Found \cup Late]
  BY DEF TypeOK, Found, Late
<1>3. /\ held' \in [Wires -> SUBSET Pids]
      /\ written' \in [Wires -> SUBSET Nat]
      /\ evicted' \in [Wires -> SUBSET Pids]
  BY <1>1, <1>2 DEF Replace, TypeOK
<1>4. counts' \in [Wires -> [Pids -> Nat]]
  <2>1. [q \in Pids |-> IF q = p THEN n
                        ELSE IF q \in victims THEN 0 ELSE counts[w][q]]
          \in [Pids -> Nat]
    BY DEF TypeOK
  <2> QED BY <1>1, <2>1 DEF Replace, TypeOK
<1>5. hook' \in [Threads -> {Out} \cup Found \cup Late]
  <2>1. ASSUME NEW u \in Threads, hook[u].at = "found"
        PROVE  [hook[u] EXCEPT !.ptr = "recycled"] \in Found
    <3>1. hook[u] \in Found
      BY <1>2, <2>1 DEF Found, Late, Out
    <3> QED BY <3>1 DEF Found, Pointers
  <2> QED BY <1>1, <1>2, <2>1 DEF Replace
<1> QED BY <1>3, <1>4, <1>5

\* The steps of a hook and of the host keep every variable in its type.
LEMMA TypeStep == TypeOK /\ [Next]_vars => TypeOK'
<1> SUFFICES ASSUME TypeOK, [Next]_vars PROVE TypeOK'
  OBVIOUS
<1> USE PidsAssumption, LimitAssumption, SensorBounds
<1>1. ASSUME NEW t \in Threads, NEW w \in Wires, Enter(t, w) PROVE TypeOK'
  <2>1. calls' \in [Wires -> [Pids -> 0..MaxCalls]]
    BY <1>1 DEF Enter, TypeOK
  <2>3. [at |-> "found", wire |-> w, val |-> counts[w][Tgid[t]],
         ptr |-> IF Tgid[t] \in held[w] THEN "live" ELSE "null"] \in Found
    BY DEF Found, TypeOK, Pointers
  <2>4. hook' \in [Threads -> {Out} \cup Found \cup Late]
    BY <1>1, <2>3 DEF Enter, TypeOK, Found, Late
  <2> QED BY <1>1, <2>1, <2>4 DEF Enter, TypeOK, Found, Late
<1>2. ASSUME NEW t \in Threads, Count(t) PROVE TypeOK'
  <2>1. Tgid[t] \in Pids /\ hook[t] \in Found /\ hook[t].wire \in Wires
        /\ hook[t].val \in Nat
    <3>1. hook[t].at = "found"
      BY <1>2 DEF Count
    <3>2. hook[t] \in {Out} \cup Found \cup Late
      BY DEF TypeOK, Found, Late
    <3>3. hook[t] \in Found
      BY <3>1, <3>2 DEF Found, Late, Out
    <3> QED BY <3>3 DEF Found
  <2> DEFINE w == hook[t].wire
             p == Tgid[t]
             then(v) == IF v + 1 > Limit[w] THEN [at |-> "over", wire |-> w]
                        ELSE Out
  <2>2. PICK v \in Readable(t) :
           /\ MapUpdate(t, w, p, v + 1, then(v))
           /\ mixed' = IF v = hook[t].val THEN mixed
                       ELSE [mixed EXCEPT ![w] = @ \cup {p}]
    BY <1>2 DEF Count
  <2>3. v + 1 \in Nat /\ then(v) \in {Out} \cup Late
    BY <2>1, <2>2 DEF TypeOK, Late, Readable
  <2>4. /\ held' \in [Wires -> SUBSET Pids]
        /\ counts' \in [Wires -> [Pids -> Nat]]
        /\ hook' \in [Threads -> {Out} \cup Found \cup Late]
        /\ written' \in [Wires -> SUBSET Nat]
        /\ evicted' \in [Wires -> SUBSET Pids]
        /\ \A x \in Wires : IsFiniteSet(held'[x]) /\ Cardinality(held'[x]) <= MapCap
    BY <2>1, <2>2, <2>3, MapFits, MapTyped
  <2>5. mixed' \in [Wires -> SUBSET Pids]
    BY <2>1, <2>2 DEF TypeOK
  <2> QED BY <1>2, <2>4, <2>5 DEF Count, TypeOK, Found, Late
<1>3. ASSUME NEW t \in Threads, Trip(t) PROVE TypeOK'
  <2>1. Tgid[t] \in Pids /\ hook[t].wire \in Wires
        /\ [at |-> "reset", wire |-> hook[t].wire] \in Late
    BY <1>3 DEF Trip, TypeOK, Late, Out
  <2>2. hook' \in [Threads -> {Out} \cup Found \cup Late]
    BY <1>3, <2>1 DEF Trip, TypeOK, Found, Late
  <2>3. proc' \in [Pids -> {"running", "stopping", "stopped"}]
    BY <1>3, <2>1 DEF Trip, Signal, TypeOK
  <2>4. traps' \in [Wires -> [Pids -> Nat]]
    BY <1>3, <2>1 DEF Trip, TypeOK
  <2>5. hits' \subseteq [wire: Wires, pid: Pids, calls: 0..MaxCalls,
                         clean: BOOLEAN]
    <3> DEFINE h == [wire |-> hook[t].wire, pid |-> Tgid[t],
                     calls |-> calls[hook[t].wire][Tgid[t]],
                     clean |-> Tgid[t] \notin mixed[hook[t].wire]]
    <3>1. (Tgid[t] \notin mixed[hook[t].wire]) \in BOOLEAN
      BY Zenon
    <3>2. h \in [wire: Wires, pid: Pids, calls: 0..MaxCalls,
                 clean: BOOLEAN]
      BY <2>1, <3>1 DEF TypeOK
    <3>3. hits' = hits \cup {h}
      BY <1>3 DEF Trip
    <3> QED BY <3>2, <3>3 DEF TypeOK
  <2> QED BY <1>3, <2>2, <2>3, <2>4, <2>5 DEF Trip, TypeOK, Found, Late
<1>4. ASSUME NEW t \in Threads, Reset(t) PROVE TypeOK'
  <2>1. Tgid[t] \in Pids /\ hook[t].wire \in Wires /\ Out \in {Out} \cup Late
    BY <1>4 DEF Reset, TypeOK, Late, Out
  <2>2. /\ held' \in [Wires -> SUBSET Pids]
        /\ counts' \in [Wires -> [Pids -> Nat]]
        /\ hook' \in [Threads -> {Out} \cup Found \cup Late]
        /\ written' \in [Wires -> SUBSET Nat]
        /\ evicted' \in [Wires -> SUBSET Pids]
        /\ \A x \in Wires : IsFiniteSet(held'[x]) /\ Cardinality(held'[x]) <= MapCap
    BY <1>4, <2>1, MapFits, MapTyped DEF Reset
  <2> QED BY <1>4, <2>2 DEF Reset, TypeOK, Found, Late
<1>5. ASSUME NEW t \in Threads, NEW target \in Pids \cup {NoPid},
             Kill(t, target)
      PROVE  TypeOK'
  BY <1>5 DEF Kill, Signal, history, TypeOK
<1>6. CASE Register
  BY <1>6 DEF Register, history, TypeOK
<1>7. ASSUME NEW p \in Pids, Reuse(p) PROVE TypeOK'
  BY <1>7 DEF Reuse, history, TypeOK
<1>8. ASSUME NEW p \in Pids, Resume(p) PROVE TypeOK'
  BY <1>8 DEF Resume, history, TypeOK
<1>9. ASSUME NEW p \in Pids, Stop(p) PROVE TypeOK'
  BY <1>9 DEF Stop, history, TypeOK
<1>10. CASE UNCHANGED vars
  BY <1>10 DEF vars, history, TypeOK
<1> QED BY <1>1, <1>2, <1>3, <1>4, <1>5, <1>6, <1>7, <1>8, <1>9, <1>10 DEF Next

\* Type correctness of the sensor, the capacity of its LRU maps included.
THEOREM SensorTypeCorrect == Spec => []TypeOK
<1>1. Init => TypeOK
  <2> SUFFICES ASSUME Init PROVE TypeOK
    OBVIOUS
  <2>1. IsFiniteSet({}) /\ Cardinality({}) = 0
    BY FS_EmptySet
  <2> QED BY <2>1, SensorBounds DEF Init, Zero, None, Out, TypeOK
<1> QED BY <1>1, TypeStep, PTL DEF Spec


(***************************************************************************)
(* No tripwire fires early.                                                *)
(***************************************************************************)

\* The inductive strengthening of NoPhantomTrap.  Under a PID whose hooks only
\* read their own elements, the stored value never exceeds the calls made; a
\* hook that has looked its element up has made one call more than the value
\* it found; a hook over the limit has seen more than Limit calls.
StoredSound ==
    \A w \in Wires, p \in Pids : p \notin mixed[w] => counts[w][p] <= calls[w][p]

FoundSound ==
    \A t \in Threads : \A w \in Wires :
        (hook[t].at = "found" /\ hook[t].wire = w /\ Tgid[t] \notin mixed[w])
            => hook[t].val + 1 <= calls[w][Tgid[t]]

OverSound ==
    \A t \in Threads : \A w \in Wires :
        (hook[t].at = "over" /\ hook[t].wire = w /\ Tgid[t] \notin mixed[w])
            => calls[w][Tgid[t]] > Limit[w]

CountsSound == TypeOK /\ StoredSound /\ FoundSound /\ OverSound /\ NoPhantomTrap

\* What an update of the map leaves behind, whichever element it drops.
LEMMA MapEffect ==
    ASSUME TypeOK, NEW t \in Threads, NEW w \in Wires, NEW p \in Pids,
           NEW n \in Nat, NEW then, MapUpdate(t, w, p, n, then)
    PROVE  /\ counts'[w][p] = n
           /\ \A v \in Wires, q \in Pids :
                 (v # w \/ q # p) => counts'[v][q] <= counts[v][q]
           /\ hook'[t] = then
           /\ \A u \in Threads \ {t} :
                 /\ hook'[u].at = hook[u].at
                 /\ hook[u] # Out => hook'[u].wire = hook[u].wire
                 /\ hook[u].at = "found" => hook'[u].val = hook[u].val
<1>1. PICK victims \in SUBSET held[w] : Replace(t, w, p, n, then, victims)
  BY DEF MapUpdate
<1>2. /\ hook \in [Threads -> {Out} \cup Found \cup Late]
      /\ counts \in [Wires -> [Pids -> Nat]]
  BY DEF TypeOK, Found, Late
<1>3. counts'[w][p] = n
  BY <1>1, <1>2 DEF Replace
<1>4. \A v \in Wires, q \in Pids :
         (v # w \/ q # p) => counts'[v][q] <= counts[v][q]
  BY <1>1, <1>2 DEF Replace
<1>5. hook'[t] = then
  BY <1>1 DEF Replace
<1>6. ASSUME NEW u \in Threads \ {t}
      PROVE  /\ hook'[u].at = hook[u].at
             /\ hook[u] # Out => hook'[u].wire = hook[u].wire
             /\ hook[u].at = "found" => hook'[u].val = hook[u].val
  <2>1. CASE hook'[u] = hook[u]
    BY <2>1
  <2>2. CASE hook[u].at = "found" /\ hook'[u] = [hook[u] EXCEPT !.ptr = "recycled"]
    <3>1. hook[u] \in Found
      BY <1>2, <2>2 DEF Found, Late, Out
    <3> QED BY <2>2, <3>1 DEF Found
  <2> QED BY <1>1, <2>1, <2>2 DEF Replace
<1> QED BY <1>3, <1>4, <1>5, <1>6

\* Every step keeps the counts sound.
LEMMA CountsStep == CountsSound /\ [Next]_vars => CountsSound'
<1> SUFFICES ASSUME CountsSound, [Next]_vars PROVE CountsSound'
  OBVIOUS
<1> USE PidsAssumption, LimitAssumption, SensorBounds
<1>0. TypeOK /\ TypeOK'
  BY TypeStep DEF CountsSound
<1>h. hook \in [Threads -> {Out} \cup Found \cup Late]
  BY <1>0 DEF TypeOK, Found, Late
<1>t. /\ counts \in [Wires -> [Pids -> Nat]]
      /\ calls \in [Wires -> [Pids -> Nat]]
      /\ mixed \in [Wires -> SUBSET Pids]
  BY <1>0 DEF TypeOK
<1>1. ASSUME NEW t \in Threads, NEW w \in Wires, Enter(t, w) PROVE CountsSound'
  <2>1. /\ calls' = [calls EXCEPT ![w][Tgid[t]] = @ + 1]
        /\ UNCHANGED <<counts, mixed, hits>>
        /\ hook' = [hook EXCEPT ![t] =
             [at |-> "found", wire |-> w, val |-> counts[w][Tgid[t]],
              ptr |-> IF Tgid[t] \in held[w] THEN "live" ELSE "null"]]
    BY <1>1 DEF Enter
  <2>2. \A v \in Wires, q \in Pids : calls[v][q] <= calls'[v][q]
    BY <1>t, <2>1
  <2>3. calls'[w][Tgid[t]] = calls[w][Tgid[t]] + 1
    BY <1>t, <2>1
  <2>4. StoredSound'
    BY <1>0, <1>t, <2>1, <2>2 DEF CountsSound, StoredSound, TypeOK
  <2>5. FoundSound'
    <3> SUFFICES ASSUME NEW u \in Threads, NEW v \in Wires,
                        hook'[u].at = "found", hook'[u].wire = v,
                        Tgid[u] \notin mixed'[v]
                 PROVE  hook'[u].val + 1 <= calls'[v][Tgid[u]]
      BY DEF FoundSound
    <3>1. CASE u = t
      BY <1>h, <1>t, <2>1, <2>3, <3>1 DEF CountsSound, StoredSound
    <3>2. CASE u # t
      <4>1. hook'[u] = hook[u]
        BY <1>h, <2>1, <3>2
      <4>2. hook[u].val + 1 <= calls[v][Tgid[u]] /\ hook[u].val \in Nat
        BY <1>h, <2>1, <4>1 DEF CountsSound, FoundSound, Found, Late, Out
      <4> QED BY <1>0, <1>t, <2>2, <4>1, <4>2 DEF TypeOK
    <3> QED BY <3>1, <3>2
  <2>6. OverSound'
    <3> SUFFICES ASSUME NEW u \in Threads, NEW v \in Wires,
                        hook'[u].at = "over", hook'[u].wire = v,
                        Tgid[u] \notin mixed'[v]
                 PROVE  calls'[v][Tgid[u]] > Limit[v]
      BY DEF OverSound
    <3>1. u # t /\ hook'[u] = hook[u]
      BY <1>h, <2>1
    <3>2. calls[v][Tgid[u]] > Limit[v]
      BY <2>1, <3>1 DEF CountsSound, OverSound
    <3> QED BY <1>0, <1>t, <2>2, <3>2 DEF TypeOK
  <2>7. NoPhantomTrap'
    BY <2>1 DEF CountsSound, NoPhantomTrap
  <2> QED BY <1>0, <2>4, <2>5, <2>6, <2>7 DEF CountsSound
<1>2. ASSUME NEW t \in Threads, Count(t) PROVE CountsSound'
  <2> DEFINE w == hook[t].wire
             p == Tgid[t]
             then(v) == IF v + 1 > Limit[w] THEN [at |-> "over", wire |-> w]
                        ELSE Out
  <2>1. hook[t] \in Found /\ w \in Wires /\ p \in Pids /\ hook[t].val \in Nat
    <3>1. hook[t].at = "found"
      BY <1>2 DEF Count
    <3>2. hook[t] \in Found
      BY <1>h, <3>1 DEF Found, Late, Out
    <3> QED BY <3>2 DEF Found
  <2>2. PICK v \in Readable(t) :
           /\ MapUpdate(t, w, p, v + 1, then(v))
           /\ mixed' = IF v = hook[t].val THEN mixed
                       ELSE [mixed EXCEPT ![w] = @ \cup {p}]
    BY <1>2 DEF Count
  <2>3. v \in Nat
    BY <1>0, <2>1, <2>2 DEF TypeOK, Readable
  <2>4. /\ counts'[w][p] = v + 1
        /\ \A x \in Wires, q \in Pids :
              (x # w \/ q # p) => counts'[x][q] <= counts[x][q]
        /\ hook'[t] = then(v)
        /\ \A u \in Threads \ {t} :
              /\ hook'[u].at = hook[u].at
              /\ hook[u] # Out => hook'[u].wire = hook[u].wire
              /\ hook[u].at = "found" => hook'[u].val = hook[u].val
    <3> HIDE DEF then, w, p
    <3> QED BY <1>0, <2>1, <2>2, <2>3, MapEffect
  <2>5. /\ UNCHANGED <<calls, hits>>
        /\ \A x \in Wires : mixed[x] \subseteq mixed'[x]
    BY <1>2, <1>t, <2>2 DEF Count
  <2>6. p \notin mixed'[w] => p \notin mixed[w] /\ v + 1 <= calls[w][p]
    <3>1. CASE v = hook[t].val
      BY <2>1, <2>2, <3>1 DEF CountsSound, FoundSound, Found
    <3>2. CASE v # hook[t].val
      BY <1>t, <2>1, <2>2, <3>2
    <3> QED BY <3>1, <3>2
  <2>7. StoredSound'
    <3> SUFFICES ASSUME NEW x \in Wires, NEW q \in Pids, q \notin mixed'[x]
                 PROVE  counts'[x][q] <= calls'[x][q]
      BY DEF StoredSound
    <3>1. CASE x = w /\ q = p
      BY <2>4, <2>5, <2>6, <3>1
    <3>2. CASE x # w \/ q # p
      <4>1. counts'[x][q] <= counts[x][q] /\ counts[x][q] <= calls[x][q]
        BY <2>4, <2>5, <3>2 DEF CountsSound, StoredSound
      <4> QED BY <1>0, <1>t, <2>5, <4>1 DEF TypeOK
    <3> QED BY <3>1, <3>2
  <2>8. FoundSound'
    <3> SUFFICES ASSUME NEW u \in Threads, NEW x \in Wires,
                        hook'[u].at = "found", hook'[u].wire = x,
                        Tgid[u] \notin mixed'[x]
                 PROVE  hook'[u].val + 1 <= calls'[x][Tgid[u]]
      BY DEF FoundSound
    <3>1. u # t
      BY <2>4 DEF Out
    <3>2. hook[u].at = "found" /\ hook[u].wire = x /\ hook'[u].val = hook[u].val
      BY <2>4, <3>1 DEF Out
    <3> QED BY <2>5, <3>2 DEF CountsSound, FoundSound
  <2>9. OverSound'
    <3> SUFFICES ASSUME NEW u \in Threads, NEW x \in Wires,
                        hook'[u].at = "over", hook'[u].wire = x,
                        Tgid[u] \notin mixed'[x]
                 PROVE  calls'[x][Tgid[u]] > Limit[x]
      BY DEF OverSound
    <3>1. CASE u = t
      <4>1. v + 1 > Limit[w] /\ x = w
        BY <2>4, <3>1 DEF Out
      <4> QED BY <1>t, <2>1, <2>3, <2>5, <2>6, <3>1, <4>1
    <3>2. CASE u # t
      <4>1. hook[u].at = "over" /\ hook[u].wire = x
        BY <2>4, <3>2 DEF Out
      <4> QED BY <2>5, <4>1 DEF CountsSound, OverSound
    <3> QED BY <3>1, <3>2
  <2>10. NoPhantomTrap'
    BY <2>5 DEF CountsSound, NoPhantomTrap
  <2> QED BY <1>0, <2>7, <2>8, <2>9, <2>10 DEF CountsSound
<1>3. ASSUME NEW t \in Threads, Trip(t) PROVE CountsSound'
  <2> DEFINE w == hook[t].wire
             p == Tgid[t]
             h == [wire |-> w, pid |-> p, calls |-> calls[w][p],
                   clean |-> p \notin mixed[w]]
  <2>1. /\ hook[t].at = "over" /\ w \in Wires /\ p \in Pids
        /\ UNCHANGED <<counts, calls, mixed>>
        /\ hits' = hits \cup {h}
        /\ hook' = [hook EXCEPT ![t] = [at |-> "reset", wire |-> w]]
    BY <1>3, <1>h DEF Trip, Found, Late, Out
  <2>2. \A u \in Threads : hook'[u].at # "reset" => u # t /\ hook'[u] = hook[u]
    BY <1>h, <2>1
  <2>3. StoredSound' /\ FoundSound' /\ OverSound'
    BY <2>1, <2>2 DEF CountsSound, StoredSound, FoundSound, OverSound
  <2>4. p \notin mixed[w] => calls[w][p] > Limit[w]
    BY <2>1 DEF CountsSound, OverSound
  <2>5. NoPhantomTrap'
    <3>1. h.wire = w /\ h.calls = calls[w][p]
      OBVIOUS
    <3>2. h.clean => p \notin mixed[w]
      BY Zenon
    <3>3. h.clean => h.calls > Limit[h.wire]
      BY <2>4, <3>1, <3>2, Zenon
    <3>4. \A g \in hits : g.clean => g.calls > Limit[g.wire]
      BY DEF CountsSound, NoPhantomTrap
    <3> HIDE DEF h
    <3> QED BY <2>1, <3>3, <3>4, Zenon DEF NoPhantomTrap
  <2> QED BY <1>0, <2>3, <2>5 DEF CountsSound
<1>4. ASSUME NEW t \in Threads, Reset(t) PROVE CountsSound'
  <2> DEFINE w == hook[t].wire
             p == Tgid[t]
  <2>1. /\ w \in Wires /\ p \in Pids /\ UNCHANGED <<calls, mixed, hits>>
        /\ MapUpdate(t, w, p, 0, Out)
    BY <1>4, <1>h DEF Reset, Found, Late, Out
  <2>2. /\ counts'[w][p] = 0
        /\ \A x \in Wires, q \in Pids :
              (x # w \/ q # p) => counts'[x][q] <= counts[x][q]
        /\ hook'[t] = Out
        /\ \A u \in Threads \ {t} :
              /\ hook'[u].at = hook[u].at
              /\ hook[u] # Out => hook'[u].wire = hook[u].wire
              /\ hook[u].at = "found" => hook'[u].val = hook[u].val
    <3> HIDE DEF w, p
    <3> QED BY <1>0, <2>1, MapEffect
  <2>3. \A x \in Wires, q \in Pids : counts'[x][q] <= counts[x][q]
    BY <1>t, <2>1, <2>2
  <2>4. StoredSound'
    <3> SUFFICES ASSUME NEW x \in Wires, NEW q \in Pids, q \notin mixed'[x]
                 PROVE  counts'[x][q] <= calls'[x][q]
      BY DEF StoredSound
    <3>1. counts[x][q] <= calls[x][q]
      BY <2>1 DEF CountsSound, StoredSound
    <3> QED BY <1>0, <1>t, <2>1, <2>3, <3>1 DEF TypeOK
  <2>5. FoundSound' /\ OverSound'
    <3>1. \A u \in Threads : hook'[u].at \in {"found", "over"} =>
             /\ u # t /\ hook[u].at = hook'[u].at /\ hook[u].wire = hook'[u].wire
             /\ hook[u].at = "found" => hook'[u].val = hook[u].val
      BY <2>2 DEF Out
    <3> QED BY <2>1, <3>1 DEF CountsSound, FoundSound, OverSound
  <2>6. NoPhantomTrap'
    BY <2>1 DEF CountsSound, NoPhantomTrap
  <2> QED BY <1>0, <2>4, <2>5, <2>6 DEF CountsSound
<1>5. CASE UNCHANGED <<counts, calls, mixed, hits, hook>>
  BY <1>0, <1>5 DEF CountsSound, StoredSound, FoundSound, OverSound, NoPhantomTrap
<1> QED BY <1>1, <1>2, <1>3, <1>4, <1>5
        DEF Next, Kill, Register, Stop, Reuse, Resume, vars, history

\* A tripwire never fires early: for any number of processes, threads and
\* elements, a PID whose hooks only read their own elements is stopped by
\* handle_openat or handle_sendto only after more than Limit calls under it.
THEOREM TripwireNeverEarly == Spec => []NoPhantomTrap
<1>1. Init => CountsSound
  <2> SUFFICES ASSUME Init PROVE CountsSound
    OBVIOUS
  <2>1. TypeOK
    <3>1. IsFiniteSet({}) /\ Cardinality({}) = 0
      BY FS_EmptySet
    <3> QED BY <3>1, SensorBounds DEF Init, Zero, None, Out, TypeOK
  <2>2. StoredSound /\ FoundSound /\ OverSound /\ NoPhantomTrap
    BY DEF Init, Zero, None, Out, StoredSound, FoundSound, OverSound,
           NoPhantomTrap
  <2> QED BY <2>1, <2>2 DEF CountsSound
<1>2. CountsSound => NoPhantomTrap
  BY DEF CountsSound
<1> QED BY <1>1, <1>2, CountsStep, PTL DEF Spec


(***************************************************************************)
(* A count above the limit is about to be reset.                           *)
(***************************************************************************)

\* Thread t is going to reset the count of its process.
Resetting(t, w, p) ==
    Tgid[t] = p /\ hook[t].at \in {"over", "reset"} /\ hook[t].wire = w

\* A hook that writes a count above the limit resets it before it ends, and
\* every other hook writes a count within the limit or is about to reset too.
LEMMA ResetStep == TypeOK /\ ResetPending /\ [Next]_vars => ResetPending'
<1> SUFFICES ASSUME TypeOK, ResetPending, [Next]_vars,
                    NEW w \in Wires, NEW p \in Pids, counts'[w][p] > Limit[w]
             PROVE  \E t \in Threads : Resetting(t, w, p)'
  BY DEF ResetPending, Resetting, Siblings
<1> USE PidsAssumption, LimitAssumption
<1>h. /\ hook \in [Threads -> {Out} \cup Found \cup Late]
      /\ counts \in [Wires -> [Pids -> Nat]]
  BY DEF TypeOK, Found, Late
<1>c. /\ counts' \in [Wires -> [Pids -> Nat]] /\ Limit[w] \in Nat
  BY TypeStep DEF TypeOK
\* What the other threads' updates leave of the thread that will reset.
<1>r. ASSUME counts'[w][p] <= counts[w][p],
             \A t \in Threads : Resetting(t, w, p) => Resetting(t, w, p)'
      PROVE  \E t \in Threads : Resetting(t, w, p)'
  <2>1. counts[w][p] > Limit[w]
    BY <1>r, <1>h, <1>c
  <2>2. PICK t \in Threads : Resetting(t, w, p)
    BY <2>1 DEF ResetPending, Resetting, Siblings
  <2> QED BY <1>r, <2>2
<1>1. ASSUME NEW t \in Threads, NEW x \in Wires, Enter(t, x)
      PROVE  \E u \in Threads : Resetting(u, w, p)'
  <2>1. \A u \in Threads : Resetting(u, w, p) => Resetting(u, w, p)'
    BY <1>1, <1>h DEF Enter, Resetting, Out
  <2> QED BY <1>1, <1>r, <1>h, <2>1 DEF Enter
<1>2. ASSUME NEW t \in Threads, Count(t)
      PROVE  \E u \in Threads : Resetting(u, w, p)'
  <2> DEFINE x == hook[t].wire
             q == Tgid[t]
             then(v) == IF v + 1 > Limit[x] THEN [at |-> "over", wire |-> x]
                        ELSE Out
  <2>1. hook[t].at = "found" /\ x \in Wires /\ q \in Pids /\ hook[t].val \in Nat
    <3>1. hook[t].at = "found"
      BY <1>2 DEF Count
    <3>2. hook[t] \in Found
      BY <1>h, <3>1 DEF Found, Late, Out
    <3> QED BY <3>1, <3>2 DEF Found
  <2>2. PICK v \in Readable(t) : MapUpdate(t, x, q, v + 1, then(v))
    BY <1>2 DEF Count
  <2>3. v \in Nat
    BY <2>1, <2>2 DEF TypeOK, Readable
  <2>4. /\ counts'[x][q] = v + 1
        /\ \A y \in Wires, r \in Pids :
              (y # x \/ r # q) => counts'[y][r] <= counts[y][r]
        /\ hook'[t] = then(v)
        /\ \A u \in Threads \ {t} :
              /\ hook'[u].at = hook[u].at
              /\ hook[u] # Out => hook'[u].wire = hook[u].wire
    <3>1. TypeOK /\ v + 1 \in Nat
      BY <2>3
    <3> HIDE DEF then, x, q
    <3> QED BY <2>1, <2>2, <3>1, MapEffect
  <2>5. CASE w = x /\ p = q
    <3>1. hook'[t] = [at |-> "over", wire |-> x]
      BY <2>4, <2>5
    <3> QED BY <2>5, <3>1 DEF Resetting
  <2>6. CASE w # x \/ p # q
    <3>1. \A u \in Threads : Resetting(u, w, p) => Resetting(u, w, p)'
      BY <2>1, <2>4 DEF Resetting, Out
    <3> QED BY <1>r, <2>4, <2>6, <3>1
  <2> QED BY <2>5, <2>6
<1>3. ASSUME NEW t \in Threads, Trip(t)
      PROVE  \E u \in Threads : Resetting(u, w, p)'
  <2>1. /\ UNCHANGED counts
        /\ hook' = [hook EXCEPT ![t] = [at |-> "reset", wire |-> hook[t].wire]]
    BY <1>3 DEF Trip
  <2>2. \A u \in Threads : Resetting(u, w, p) => Resetting(u, w, p)'
    BY <1>h, <2>1 DEF Resetting
  <2> QED BY <1>r, <1>h, <2>1, <2>2
<1>4. ASSUME NEW t \in Threads, Reset(t)
      PROVE  \E u \in Threads : Resetting(u, w, p)'
  <2> DEFINE x == hook[t].wire
             q == Tgid[t]
  <2>1. x \in Wires /\ q \in Pids /\ MapUpdate(t, x, q, 0, Out)
    BY <1>4, <1>h DEF Reset, Found, Late, Out
  <2>2. /\ counts'[x][q] = 0
        /\ \A y \in Wires, r \in Pids :
              (y # x \/ r # q) => counts'[y][r] <= counts[y][r]
        /\ \A u \in Threads \ {t} :
              /\ hook'[u].at = hook[u].at
              /\ hook[u] # Out => hook'[u].wire = hook[u].wire
    <3> HIDE DEF x, q
    <3> QED BY <2>1, MapEffect
  <2>3. w # x \/ p # q
    BY <1>c, <2>2
  <2>4. \A u \in Threads : Resetting(u, w, p) => Resetting(u, w, p)'
    BY <2>2, <2>3 DEF Resetting, Out
  <2> QED BY <1>r, <2>2, <2>3, <2>4
<1>5. CASE UNCHANGED <<counts, hook>>
  <2>1. \A u \in Threads : Resetting(u, w, p) => Resetting(u, w, p)'
    BY <1>5 DEF Resetting
  <2> QED BY <1>r, <1>h, <1>5, <2>1
<1> QED BY <1>1, <1>2, <1>3, <1>4, <1>5
        DEF Next, Kill, Register, Stop, Reuse, Resume, vars, history

\* For any number of threads, no interleaving of the unlocked lookups, updates
\* and resets of handle_openat and handle_sendto leaves a count above the limit
\* behind.
THEOREM CountsComeDown == Spec => []ResetPending
<1>1. Init => ResetPending
  BY LimitAssumption DEF Init, Zero, ResetPending
<1> QED BY <1>1, SensorTypeCorrect, ResetStep, PTL DEF Spec

-----------------------------------------------------------------------------
(***************************************************************************)
(* One thread counts exactly.                                              *)
(***************************************************************************)

\* Thread t is in the hook of wire w.
On(t, w) == hook[t] # Out /\ hook[t].wire = w

\* The inductive strengthening of SerialExact, for p with the one thread t and
\* an element that was never evicted: what its hook has still to do makes up
\* the difference between the calls and what is stored and reported.
Serial(t, w, p) ==
    LET c   == counts[w][p]
        due == (Limit[w] + 1) * traps[w][p]
    IN  /\ ~On(t, w) => c <= Limit[w] /\ calls[w][p] = c + due
        /\ On(t, w) /\ hook[t].at = "found" =>
              /\ c <= Limit[w] /\ calls[w][p] = c + 1 + due
              /\ hook[t].val = c /\ hook[t].ptr # "recycled"
        /\ On(t, w) /\ hook[t].at = "over" =>
              c = Limit[w] + 1 /\ calls[w][p] = c + due
        /\ On(t, w) /\ hook[t].at = "reset" => calls[w][p] = due

SerialInv ==
    \A t \in Threads, w \in Wires, p \in Pids :
        Siblings(p) = {t} /\ p \notin evicted[w] => Serial(t, w, p)

\* Outside its hook the only thread of a process has counted every call.
LEMMA SerialCounts == SerialInv => SerialExact
<1> SUFFICES ASSUME SerialInv, NEW w \in Wires, NEW p \in Pids,
                    Cardinality(Siblings(p)) = 1, p \notin evicted[w],
                    \A t \in Siblings(p) : hook[t] = Out
             PROVE  calls[w][p] = counts[w][p] + (Limit[w] + 1) * traps[w][p]
  BY DEF SerialExact
<1>1. Siblings(p) \in SUBSET Threads
  BY DEF Siblings
<1>2. IsFiniteSet(Siblings(p))
  BY <1>1, ThreadsAssumption, FS_Subset
<1>3. PICK t : Siblings(p) = {t}
  BY <1>2, FS_Singleton
<1>4. t \in Threads /\ hook[t] = Out
  BY <1>1, <1>3
<1>5. Serial(t, w, p) /\ ~On(t, w)
  BY <1>3, <1>4 DEF SerialInv, On
<1> QED BY <1>5 DEF Serial

\* An update of the map by its only thread; and what the updates of other
\* processes leave alone, unless they evict the element.
LEMMA OwnUpdate ==
    ASSUME TypeOK, NEW t \in Threads, NEW x \in Wires, NEW p \in Pids, NEW n \in Nat,
           NEW then, MapUpdate(t, x, p, n, then), NEW w \in Wires, p \notin evicted'[w]
    PROVE  /\ p \notin evicted[w] /\ hook'[t] = then
           /\ counts'[w][p] = IF w = x THEN n ELSE counts[w][p]
<1>1. PICK victims \in SUBSET held[x] : Replace(t, x, p, n, then, victims)
  BY DEF MapUpdate
<1> QED BY <1>1 DEF Replace, TypeOK

\* What another process stores leaves the element of a process that keeps its
\* place, and its hook, alone.
LEMMA OthersUpdate ==
    ASSUME TypeOK, NEW u \in Threads, NEW x \in Wires, NEW n \in Nat, NEW then,
           MapUpdate(u, x, Tgid[u], n, then),
           NEW t \in Threads, NEW p \in Pids, Siblings(p) = {t}, u # t,
           NEW w \in Wires, p \notin evicted'[w], p \notin evicted'[x] \/ w # x
    PROVE  /\ p \notin evicted[w] /\ counts'[w][p] = counts[w][p]
           /\ On(t, w) => hook'[t] = hook[t]
           /\ ~On(t, w) => ~On(t, w)'
<1>1. PICK victims \in SUBSET held[x] : Replace(u, x, Tgid[u], n, then, victims)
  BY DEF MapUpdate
<1>2. Tgid[t] = p /\ Tgid[u] # p
  BY DEF Siblings
<1>3. p \notin evicted[w] /\ counts'[w][p] = counts[w][p]
  BY <1>1, <1>2, PidsAssumption DEF Replace, TypeOK
<1>4. CASE w = x
  <2>1. p \notin victims
    BY <1>1, <1>4 DEF Replace, TypeOK
  <2>2. hook'[t] = hook[t]
    BY <1>1, <1>2, <2>1 DEF Replace
  <2> QED BY <1>3, <2>2 DEF On
<1>5. CASE w # x
  <2>1. \/ hook'[t] = hook[t]
        \/ /\ hook[t].at = "found" /\ hook[t].wire = x
           /\ hook'[t] = [hook[t] EXCEPT !.ptr = "recycled"]
    BY <1>1 DEF Replace
  <2>2. ASSUME hook[t].at = "found" PROVE hook[t] \in Found
    <3>1. hook \in [Threads -> {Out} \cup Found \cup Late]
      BY DEF TypeOK, Found, Late
    <3> QED BY <2>2, <3>1 DEF Found, Late, Out
  <2>3. ASSUME hook[t].at = "found", hook[t].wire = x,
               hook'[t] = [hook[t] EXCEPT !.ptr = "recycled"]
        PROVE  hook'[t].wire = x /\ hook[t] # Out
    BY <2>2, <2>3 DEF Found, Out
  <2> QED BY <1>3, <1>5, <2>1, <2>3 DEF On
<1> QED BY <1>4, <1>5

\* One thread does not race with itself, and other processes reach its element
\* only by evicting it.
LEMMA SerialStep == TypeOK /\ SerialInv /\ [Next]_vars => SerialInv'
<1> SUFFICES ASSUME TypeOK, SerialInv, [Next]_vars, NEW t \in Threads,
                    NEW w \in Wires, NEW p \in Pids, Siblings(p) = {t},
                    p \notin evicted'[w]
             PROVE  Serial(t, w, p)'
  BY DEF SerialInv, Siblings
<1> USE PidsAssumption, LimitAssumption, SensorBounds
<1>0. /\ hook \in [Threads -> {Out} \cup Found \cup Late]
      /\ counts \in [Wires -> [Pids -> Nat]] /\ traps \in [Wires -> [Pids -> Nat]]
      /\ calls \in [Wires -> [Pids -> Nat]] /\ Limit[w] \in Nat
      /\ counts[w][p] \in Nat /\ traps[w][p] \in Nat /\ calls[w][p] \in Nat
      /\ evicted \in [Wires -> SUBSET Pids]
  BY DEF TypeOK, Found, Late
<1>h. hook \in [Threads -> {Out} \cup Found \cup Late]
  BY <1>0
<1>1. Tgid[t] = p /\ \A u \in Threads : Tgid[u] = p => u = t
  BY DEF Siblings
\* Nothing of this process on this wire changes.
<1>2. ASSUME p \notin evicted[w],
             calls'[w][p] = calls[w][p], traps'[w][p] = traps[w][p],
             counts'[w][p] = counts[w][p], On(t, w) => hook'[t] = hook[t],
             ~On(t, w) => ~On(t, w)'
      PROVE  Serial(t, w, p)'
  <2>1. Serial(t, w, p)
    BY <1>2 DEF SerialInv
  <2>2. CASE On(t, w)
    <3>1. On(t, w)' /\ hook'[t] = hook[t]
      BY <1>2, <2>2 DEF On
    <3> QED BY <1>2, <2>1, <2>2, <3>1 DEF Serial
  <2>3. CASE ~On(t, w)
    BY <1>2, <2>1, <2>3 DEF Serial
  <2> QED BY <2>2, <2>3
<1>3. ASSUME NEW u \in Threads, NEW x \in Wires, Enter(u, x) PROVE Serial(t, w, p)'
  <2>1. /\ calls' = [calls EXCEPT ![x][Tgid[u]] = @ + 1] /\ hook[u] = Out
        /\ UNCHANGED <<counts, traps, evicted>>
        /\ hook' = [hook EXCEPT ![u] =
             [at |-> "found", wire |-> x, val |-> counts[x][Tgid[u]],
              ptr |-> IF Tgid[u] \in held[x] THEN "live" ELSE "null"]]
    BY <1>3 DEF Enter
  <2>2. CASE u = t /\ x = w
    <3>1. /\ hook'[t].at = "found" /\ hook'[t].wire = w /\ hook'[t] # Out
          /\ hook'[t].val = counts[w][p] /\ hook'[t].ptr # "recycled"
      BY <1>0, <1>1, <2>1, <2>2 DEF Out
    <3>2. calls'[w][p] = calls[w][p] + 1
      BY <1>0, <1>1, <2>1, <2>2
    <3>3. /\ counts[w][p] <= Limit[w]
          /\ calls[w][p] = counts[w][p] + (Limit[w] + 1) * traps[w][p]
      BY <2>1, <2>2 DEF SerialInv, Serial, On
    <3>4. calls'[w][p] = counts[w][p] + 1 + (Limit[w] + 1) * traps[w][p]
      BY <1>0, <3>2, <3>3
    <3> QED BY <2>1, <3>1, <3>3, <3>4 DEF Serial, On
  <2>3. CASE u # t \/ x # w
    <3>1. calls'[w][p] = calls[w][p]
      BY <1>0, <1>1, <2>1, <2>3
    <3>2. (On(t, w) => hook'[t] = hook[t]) /\ (~On(t, w) => ~On(t, w)')
      BY <1>0, <2>1, <2>3 DEF On, Out
    <3> QED BY <1>2, <2>1, <3>1, <3>2
  <2> QED BY <2>2, <2>3
<1>4. ASSUME NEW u \in Threads, Count(u) PROVE Serial(t, w, p)'
  <2>x. PICK x : x = hook[u].wire
    OBVIOUS
  <2>v. PICK v \in Readable(u) :
           MapUpdate(u, x, Tgid[u], v + 1,
                     IF v + 1 > Limit[x] THEN [at |-> "over", wire |-> x] ELSE Out)
    BY <1>4, <2>x DEF Count
  <2>0. PICK then :
           /\ then = IF v + 1 > Limit[x] THEN [at |-> "over", wire |-> x] ELSE Out
           /\ MapUpdate(u, x, Tgid[u], v + 1, then)
    BY <2>v
  <2>1. /\ hook[u].at = "found" /\ hook[u] \in Found /\ x \in Wires /\ v \in Nat
        /\ UNCHANGED <<calls, traps>>
    <3>1. hook[u].at = "found" /\ UNCHANGED <<calls, traps>>
      BY <1>4 DEF Count
    <3>2. hook[u] \in Found
      BY <1>h, <3>1 DEF Found, Late, Out
    <3>3. hook[u].val \in Nat /\ x \in Wires
      BY <2>x, <3>2 DEF Found
    <3>4. written[x] \subseteq Nat
      BY <3>3 DEF TypeOK
    <3> QED BY <2>v, <2>x, <3>1, <3>2, <3>3, <3>4 DEF Readable
  <2>2. CASE u = t
    <3>1. /\ p \notin evicted[w] /\ hook'[t] = then
          /\ counts'[w][p] = IF w = x THEN v + 1 ELSE counts[w][p]
      BY <1>1, <2>0, <2>1, <2>2, OwnUpdate
    <3>2. CASE w = x
      <4>1. On(t, w) /\ hook[t].at = "found"
        BY <2>x, <2>1, <2>2, <3>2 DEF On, Found, Out
      <4>2. /\ counts[w][p] <= Limit[w] /\ hook[t].val = counts[w][p]
            /\ calls[w][p] = counts[w][p] + 1 + (Limit[w] + 1) * traps[w][p]
            /\ hook[t].ptr # "recycled"
        BY <3>1, <4>1 DEF SerialInv, Serial
      <4>3. v = counts[w][p]
        BY <2>v, <2>2, <4>2 DEF Readable
      <4>4. CASE v + 1 > Limit[w]
        <5>1. On(t, w)' /\ hook'[t].at = "over" /\ counts'[w][p] = Limit[w] + 1
          BY <1>0, <2>0, <2>1, <3>1, <3>2, <4>2, <4>3, <4>4 DEF On, Out
        <5> QED BY <2>1, <3>1, <3>2, <4>2, <4>3, <5>1 DEF Serial
      <4>5. CASE ~(v + 1 > Limit[w])
        <5>1. ~On(t, w)' /\ counts'[w][p] <= Limit[w]
          BY <1>0, <2>0, <2>1, <3>1, <3>2, <4>5 DEF On
        <5> QED BY <2>1, <3>1, <3>2, <4>2, <4>3, <5>1 DEF Serial
      <4> QED BY <4>4, <4>5
    <3>3. CASE w # x
      <4>1. ~On(t, w) /\ ~On(t, w)'
        BY <2>0, <2>x, <2>2, <3>1, <3>3 DEF On, Out
      <4> QED BY <1>2, <2>1, <3>1, <3>3, <4>1
    <3> QED BY <3>2, <3>3
  <2>3. CASE u # t
    <3>1. /\ p \notin evicted[w] /\ counts'[w][p] = counts[w][p]
          /\ (On(t, w) => hook'[t] = hook[t]) /\ (~On(t, w) => ~On(t, w)')
      BY <2>0, <2>1, <2>3, OthersUpdate
    <3> QED BY <1>2, <2>1, <3>1
  <2> QED BY <2>2, <2>3
<1>5. ASSUME NEW u \in Threads, Trip(u) PROVE Serial(t, w, p)'
  <2>0. PICK x : x = hook[u].wire
    OBVIOUS
  <2>1. /\ hook[u].at = "over" /\ x \in Wires /\ hook[u] # Out
        /\ UNCHANGED <<counts, calls, evicted>>
        /\ traps' = [traps EXCEPT ![x][Tgid[u]] = @ + 1]
        /\ hook' = [hook EXCEPT ![u] = [at |-> "reset", wire |-> x]]
    BY <1>0, <1>5, <2>0 DEF Trip, Found, Late, Out
  <2>2. CASE u = t /\ x = w
    <3>1. On(t, w) /\ On(t, w)' /\ hook'[t].at = "reset"
      BY <1>0, <2>0, <2>1, <2>2 DEF On, Out
    <3>2. /\ counts[w][p] = Limit[w] + 1
          /\ calls[w][p] = counts[w][p] + (Limit[w] + 1) * traps[w][p]
      BY <2>1, <2>2, <3>1 DEF SerialInv, Serial
    <3>3. traps'[w][p] = traps[w][p] + 1
      BY <1>0, <1>1, <2>1, <2>2
    <3>4. calls'[w][p] = (Limit[w] + 1) * traps'[w][p]
      <4>1. \A a, b \in Nat : a + a * b = a * (b + 1)
        OBVIOUS
      <4> QED BY <1>0, <2>1, <3>2, <3>3, <4>1
    <3> QED BY <3>1, <3>4 DEF Serial
  <2>3. CASE u # t \/ x # w
    <3>1. traps'[w][p] = traps[w][p]
      BY <1>0, <1>1, <2>1, <2>3
    <3>2. (On(t, w) => hook'[t] = hook[t]) /\ (~On(t, w) => ~On(t, w)')
      BY <1>0, <2>0, <2>1, <2>3 DEF On, Out
    <3> QED BY <1>2, <2>1, <3>1, <3>2
  <2> QED BY <2>2, <2>3
<1>6. ASSUME NEW u \in Threads, Reset(u) PROVE Serial(t, w, p)'
  <2>0. PICK x : x = hook[u].wire
    OBVIOUS
  <2>1. /\ hook[u].at = "reset" /\ x \in Wires /\ hook[u] # Out
        /\ UNCHANGED <<calls, traps>> /\ MapUpdate(u, x, Tgid[u], 0, Out)
    BY <1>0, <1>6, <2>0 DEF Reset, Found, Late, Out
  <2>2. CASE u = t
    <3>1. /\ p \notin evicted[w] /\ hook'[t] = Out
          /\ counts'[w][p] = IF w = x THEN 0 ELSE counts[w][p]
      BY <1>1, <2>1, <2>2, OwnUpdate
    <3>2. ~On(t, w)'
      BY <3>1 DEF On
    <3>3. CASE w = x
      <4>1. On(t, w)
        BY <2>0, <2>1, <2>2, <3>3 DEF On
      <4>2. calls[w][p] = (Limit[w] + 1) * traps[w][p]
        BY <2>1, <2>2, <3>1, <4>1 DEF SerialInv, Serial
      <4>3. (Limit[w] + 1) * traps[w][p] \in Nat
        BY <1>0, <4>2
      <4> QED BY <1>0, <2>1, <3>1, <3>2, <3>3, <4>2, <4>3 DEF Serial
    <3>4. CASE w # x
      <4>1. ~On(t, w)
        BY <2>0, <2>2, <3>4 DEF On
      <4> QED BY <1>2, <2>1, <3>1, <3>2, <3>4, <4>1
    <3> QED BY <3>3, <3>4
  <2>3. CASE u # t
    <3>1. /\ p \notin evicted[w] /\ counts'[w][p] = counts[w][p]
          /\ (On(t, w) => hook'[t] = hook[t]) /\ (~On(t, w) => ~On(t, w)')
      BY <2>1, <2>3, OthersUpdate
    <3> QED BY <1>2, <2>1, <3>1
  <2> QED BY <2>2, <2>3
<1>7. CASE UNCHANGED <<counts, calls, traps, evicted, hook>>
  BY <1>2, <1>7 DEF On
<1> QED BY <1>3, <1>4, <1>5, <1>6, <1>7
        DEF Next, Kill, Register, Stop, Reuse, Resume, vars, history

\* A process with one thread whose element stays in the map trips its wire at
\* every (Limit + 1)-th call exactly, for every limit and map capacity and
\* whatever the other processes do.
THEOREM SerialCountsExact == Spec => []SerialExact
<1>1. Init => SerialInv
  <2>1. Init => \A w \in Wires, p \in Pids :
                   /\ counts[w][p] = 0 /\ traps[w][p] = 0 /\ calls[w][p] = 0
                   /\ Limit[w] \in Nat
    BY LimitAssumption DEF Init, Zero
  <2> QED BY <2>1 DEF Init, SerialInv, Serial, On
<1> QED BY <1>1, SensorTypeCorrect, SerialStep, SerialCounts, PTL DEF Spec

=============================================================================

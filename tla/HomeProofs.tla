----------------------------- MODULE HomeProofs -----------------------------
(***************************************************************************)
(* Proofs about the traps, the decoys and the snapshots of the home data   *)
(* set, for every set of inode numbers and PIDs.                           *)
(***************************************************************************)
EXTENDS Home, TLAPS

-----------------------------------------------------------------------------
(***************************************************************************)
(* Type correctness.                                                       *)
(***************************************************************************)

\* No two files of a directory tree share a number.
Distinct(f) == \A m, n \in Files : m # n /\ f[m] = f[n] => f[n] = 0

\* The type invariant; the baseline is a tree as well, and what the snapshot
\* task works on was taken, and not in the future.
HomeType == /\ TypeOK
            /\ Distinct(baseline)
            /\ task.at \in {"send", "sending"} => task.snap \in taken
            /\ task.snap <= now
            /\ backups \subseteq [name: Nat, snap: Nat,
                                  content: {"cut", "empty", "whole"}]

\* Putting file n on an unused number keeps the numbers apart.
LEMMA PutDistinct ==
    ASSUME HomeType, NEW n \in Files, NEW i \in Inos \cup {0},
           i = 0 \/ i = home[n] \/ Unused(i),
           home' = [home EXCEPT ![n] = i]
    PROVE  home' \in [Files -> Inos \cup {0}] /\ Distinct(home')
<1>1. home \in [Files -> Inos \cup {0}] /\ Distinct(home)
  BY DEF HomeType, TypeOK, Distinct
<1> QED BY <1>1 DEF Distinct, Unused

\* A backup replaces the one of its name.
LEMMA WrittenTyped ==
    ASSUME HomeType, NEW t \in Nat, NEW content \in {"cut", "empty", "whole"},
           Written(t, content)
    PROVE  /\ \A b, c \in backups' : b.name = c.name => b = c
           /\ backups' \subseteq [name: Nat, snap: Nat,
                                  content: {"cut", "empty", "whole"}]
<1> DEFINE r == [name |-> t, snap |-> t, content |-> content]
<1>1. /\ r \in [name: Nat, snap: Nat, content: {"cut", "empty", "whole"}]
      /\ r.name = t /\ backups' = {b \in backups : b.name # t} \cup {r}
  BY DEF Written, BackupPath
<1> HIDE DEF r
<1>2. /\ backups \subseteq [name: Nat, snap: Nat,
                            content: {"cut", "empty", "whole"}]
      /\ \A b, c \in backups : b.name = c.name => b = c
  BY DEF HomeType, TypeOK
<1> QED BY <1>1, <1>2


\* What the agent trips are numbers.
LEMMA OpenedTyped ==
    ASSUME HomeType, NEW file \in Tokens \cup {"outside"}, NEW opens,
           \A o \in opens : o[1] \in Inos, Opened(file, opens)
    PROVE  selfTrips' \subseteq [file: Tokens \cup {"outside"}, ino: Inos]
BY DEF Opened, HomeType, TypeOK

\* The files of the agent outside the data set.
LEMMA OutsideTyped ==
    ASSUME HomeType,
           \/ \E i \in ReadInos, j \in WriteInos :
                Opened("outside", {<<i, "read">>, <<j, "write">>})
           \/ \E i \in ReadInos : Opened("outside", {<<i, "read">>})
           \/ \E i \in WriteInos : Opened("outside", {<<i, "write">>})
    PROVE  selfTrips' \subseteq [file: Tokens \cup {"outside"}, ino: Inos]
<1>1. ASSUME NEW i \in Inos, NEW j \in Inos,
             \/ Opened("outside", {<<i, "read">>, <<j, "write">>})
             \/ Opened("outside", {<<i, "read">>})
             \/ Opened("outside", {<<j, "write">>})
      PROVE  selfTrips' \subseteq [file: Tokens \cup {"outside"}, ino: Inos]
  <2>1. \A o \in {<<i, "read">>, <<j, "write">>} : o[1] \in Inos
    OBVIOUS
  <2> QED BY <1>1, <2>1, OpenedTyped
<1> QED BY <1>1, InosAssumption

\* The set-up of the traps.
LEMMA TrapsTyped ==
    ASSUME HomeType,
           \/ \E n \in Tokens : WriteToken(n) \/ RegisterToken(n)
           \/ SkipSsh \/ RegisterDevices \/ EndSetup \/ FreezeSelf
    PROVE  HomeType'
<1>0. /\ home \in [Files -> Inos \cup {0}] /\ pc \in [at: Steps, token: Tokens]
      /\ honeytokens \in [Inos -> 0..2] /\ guard \in [Tokens -> Inos \cup {0}]
      /\ selfTrips \subseteq [file: Tokens \cup {"outside"}, ino: Inos]
      /\ Distinct(home)
  BY DEF HomeType, TypeOK, Distinct
<1>1. UNCHANGED <<baseline, moves, procVars, snapVars, lifeVars>>
  BY DEF WriteToken, RegisterToken, SkipSsh, RegisterDevices, EndSetup, FreezeSelf,
         dataVars
<1>2. pc' \in [at: Steps, token: Tokens]
  <2>0. pc \in [at: Steps, token: Tokens]
    BY <1>0
  <2>1. CASE (\E n \in Tokens : WriteToken(n)) \/ RegisterDevices \/ FreezeSelf
    BY <2>0, <2>1 DEF WriteToken, RegisterDevices, FreezeSelf, Steps
  <2>2. CASE (\E n \in Tokens : RegisterToken(n)) \/ SkipSsh
    <3>1. \E n \in Tokens : pc' = After(n)
      BY <2>2 DEF RegisterToken, SkipSsh, Tokens
    <3> QED BY <3>1 DEF After, Steps, Tokens
  <2>3. CASE EndSetup
    BY <2>3 DEF EndSetup, Loop, Steps, Tokens
  <2> QED BY <2>1, <2>2, <2>3
<1>3. /\ home' \in [Files -> Inos \cup {0}] /\ Distinct(home')
      /\ selfTrips' \subseteq [file: Tokens \cup {"outside"}, ino: Inos]
  <2>1. CASE UNCHANGED <<home, selfTrips>>
    BY <1>0, <2>1 DEF Distinct
  <2>2. ASSUME NEW n \in Tokens, NEW i \in Inos,
               i = home[n] \/ (home[n] = 0 /\ Unused(i)),
               home' = [home EXCEPT ![n] = i], Opened(n, {<<i, "write">>})
        PROVE  /\ home' \in [Files -> Inos \cup {0}] /\ Distinct(home')
               /\ selfTrips' \subseteq [file: Tokens \cup {"outside"}, ino: Inos]
    <3>1. n \in Files /\ \A o \in {<<i, "write">>} : o[1] \in Inos
      BY DEF Files
    <3>2. home' \in [Files -> Inos \cup {0}] /\ Distinct(home')
      BY <1>0, <2>2, <3>1, PutDistinct
    <3> QED BY <2>2, <3>1, <3>2, OpenedTyped
  <2> QED BY <2>1, <2>2
          DEF WriteToken, RegisterToken, SkipSsh, RegisterDevices, EndSetup,
              FreezeSelf, dataVars
<1>4. honeytokens' \in [Inos -> 0..2] /\ guard' \in [Tokens -> Inos \cup {0}]
  <2>1. CASE \E n \in Tokens : RegisterToken(n)
    <3> PICK n \in Tokens : RegisterToken(n)
      BY <2>1
    <3>1. home[n] \in Inos /\ Value(n) \in 0..2
      BY <1>0 DEF RegisterToken, Files, Value
    <3> QED BY <1>0, <3>1 DEF RegisterToken
  <2>2. CASE RegisterDevices
    BY <1>0, <2>2 DEF RegisterDevices
  <2>3. CASE UNCHANGED <<honeytokens, guard>>
    BY <1>0, <2>3
  <2> QED BY <2>1, <2>2, <2>3
          DEF WriteToken, SkipSsh, EndSetup, FreezeSelf
<1> QED BY <1>1, <1>2, <1>3, <1>4
        DEF HomeType, TypeOK, Distinct, procVars, snapVars, lifeVars

\* The decoys, the users, the processes and the files outside the data set.
LEMMA UsersTyped ==
    ASSUME HomeType,
           Users \/ (\E d \in Decoys : StartDecoy(d)) \/ AppendLog \/ Carve
    PROVE  HomeType'
<1>1. CASE \E n \in Files, i \in Inos \cup {0} : MoveFile(n, i)
  <2> PICK n \in Files, i \in Inos \cup {0} : MoveFile(n, i)
    BY <1>1
  <2>1. home' \in [Files -> Inos \cup {0}] /\ Distinct(home')
    BY PutDistinct DEF MoveFile
  <2>2. moves' \in 0..MaxMoves
    BY HomeBounds DEF MoveFile, HomeType, TypeOK
  <2> QED BY <2>1, <2>2
          DEF MoveFile, HomeType, TypeOK, Distinct, trapVars, procVars, snapVars,
              lifeVars
<1>2. CASE \E p \in Pids : DecoyDies(p) \/ OtherProcess(p)
  <2>1. /\ proc' \in [Pids -> {"free", "decoy", "zombie", "other"}]
        /\ ghost_pids' \subseteq Pids /\ todo' \subseteq Decoys
    BY <1>2 DEF DecoyDies, OtherProcess, HomeType, TypeOK
  <2>2. UNCHANGED <<dataVars, trapVars, snapVars, lifeVars>>
    BY <1>2 DEF DecoyDies, OtherProcess
  <2> QED BY <2>1, <2>2
          DEF HomeType, TypeOK, Distinct, dataVars, trapVars, snapVars, lifeVars
<1>3. CASE (\E d \in Decoys : StartDecoy(d)) \/ AppendLog \/ Carve
  <2>1. /\ proc' \in [Pids -> {"free", "decoy", "zombie", "other"}]
        /\ ghost_pids' \subseteq Pids /\ todo' \subseteq Decoys
    BY <1>3 DEF StartDecoy, AppendLog, Carve, procVars, HomeType, TypeOK
  <2>2. selfTrips' \subseteq [file: Tokens \cup {"outside"}, ino: Inos]
    BY <1>3, OutsideTyped DEF StartDecoy, AppendLog, Carve
  <2>3. UNCHANGED <<dataVars, pc, honeytokens, guard, snapVars, lifeVars>>
    BY <1>3 DEF StartDecoy, AppendLog, Carve
  <2> QED BY <2>1, <2>2, <2>3
          DEF HomeType, TypeOK, Distinct, dataVars, snapVars, lifeVars
<1> QED BY <1>1, <1>2, <1>3 DEF Users

\* The snapshot task and the rollback.
LEMMA SnapshotsTyped ==
    ASSUME HomeType, Daily \/ Rollback
    PROVE  HomeType'
<1>0. /\ task \in [at: {"start", "sleep", "send", "sending"}, snap: 0..MaxTime]
      /\ now \in 0..MaxTime /\ MaxTime \in Nat
      /\ snaps \subseteq taken /\ taken \subseteq 0..MaxTime
      /\ \A b, c \in backups : b.name = c.name => b = c
      /\ gone \subseteq taken \X {"export", "rollback", "restart"}
      /\ task.at \in {"send", "sending"} => task.snap \in taken
      /\ task.snap <= now
      /\ backups \subseteq [name: Nat, snap: Nat,
                            content: {"cut", "empty", "whole"}]
  BY HomeBounds DEF HomeType, TypeOK
<1>1. UNCHANGED <<baseline, moves, trapVars, procVars, lifeVars>>
  BY DEF Daily, Rollback, Snapshot, StartSend, EndSend, dataVars
<1>2. home' \in [Files -> Inos \cup {0}] /\ Distinct(home')
  BY DEF Daily, Rollback, Snapshot, StartSend, EndSend, dataVars, HomeType, TypeOK,
         Distinct
<1>3. CASE \E ok \in BOOLEAN : Snapshot(ok)
  <2>1. /\ task' \in [at: {"start", "sleep", "send", "sending"}, snap: 0..MaxTime]
        /\ snaps' \subseteq taken' /\ taken' \subseteq 0..MaxTime
        /\ taken \subseteq taken'
        /\ task'.at \in {"send", "sending"} => task'.snap \in taken'
        /\ task'.snap <= now /\ UNCHANGED <<backups, gone>>
    <3> PICK ok \in BOOLEAN : Snapshot(ok)
      BY <1>3
    <3>1. UNCHANGED <<backups, gone>>
      BY DEF Snapshot
    <3>2. CASE /\ snaps' = snaps \cup {now} /\ taken' = taken \cup {now}
               /\ task' = [at |-> "send", snap |-> now]
      BY <1>0, <3>1, <3>2
    <3>3. CASE task' = [at |-> "sleep", snap |-> now] /\ UNCHANGED <<snaps, taken>>
      BY <1>0, <3>1, <3>3
    <3> QED BY <3>2, <3>3 DEF Snapshot
  <2>2. gone' \subseteq taken' \X {"export", "rollback", "restart"}
    BY <1>0, <2>1
  <2> QED BY <1>0, <1>1, <1>2, <2>1, <2>2
          DEF HomeType, TypeOK, Distinct, trapVars, procVars, lifeVars
<1>4. CASE StartSend \/ \E sent, compressed \in BOOLEAN : EndSend(sent, compressed)
  <2>1. /\ task.snap \in Nat /\ task.at \in {"send", "sending"}
        /\ \E content \in {"cut", "empty", "whole"} : Written(task.snap, content)
    BY <1>0, <1>4 DEF StartSend, EndSend
  <2>2. /\ \A b, c \in backups' : b.name = c.name => b = c
        /\ backups' \subseteq [name: Nat, snap: Nat,
                               content: {"cut", "empty", "whole"}]
    BY <2>1, WrittenTyped
  <2>3. /\ task' \in [at: {"start", "sleep", "send", "sending"}, snap: 0..MaxTime]
        /\ task'.snap = task.snap
    BY <1>0, <1>4 DEF StartSend, EndSend
  <2>4. UNCHANGED <<snaps, taken>> /\ gone' \subseteq gone \cup {<<task.snap, "export">>}
    BY <1>4 DEF StartSend, EndSend
  <2>5. gone' \subseteq taken' \X {"export", "rollback", "restart"}
    BY <1>0, <2>1, <2>4
  <2> QED BY <1>0, <1>1, <1>2, <2>1, <2>2, <2>3, <2>4, <2>5
          DEF HomeType, TypeOK, Distinct, trapVars, procVars, lifeVars
<1>5. CASE Rollback
  <2>1. snaps' \subseteq snaps /\ UNCHANGED <<backups, task, taken>>
    BY <1>5 DEF Rollback
  <2>2. gone' \subseteq taken' \X {"export", "rollback", "restart"}
    BY <1>0, <1>5 DEF Rollback
  <2> QED BY <1>0, <1>1, <1>2, <2>1, <2>2
          DEF HomeType, TypeOK, Distinct, trapVars, procVars, lifeVars
<1> QED BY <1>3, <1>4, <1>5 DEF Daily

\* The clock, and the agent's end and restart.
LEMMA LifeTyped ==
    ASSUME HomeType, Tick \/ Crash \/ Restart
    PROVE  HomeType'
<1>0. /\ now \in 0..MaxTime /\ crashes \in 0..MaxCrashes /\ task.snap <= now
      /\ task \in [at: {"start", "sleep", "send", "sending"}, snap: 0..MaxTime]
      /\ MaxTime \in Nat /\ MaxCrashes \in Nat
  BY HomeBounds DEF HomeType, TypeOK
<1>1. CASE Tick
  <2>1. now' \in 0..MaxTime /\ task.snap <= now'
    BY <1>0, <1>1 DEF Tick
  <2> QED BY <1>1, <2>1
          DEF Tick, HomeType, TypeOK, Distinct, dataVars, trapVars, procVars, snapVars
<1>2. CASE Crash
  <2>1. /\ crashes' \in 0..MaxCrashes
        /\ pc' \in [at: Steps, token: Tokens]
    BY <1>0, <1>2 DEF Crash, Down, Steps, Tokens
  <2>2. /\ honeytokens' \in [Inos -> 0..2] /\ guard' \in [Tokens -> Inos \cup {0}]
        /\ ghost_pids' \subseteq Pids /\ todo' \subseteq Decoys /\ selfTrips' = {}
    BY <1>2 DEF Crash
  <2>3. proc' \in [Pids -> {"free", "decoy", "zombie", "other"}]
    BY <1>2 DEF Crash
  <2>4. /\ task' \in [at: {"start", "sleep", "send", "sending"}, snap: 0..MaxTime]
        /\ task'.snap <= now /\ task'.at = "start"
    BY <1>0, <1>2 DEF Crash, Fresh
  <2>5. gone' \subseteq taken \X {"export", "rollback", "restart"}
    BY <1>2 DEF Crash, HomeType, TypeOK
  <2> QED BY <1>2, <2>1, <2>2, <2>3, <2>4, <2>5
          DEF Crash, HomeType, TypeOK, Distinct, dataVars
<1>3. CASE Restart
  <2>1. now' \in 0..MaxTime /\ task.snap <= now'
    BY <1>0, <1>3 DEF Restart
  <2>2. pc' \in [at: Steps, token: Tokens]
    BY <1>3 DEF Restart, Start, Steps, Tokens
  <2> QED BY <1>3, <2>1, <2>2
          DEF Restart, HomeType, TypeOK, Distinct, dataVars, procVars, snapVars
<1> QED BY <1>1, <1>2, <1>3

\* One step per group of actions.
LEMMA HomeTypeStep ==
    ASSUME HomeType, [Next]_vars
    PROVE  HomeType'
<1>1. CASE UNCHANGED vars
  BY <1>1 DEF vars, HomeType, TypeOK, Distinct, dataVars, trapVars, procVars,
              snapVars, lifeVars
<1> QED BY <1>1, TrapsTyped, UsersTyped, SnapshotsTyped, LifeTyped DEF Next, Setup

\* The home data set is a tree when the agent starts.
LEMMA HomeTypeInit == Init => HomeType
<1> SUFFICES ASSUME Init PROVE HomeType
  OBVIOUS
<1>1. Distinct(home)
  BY DEF Init, Distinct, Files, Tokens
<1>2. /\ pc \in [at: Steps, token: Tokens]
      /\ task \in [at: {"start", "sleep", "send", "sending"}, snap: 0..MaxTime]
      /\ task.at = "start" /\ task.snap = 0
  BY HomeBounds DEF Init, Start, Steps, Tokens, Fresh
<1>3. /\ honeytokens \in [Inos -> 0..2] /\ guard \in [Tokens -> Inos \cup {0}]
  BY DEF Init
<1>4. proc \in [Pids -> {"free", "decoy", "zombie", "other"}]
  BY DEF Init
<1>5. now \in 0..MaxTime /\ moves \in 0..MaxMoves /\ crashes \in 0..MaxCrashes
  BY HomeBounds DEF Init
<1> QED BY <1>1, <1>2, <1>3, <1>4, <1>5 DEF Init, HomeType, TypeOK, Distinct

\* For every set of inode numbers, PIDs and decoys: two files never share a
\* number, two backups never a name, and a version is lost only if it was taken.
THEOREM HomeTypeCorrect == Spec => []TypeOK
<1>1. HomeType => TypeOK
  BY DEF HomeType
<1> QED BY <1>1, HomeTypeInit, HomeTypeStep, PTL DEF Spec

-----------------------------------------------------------------------------
(***************************************************************************)
(* The traps.                                                              *)
(***************************************************************************)

\* A token is registered once in the life of an agent, in this order.
Unregistered(n) == \/ pc.at = "down"
                   \/ /\ pc.at \in {"write", "register"}
                      /\ \/ pc.token = "aws"
                         \/ pc.token = "kube" /\ n # "aws"
                         \/ pc.token = "ssh" /\ n = "ssh"

\* The map has no element on a number that no trap has, but for the devices
\* once they are there.
TrapInv ==
    /\ \A n \in Tokens : Unregistered(n) => guard[n] = 0
    /\ \A i \in Inos :
          (/\ \A n \in Tokens : guard[n] # i
           /\ i \notin DevInos \/ pc.at \in {"down", "write", "register", "devices"})
          => honeytokens[i] = 0
    /\ SelfQuiet

\* A file outside the data set trips a trap only through a coincidence.
LEMMA OutsideQuiet ==
    ASSUME HomeType, TrapInv, UNCHANGED guard, NEW opens,
           \A o \in opens : o[1] \in Inos, Opened("outside", opens)
    PROVE  SelfQuiet'
<1>1. ASSUME NEW o \in opens, Fires(o[1], o[2])
      PROVE  o[1] \in DevInos \/ \E m \in Tokens : guard[m] = o[1]
  BY <1>1 DEF Fires, TrapInv
<1>2. "outside" \notin Tokens
  BY DEF Tokens
<1>3. ASSUME NEW t \in selfTrips'
      PROVE  t.ino \in DevInos \/ \E m \in Tokens \ {t.file} : guard[m] = t.ino
  <2>1. CASE t \in selfTrips
    BY <2>1 DEF TrapInv, SelfQuiet
  <2>2. ASSUME NEW o \in opens, Fires(o[1], o[2]),
               t = [file |-> "outside", ino |-> o[1]]
        PROVE  t.ino \in DevInos \/ \E m \in Tokens \ {t.file} : guard[m] = t.ino
    BY <1>1, <1>2, <2>2
  <2> QED BY <1>3, <2>1, <2>2 DEF Opened
<1> QED BY <1>3 DEF SelfQuiet

\* One step per action that touches the traps.
LEMMA TrapStep ==
    ASSUME HomeType, TrapInv, [Next]_vars
    PROVE  TrapInv'
<1>0. /\ honeytokens \in [Inos -> 0..2] /\ guard \in [Tokens -> Inos \cup {0}]
      /\ home \in [Files -> Inos \cup {0}] /\ pc \in [at: Steps, token: Tokens]
      /\ 0 \notin Inos
  BY InosAssumption DEF HomeType, TypeOK
<1>1. CASE \E n \in Tokens : WriteToken(n)
  <2> PICK n \in Tokens : WriteToken(n)
    BY <1>1
  <2>1. /\ pc = [at |-> "write", token |-> n] /\ pc' = [at |-> "register", token |-> n]
        /\ UNCHANGED <<honeytokens, guard>>
    BY <1>0 DEF WriteToken
  <2>2. guard[n] = 0
    BY <2>1 DEF TrapInv, Unregistered, Tokens
  <2>3. \A i \in Inos : Fires(i, "write") => \E m \in Tokens \ {n} : guard[m] = i
    BY <1>0, <2>1, <2>2 DEF TrapInv, Fires
  <2>4. \A t \in selfTrips' : \/ t \in selfTrips
                              \/ \E m \in Tokens \ {t.file} : guard[m] = t.ino
    <3>1. ASSUME NEW i \in Inos, Opened(n, {<<i, "write">>}), NEW t \in selfTrips',
                 t \notin selfTrips
          PROVE  \E m \in Tokens \ {t.file} : guard[m] = t.ino
      <4>1. Fires(i, "write") /\ t = [file |-> n, ino |-> i]
        BY <3>1 DEF Opened
      <4> QED BY <2>3, <4>1
    <3> QED BY <3>1 DEF WriteToken
  <2>5. SelfQuiet'
    BY <2>1, <2>4 DEF TrapInv, SelfQuiet
  <2> QED BY <2>1, <2>5 DEF TrapInv, Unregistered
<1>2. CASE \E n \in Tokens : RegisterToken(n)
  <2> PICK n \in Tokens : RegisterToken(n)
    BY <1>2
  <2>1. /\ pc = [at |-> "register", token |-> n] /\ pc' = After(n)
        /\ honeytokens' = [honeytokens EXCEPT ![home[n]] = Value(n)]
        /\ guard' = [guard EXCEPT ![n] = home[n]]
        /\ home[n] \in Inos /\ UNCHANGED selfTrips
    BY <1>0 DEF RegisterToken, Files
  <2>2. guard[n] = 0
    BY <2>1 DEF TrapInv, Unregistered, Tokens
  <2>3. /\ pc'.at \in {"write", "devices"}
        /\ \A m \in Tokens : Unregistered(m)' => m # n /\ Unregistered(m)
    BY <2>1 DEF After, Unregistered, Tokens
  <2>4. \A m \in Tokens : Unregistered(m)' => guard'[m] = 0
    BY <1>0, <2>1, <2>3 DEF TrapInv
  <2>5. \A i \in Inos : (\A m \in Tokens : guard'[m] # i) => honeytokens'[i] = 0
    <3> SUFFICES ASSUME NEW i \in Inos, \A m \in Tokens : guard'[m] # i
                 PROVE  honeytokens'[i] = 0
      OBVIOUS
    <3>1. i # home[n] /\ \A m \in Tokens : guard[m] # i
      BY <1>0, <2>1, <2>2
    <3>2. honeytokens[i] = 0
      BY <2>1, <3>1 DEF TrapInv
    <3> QED BY <1>0, <2>1, <3>1, <3>2
  <2>6. SelfQuiet'
    <3> SUFFICES ASSUME NEW t \in selfTrips, t.ino \notin DevInos
                 PROVE  \E m \in Tokens \ {t.file} : guard'[m] = t.ino
      BY <2>1 DEF SelfQuiet
    <3>1. PICK m \in Tokens \ {t.file} : guard[m] = t.ino
      BY DEF TrapInv, SelfQuiet
    <3>2. t.ino # 0
      BY <1>0 DEF HomeType, TypeOK
    <3> QED BY <1>0, <2>1, <2>2, <3>1, <3>2
  <2> QED BY <2>4, <2>5, <2>6 DEF TrapInv
<1>3. CASE SkipSsh \/ EndSetup \/ FreezeSelf
  <2>1. UNCHANGED <<honeytokens, guard, selfTrips>>
    BY <1>3 DEF SkipSsh, EndSetup, FreezeSelf
  <2>2. /\ \A n \in Tokens : ~Unregistered(n)'
        /\ pc'.at \in {"down", "write", "register", "devices"}
              => pc.at \in {"down", "write", "register", "devices"}
    <3>1. \/ pc.at = "register" /\ pc'.at = "devices"
          \/ pc'.at \in {"loop", "frozen"}
      <4>0. pc \in [at: Steps, token: Tokens]
        BY <1>0
      <4>1. CASE SkipSsh
        BY <4>1 DEF SkipSsh, After
      <4>2. CASE EndSetup
        BY <4>2 DEF EndSetup, Loop
      <4>3. CASE FreezeSelf
        BY <4>0, <4>3 DEF FreezeSelf
      <4> QED BY <1>3, <4>1, <4>2, <4>3
    <3> QED BY <3>1 DEF Unregistered
  <2> QED BY <2>1, <2>2 DEF TrapInv, SelfQuiet
<1>4. CASE RegisterDevices
  <2>1. /\ pc'.at = "decoys" /\ UNCHANGED <<guard, selfTrips>>
        /\ \A i \in Inos \ DevInos : honeytokens'[i] = honeytokens[i]
    BY <1>0, <1>4 DEF RegisterDevices
  <2>2. /\ SelfQuiet' /\ \A n \in Tokens : ~Unregistered(n)'
    BY <2>1 DEF TrapInv, SelfQuiet, Unregistered
  <2>3. \A i \in Inos \ DevInos :
           (\A n \in Tokens : guard[n] # i) => honeytokens'[i] = 0
    BY <2>1 DEF TrapInv
  <2> QED BY <2>1, <2>2, <2>3 DEF TrapInv
<1>5. CASE Crash
  <2>1. /\ pc'.at = "down" /\ \A i \in Inos : honeytokens'[i] = 0
        /\ \A n \in Tokens : guard'[n] = 0
        /\ selfTrips' = {}
    BY <1>5 DEF Crash, Down
  <2>2. SelfQuiet'
    BY <2>1 DEF SelfQuiet
  <2> QED BY <1>0, <2>1, <2>2 DEF TrapInv
<1>6. CASE Restart
  <2>1. /\ pc.at = "down" /\ pc' = [at |-> "write", token |-> "aws"]
        /\ UNCHANGED <<honeytokens, guard, selfTrips>>
    BY <1>6 DEF Restart, Down, Start
  <2>2. SelfQuiet' /\ \A n \in Tokens : Unregistered(n)
    BY <2>1 DEF TrapInv, SelfQuiet, Unregistered
  <2> QED BY <2>1, <2>2 DEF TrapInv
<1>7. CASE UNCHANGED <<pc, honeytokens, guard, selfTrips>>
  BY <1>7 DEF TrapInv, SelfQuiet, Unregistered
<1>8. CASE (\E d \in Decoys : StartDecoy(d)) \/ AppendLog \/ Carve
  <2>1. UNCHANGED <<pc, honeytokens, guard>>
    BY <1>8 DEF StartDecoy, AppendLog, Carve
  <2>2. ASSUME NEW i \in Inos, NEW j \in Inos,
               \/ Opened("outside", {<<i, "read">>, <<j, "write">>})
               \/ Opened("outside", {<<i, "read">>})
               \/ Opened("outside", {<<j, "write">>})
        PROVE  SelfQuiet'
    <3>1. \A o \in {<<i, "read">>, <<j, "write">>} : o[1] \in Inos
      OBVIOUS
    <3> QED BY <2>1, <2>2, <3>1, OutsideQuiet
  <2>3. SelfQuiet'
    BY <1>8, <2>2, InosAssumption DEF StartDecoy, AppendLog, Carve
  <2> QED BY <2>1, <2>3 DEF TrapInv, Unregistered
<1> QED BY <1>1, <1>2, <1>3, <1>4, <1>5, <1>6, <1>7, <1>8
        DEF Next, Setup, Users, Daily, MoveFile, DecoyDies, OtherProcess,
            Snapshot, StartSend, EndSend, Rollback, Tick, vars, trapVars

\* No trap is set at first.
LEMMA TrapInit == Init => TrapInv
<1> SUFFICES ASSUME Init PROVE TrapInv
  OBVIOUS
<1>1. /\ \A i \in Inos : honeytokens[i] = 0 /\ i # 0
      /\ \A n \in Tokens : guard[n] = 0
      /\ selfTrips = {} /\ pc.at = "write"
  BY InosAssumption DEF Init, Start
<1> QED BY <1>1 DEF TrapInv, SelfQuiet

\* For every set of inode numbers and every interleaving of the set-up with
\* users, rollbacks and restarts: no open of the agent's own, of a trap file, of
\* its log, of a decoy's program, of /proc or of a core dump, trips the trap of
\* the very file it opens; only a shared number makes it trip one.
THEOREM AgentStaysQuiet == Spec => []SelfQuiet
<1>1. TrapInv => SelfQuiet
  BY DEF TrapInv
<1> QED BY <1>1, HomeTypeInit, HomeTypeStep, TrapInit, TrapStep, PTL DEF Spec

\* For every number of decoys and PIDs: a PID in ghost_pids is that of a decoy.
THEOREM GhostsStayDecoys == Spec => []GhostsAreDecoys
<1>1. Init => GhostsAreDecoys
  BY DEF Init, GhostsAreDecoys
<1>2. HomeType /\ GhostsAreDecoys /\ [Next]_vars => GhostsAreDecoys'
  <2> SUFFICES ASSUME HomeType, GhostsAreDecoys, [Next]_vars
               PROVE  GhostsAreDecoys'
    OBVIOUS
  <2>0. proc \in [Pids -> {"free", "decoy", "zombie", "other"}]
        /\ ghost_pids \subseteq Pids
    BY DEF HomeType, TypeOK
  <2>1. CASE \E d \in Decoys : StartDecoy(d)
    BY <2>0, <2>1 DEF StartDecoy, GhostsAreDecoys
  <2>2. CASE \E p \in Pids : DecoyDies(p) \/ OtherProcess(p)
    BY <2>0, <2>2 DEF DecoyDies, OtherProcess, GhostsAreDecoys
  <2>3. CASE Crash
    BY <2>3 DEF Crash, GhostsAreDecoys
  <2>4. CASE UNCHANGED <<ghost_pids, proc>>
    BY <2>4 DEF GhostsAreDecoys
  <2> QED BY <2>1, <2>2, <2>3, <2>4
          DEF Next, Setup, Users, Daily, WriteToken, RegisterToken, SkipSsh,
              RegisterDevices, EndSetup, AppendLog, Carve, FreezeSelf, MoveFile,
              Snapshot, StartSend, EndSend, Rollback, Tick, Restart, vars, procVars
<1> QED BY <1>1, <1>2, HomeTypeInit, HomeTypeStep, PTL DEF Spec


-----------------------------------------------------------------------------
(***************************************************************************)
(* Snapshots and backups.                                                  *)
(***************************************************************************)

\* A backup is named after the second of its snapshot, and the snapshot task is
\* past that second when it takes another one.
BackupInv ==
    \A b \in backups :
        /\ b.name = b.snap /\ b.snap <= now
        /\ task.at = "start" /\ pc.at # "down" => b.snap < now
        /\ task.at # "start" => b.snap <= task.snap
        /\ task.at \in {"send", "sending"} /\ b.snap = task.snap
              => b.content # "whole"

\* One step per action that touches the clock, the task or the backups.
LEMMA BackupStep ==
    ASSUME HomeType, BackupInv, [Next]_vars
    PROVE  BackupInv'
<1>0. /\ task \in [at: {"start", "sleep", "send", "sending"}, snap: 0..MaxTime]
      /\ now \in Nat /\ MaxTime \in Nat /\ task.snap <= now
      /\ backups \subseteq [name: Nat, snap: Nat,
                            content: {"cut", "empty", "whole"}]
  BY HomeBounds DEF HomeType, TypeOK
<1>b. \A b \in backups : b.snap \in Nat /\ b.name \in Nat
  BY <1>0
<1>t. task.snap \in Nat
  BY <1>0
<1>1. CASE \E ok \in BOOLEAN : Snapshot(ok)
  <2>1. /\ pc.at # "down" /\ task'.at \in {"send", "sleep"} /\ task'.snap = now
        /\ UNCHANGED <<backups, pc, now>>
        /\ task.at = "start" \/ now > task.snap
    BY <1>1 DEF Snapshot, trapVars, lifeVars
  <2>2. \A b \in backups : b.name = b.snap /\ b.snap < now
    BY <1>0, <1>b, <1>t, <2>1 DEF BackupInv
  <2>3. \A b \in backups : b.snap <= now /\ b.snap # now
    BY <1>0, <1>b, <2>2
  <2> QED BY <2>1, <2>2, <2>3 DEF BackupInv
<1>2. CASE StartSend
  <2>1. /\ UNCHANGED <<pc, now>> /\ task.at = "send"
        /\ task'.at \in {"sending", "sleep"} /\ task'.snap = task.snap
        /\ \E content \in {"cut", "empty"} : Written(task.snap, content)
    BY <1>0, <1>2 DEF StartSend, trapVars, lifeVars
  <2>2. \A b \in backups' :
           \/ b \in backups
           \/ b.name = task.snap /\ b.snap = task.snap /\ b.content # "whole"
    BY <2>1 DEF Written, BackupPath
  <2> QED BY <1>0, <1>b, <1>t, <2>1, <2>2 DEF BackupInv
<1>3. CASE \E sent, compressed \in BOOLEAN : EndSend(sent, compressed)
  <2>1. /\ UNCHANGED <<pc, now>> /\ task.at = "sending"
        /\ task'.at = "sleep" /\ task'.snap = task.snap
        /\ \E content \in {"cut", "whole"} : Written(task.snap, content)
    BY <1>0, <1>3 DEF EndSend, trapVars, lifeVars
  <2>2. \A b \in backups' : b \in backups \/ (b.name = task.snap /\ b.snap = task.snap)
    BY <2>1 DEF Written, BackupPath
  <2> QED BY <1>0, <1>b, <1>t, <2>1, <2>2 DEF BackupInv
<1>4. CASE Crash
  <2>1. task'.at = "start" /\ pc'.at = "down" /\ UNCHANGED <<backups, now>>
    BY <1>4 DEF Crash, Fresh, Down
  <2> QED BY <2>1 DEF BackupInv
<1>5. CASE Tick \/ Restart
  <2>1. now' = now + 1 /\ UNCHANGED <<backups, task>>
    BY <1>5 DEF Tick, Restart, snapVars
  <2> QED BY <1>0, <1>b, <2>1 DEF BackupInv
<1>6. CASE UNCHANGED <<backups, task, now>> /\ (pc.at = "down" => pc'.at = "down")
  BY <1>6 DEF BackupInv
<1>7. CASE Setup \/ AppendLog \/ Carve \/ FreezeSelf
  <2>1. UNCHANGED <<snapVars, lifeVars>>
    BY <1>7 DEF Setup, WriteToken, RegisterToken, SkipSsh, RegisterDevices,
                EndSetup, StartDecoy, AppendLog, Carve, FreezeSelf
  <2>2. pc.at \in {"write", "register", "devices", "decoys", "loop"}
    <3>1. CASE SkipSsh \/ \E n \in Tokens : WriteToken(n) \/ RegisterToken(n)
      <4>1. \E n : \/ pc = [at |-> "write", token |-> n]
                  \/ pc = [at |-> "register", token |-> n]
        BY <3>1 DEF WriteToken, RegisterToken, SkipSsh
      <4> QED BY <4>1
    <3>2. CASE RegisterDevices \/ EndSetup \/ AppendLog \/ Carve \/ FreezeSelf
      BY <3>2 DEF RegisterDevices, EndSetup, AppendLog, Carve, FreezeSelf
    <3>3. CASE \E d \in Decoys : StartDecoy(d)
      BY <3>3 DEF StartDecoy
    <3> QED BY <1>7, <3>1, <3>2, <3>3 DEF Setup
  <2>3. UNCHANGED <<backups, task, now>> /\ pc.at # "down"
    BY <2>1, <2>2 DEF snapVars, lifeVars
  <2> QED BY <1>6, <2>3
<1>8. CASE Users \/ Rollback \/ UNCHANGED vars
  <2>1. UNCHANGED <<backups, task, now, pc>>
    BY <1>8 DEF Users, MoveFile, DecoyDies, OtherProcess, Rollback, snapVars,
                lifeVars, trapVars, vars
  <2> QED BY <1>6, <2>1
<1> QED BY <1>1, <1>2, <1>3, <1>4, <1>5, <1>7, <1>8 DEF Next, Daily

\* No step writes over a whole backup.
LEMMA WholeKept ==
    ASSUME HomeType, BackupInv, [Next]_vars
    PROVE  \A b \in backups : b.content = "whole" => b \in backups'
<1>1. CASE StartSend \/ \E sent, compressed \in BOOLEAN : EndSend(sent, compressed)
  <2>1. /\ task.at \in {"send", "sending"}
        /\ \E content : Written(task.snap, content)
    BY <1>1 DEF StartSend, EndSend
  <2>2. \A b \in backups : b.content = "whole" => b.name # task.snap
    BY <2>1 DEF BackupInv
  <2> QED BY <2>1, <2>2 DEF Written, BackupPath
<1>2. CASE UNCHANGED backups
  BY <1>2
<1> QED BY <1>1, <1>2
        DEF Next, Setup, Users, Daily, WriteToken, RegisterToken, SkipSsh,
            RegisterDevices, StartDecoy, EndSetup, AppendLog, Carve, FreezeSelf,
            MoveFile, DecoyDies, OtherProcess, Snapshot, Rollback, Tick, Crash,
            Restart, vars, snapVars

\* A whole backup is never written over, neither after a rollback that frees the
\* name of its snapshot nor by a restarted agent.
THEOREM BackupsAreKept == Spec => BackupsKept
<1>1. Init => BackupInv
  BY DEF Init, BackupInv
<1> QED BY <1>1, HomeTypeInit, HomeTypeStep, BackupStep, WholeKept, PTL
        DEF Spec, BackupsKept

\* A daily version is on its way into a backup, in a whole one, or lost for a
\* reason: what only a snapshot holds is what a rollback is recorded to take.
Exporting(t) == task.at \in {"send", "sending"} /\ task.snap = t /\ t \in snaps
Backed(t)    == \E b \in backups : b.snap = t /\ b.content = "whole"
Lost(t)      == \E why \in {"export", "rollback", "restart"} : <<t, why>> \in gone
VersionInv   == \A t \in taken : Exporting(t) \/ Backed(t) \/ Lost(t)

\* A version leaves the task for a whole backup or for a reason.
LEMMA VersionStep ==
    ASSUME HomeType, BackupInv, VersionInv, [Next]_vars
    PROVE  VersionInv'
<1>0. /\ task \in [at: {"start", "sleep", "send", "sending"}, snap: 0..MaxTime]
      /\ \A t : Backed(t) => Backed(t)'
  BY WholeKept DEF HomeType, TypeOK, Backed
<1>1. CASE \E ok \in BOOLEAN : Snapshot(ok)
  <2>1. /\ task.at \in {"start", "sleep"} /\ UNCHANGED gone
        /\ \/ UNCHANGED taken
           \/ /\ taken' = taken \cup {now} /\ snaps' = snaps \cup {now}
              /\ task' = [at |-> "send", snap |-> now]
    BY <1>1 DEF Snapshot
  <2>2. \A t \in taken : Backed(t)' \/ Lost(t)'
    BY <1>0, <2>1 DEF VersionInv, Exporting, Lost
  <2>3. \A t \in taken' \ taken : Exporting(t)'
    BY <2>1 DEF Exporting
  <2> QED BY <2>2, <2>3 DEF VersionInv
<1>2. CASE StartSend
  <2>1. /\ task.at = "send" /\ UNCHANGED <<snaps, taken, gone>>
        /\ task.snap \in snaps => task' = [task EXCEPT !.at = "sending"]
    BY <1>2 DEF StartSend
  <2>2. \A t : Exporting(t) => Exporting(t)'
    BY <1>0, <2>1 DEF Exporting
  <2> QED BY <1>0, <2>1, <2>2 DEF VersionInv, Lost
<1>3. CASE \E sent, compressed \in BOOLEAN : EndSend(sent, compressed)
  <2> PICK sent \in BOOLEAN, compressed \in BOOLEAN : EndSend(sent, compressed)
    BY <1>3
  <2>1. UNCHANGED taken /\ gone \subseteq gone'
    BY DEF EndSend
  <2>2. PICK s : s = task.snap
    OBVIOUS
  <2>3. CASE sent /\ compressed
    <3>1. [name |-> s, snap |-> s, content |-> "whole"] \in backups'
      BY <2>2, <2>3 DEF EndSend, Written, BackupPath
    <3> QED BY <1>0, <2>1, <2>2, <3>1 DEF VersionInv, Exporting, Backed, Lost
  <2>4. CASE ~(sent /\ compressed)
    <3>1. <<s, "export">> \in gone'
      BY <2>2, <2>4 DEF EndSend
    <3> QED BY <1>0, <2>1, <2>2, <3>1 DEF VersionInv, Exporting, Lost
  <2> QED BY <2>3, <2>4
<1>4. CASE Rollback
  <2>1. UNCHANGED <<taken, task>> /\ gone \subseteq gone'
    BY <1>4 DEF Rollback
  <2>2. \A t : Exporting(t) => Exporting(t)' \/ Lost(t)'
    BY <1>0, <1>4 DEF Rollback, Exporting, Lost
  <2> QED BY <1>0, <2>1, <2>2 DEF VersionInv, Lost
<1>5. CASE Crash
  <2>1. UNCHANGED taken /\ gone \subseteq gone'
    BY <1>5 DEF Crash
  <2>2. \A t : Exporting(t) => Lost(t)'
    BY <1>5 DEF Crash, Exporting, Lost
  <2> QED BY <1>0, <2>1, <2>2 DEF VersionInv, Lost
<1>6. CASE UNCHANGED <<taken, task, snaps, gone>>
  BY <1>0, <1>6 DEF VersionInv, Exporting, Lost
<1> QED BY <1>1, <1>2, <1>3, <1>4, <1>5, <1>6
        DEF Next, Setup, Users, Daily, WriteToken, RegisterToken, SkipSsh,
            RegisterDevices, StartDecoy, EndSetup, AppendLog, Carve, FreezeSelf,
            MoveFile, DecoyDies, OtherProcess, Tick, Restart, vars, snapVars

\* Every daily version that was ever taken is a snapshot, in a whole backup, or
\* lost because its export failed, a rollback came first or the agent ended.
THEOREM VersionsAccounted == Spec => []VersionAccounted
<1>1. Init => BackupInv /\ VersionInv
  BY DEF Init, BackupInv, VersionInv
<1>2. VersionInv => VersionAccounted
  BY DEF VersionInv, VersionAccounted, Exporting, Backed, Lost
<1> QED BY <1>1, <1>2, HomeTypeInit, HomeTypeStep, BackupStep, VersionStep, PTL
        DEF Spec

=============================================================================

-------------------------- MODULE Kp14DaemonProofs --------------------------
(***************************************************************************)
(* Proofs about the devices the KP14 daemon mounts, for every set of       *)
(* devices and every number of polls, and about the blobs it reads, for    *)
(* every dump.                                                             *)
(***************************************************************************)
EXTENDS Kp14Daemon, WellFoundedInduction, TLAPS

-----------------------------------------------------------------------------
(***************************************************************************)
(* Type correctness.                                                       *)
(***************************************************************************)
Places == {"down", "start", "watch", "found", "end"} \cup Mounted
Got    == {"nothing", "unread", "refused", "same", "memory", "other"}

Daemons == [at: Places, known: SUBSET Devices, polls: 0..Polls,
            dev: Devices \cup {None}, blob: {"whole", "cut", "changed"}, got: Got]

\* The type invariant, of a stack of devices and of a daemon that has chosen a
\* new device as soon as it has found one.
DaemonType == /\ TypeOK
              /\ mounts \in Seq(Devices)
              /\ dm \in Daemons
              /\ dm.at \in {"found"} \cup Mounted => dm.dev \in Devices \ dm.known

\* The members of a sequence.
LEMMA Members ==
    ASSUME NEW s \in Seq(Devices), NEW x
    PROVE  x \in Range(s) <=> \E i \in 1..Len(s) : x = s[i]
<1>1. DOMAIN s = 1..Len(s)
  OBVIOUS
<1> QED BY <1>1, Zenon DEF Range

\* The empty sequence has none.
LEMMA EmptyRange ==
    ASSUME NEW s \in Seq(Devices), Len(s) = 0
    PROVE  Range(s) = {}
<1>1. \A i \in 1..Len(s) : FALSE
  OBVIOUS
<1>2. \A x : x \notin Range(s)
  BY <1>1, Members, Zenon
<1> QED BY <1>2, Zenon

\* What is mounted after a device was put on top.
LEMMA PutOnTop ==
    ASSUME mounts \in Seq(Devices), NEW d \in Devices, mounts' = <<d>> \o mounts
    PROVE  /\ mounts' \in Seq(Devices) /\ mounts' # <<>>
           /\ Len(mounts') = Len(mounts) + 1 /\ mounts'[1] = d
           /\ Head(mounts') = d
           /\ \A i \in 2..Len(mounts') : i - 1 \in 1..Len(mounts)
                                         /\ mounts'[i] = mounts[i - 1]
           /\ Range(mounts') = Range(mounts) \cup {d}
<1>1. /\ mounts' \in Seq(Devices) /\ mounts' # <<>>
      /\ Len(mounts') = Len(mounts) + 1 /\ Len(mounts) \in Nat /\ mounts'[1] = d
      /\ \A i \in 2..Len(mounts') : i - 1 \in 1..Len(mounts)
                                    /\ mounts'[i] = mounts[i - 1]
  OBVIOUS
<1>2. \A i \in 1..Len(mounts) : i + 1 \in 1..Len(mounts') /\ mounts'[i + 1] = mounts[i]
  <2> TAKE i \in 1..Len(mounts)
  <2>1. i + 1 \in 2..Len(mounts') /\ (i + 1) - 1 = i
    BY <1>1
  <2> QED BY <1>1, <2>1
<1>3. /\ \A x : x \in Range(mounts) <=> \E i \in 1..Len(mounts) : x = mounts[i]
      /\ \A x : x \in Range(mounts') <=> \E i \in 1..Len(mounts') : x = mounts'[i]
  BY <1>1, Members
<1>4. \A i \in 1..Len(mounts') : i = 1 \/ i \in 2..Len(mounts')
  BY <1>1
<1>5. Range(mounts') \subseteq Range(mounts) \cup {d}
  <2> SUFFICES ASSUME NEW x \in Range(mounts') PROVE x \in Range(mounts) \cup {d}
    OBVIOUS
  <2>1. PICK i \in 1..Len(mounts') : x = mounts'[i]
    BY <1>3
  <2>2. CASE i = 1
    BY <1>1, <2>1, <2>2
  <2>3. CASE i \in 2..Len(mounts')
    BY <1>1, <1>3, <2>1, <2>3
  <2> QED BY <1>4, <2>2, <2>3
<1>6. Range(mounts) \cup {d} \subseteq Range(mounts')
  <2>1. 1 \in 1..Len(mounts')
    BY <1>1
  <2>2. d \in Range(mounts')
    BY <1>1, <1>3, <2>1
  <2>3. \A x \in Range(mounts) : x \in Range(mounts')
    BY <1>2, <1>3
  <2> QED BY <2>2, <2>3
<1>7. Head(mounts') = d
  BY <1>1
<1> QED BY <1>1, <1>5, <1>6, <1>7

\* What is mounted after the top was taken away.
LEMMA TakeTop ==
    ASSUME mounts \in Seq(Devices), mounts # <<>>, mounts' = Tail(mounts)
    PROVE  /\ mounts' \in Seq(Devices) /\ Len(mounts') = Len(mounts) - 1
           /\ Head(mounts) = mounts[1] /\ 1 \in 1..Len(mounts)
           /\ \A i \in 1..Len(mounts') : i + 1 \in 1..Len(mounts)
                                         /\ mounts'[i] = mounts[i + 1]
           /\ Range(mounts') \subseteq Range(mounts)
<1>1. /\ mounts' \in Seq(Devices) /\ Len(mounts') = Len(mounts) - 1
      /\ Head(mounts) = mounts[1] /\ 1 \in 1..Len(mounts)
      /\ \A i \in 1..Len(mounts') : i + 1 \in 1..Len(mounts)
                                    /\ mounts'[i] = mounts[i + 1]
  OBVIOUS
<1>2. /\ \A x : x \in Range(mounts) <=> \E i \in 1..Len(mounts) : x = mounts[i]
      /\ \A x : x \in Range(mounts') <=> \E i \in 1..Len(mounts') : x = mounts'[i]
  BY <1>1, Members
<1>3. Range(mounts') \subseteq Range(mounts)
  BY <1>1, <1>2
<1> QED BY <1>1, <1>3

\* What is read of a blob is one of four things.
LEMMA VerdictTyped ==
    ASSUME NEW blob \in {"whole", "cut", "changed"},
           NEW got \in Verdicts[blob] \cup {"unread"}
    PROVE  got \in Got
<1>1. got = "unread" \/ \E b \in Blobs(blob) : got = Verdict(b)
  BY DEF Verdicts
<1>2. \A b : Verdict(b) \in Got
  BY Zenon DEF Verdict, Got
<1> QED BY <1>1, <1>2 DEF Got

\* A daemon that has ended, or was never started.
LEMMA Ended ==
    /\ Asleep \in Daemons /\ Asleep.at = "start"
    /\ Finish => dm' \in Daemons /\ dm'.at = "end"
    /\ [Asleep EXCEPT !.at = "down"] \in Daemons
    /\ [Asleep EXCEPT !.at = "down"].at = "down"
<1>1. 0 \in 0..Polls
  BY DaemonBounds
<1>2. Asleep \in Daemons /\ Asleep.at = "start"
  BY <1>1 DEF Asleep, Daemons, Places, Got
<1>3. \A at \in Places : /\ [Asleep EXCEPT !.at = at] \in Daemons
                         /\ [Asleep EXCEPT !.at = at].at = at
  BY <1>2 DEF Daemons
<1> QED BY <1>2, <1>3 DEF Finish, Places

\* The steps of the daemon but for those that mount and unmount.
LEMMA DaemonTyped ==
    ASSUME DaemonType, Watch \/ Poll \/ (\E ok \in BOOLEAN : Push(ok))
    PROVE  DaemonType'
<1>0. /\ dm \in Daemons /\ devs \subseteq Devices
      /\ UNCHANGED <<devs, mounts, plugs, crashes, left>>
      /\ 0 \in 0..Polls
  <2>1. UNCHANGED <<devs, mounts, plugs, crashes, left>>
    BY DEF Watch, Poll, Push
  <2> QED BY <2>1, DaemonBounds DEF DaemonType, TypeOK
<1>1. CASE Watch
  <2>1. dm' = [dm EXCEPT !.at = "watch", !.known = devs, !.polls = 0]
    BY <1>1 DEF Watch
  <2>2. dm' \in Daemons /\ dm'.at = "watch"
    <3>1. /\ dm \in Daemons /\ devs \in SUBSET Devices /\ 0 \in 0..Polls
          /\ "watch" \in Places
      BY <1>0 DEF Places
    <3> QED BY <2>1, <3>1 DEF Daemons
  <2> QED BY <1>0, <2>2 DEF DaemonType, TypeOK, Mounted, Daemons, Places, Got
<1>2. CASE dm.polls = Polls /\ Finish
  <2>1. dm' \in Daemons /\ dm'.at = "end"
    BY <1>2, Ended
  <2> QED BY <1>0, <2>1 DEF DaemonType, TypeOK, Mounted, Daemons, Places, Got
<1>3. ASSUME NEW d \in devs \ dm.known, dm' = [dm EXCEPT !.at = "found", !.dev = d]
      PROVE  DaemonType'
  <2>1. /\ dm' \in Daemons /\ dm'.at = "found" /\ dm'.dev = d
        /\ dm'.known = dm.known /\ d \in Devices
    BY <1>0, <1>3 DEF Daemons, Places
  <2> QED BY <1>0, <1>3, <2>1 DEF DaemonType, TypeOK, Mounted, Daemons, Places, Got
<1>4. CASE /\ dm.polls < Polls /\ dm.at = "watch"
           /\ dm' = [dm EXCEPT !.polls = @ + 1]
  <2>1. dm' \in Daemons /\ dm'.at = "watch"
    <3>1. dm.polls \in 0..Polls /\ dm.polls + 1 \in 0..Polls
      BY <1>0, <1>4, DaemonBounds DEF Daemons
    <3> QED BY <1>0, <1>4, <3>1 DEF Daemons
  <2> QED BY <1>0, <2>1 DEF DaemonType, TypeOK, Mounted, Daemons, Places, Got
<1>5. CASE \E ok \in BOOLEAN : Push(ok)
  <2>1. /\ dm' \in Daemons
        /\ \/ dm'.at = "end"
           \/ /\ dm'.at = "pushed" /\ dm'.dev = dm.dev /\ dm'.known = dm.known
              /\ dm.at = "unmounted"
    <3>1. dm.at = "unmounted" /\ (Goto("pushed") \/ Finish)
      BY <1>5 DEF Push
    <3>2. CASE Goto("pushed")
      BY <1>0, <3>1, <3>2 DEF Goto, Daemons, Places, Mounted
    <3> QED BY <3>1, <3>2, Ended
  <2> QED BY <1>0, <2>1 DEF DaemonType, TypeOK, Mounted, Daemons, Places, Got
<1> QED BY <1>1, <1>2, <1>3, <1>4, <1>5 DEF Poll

\* A step that only changes the stack, the place of the daemon and what it left.
LEMMA MountsTyped ==
    ASSUME DaemonType, UNCHANGED <<devs, plugs, crashes>>,
           mounts' \in Seq(Devices), Range(mounts') \subseteq Devices,
           left' \subseteq Devices, dm' \in Daemons,
           dm'.at \in {"found"} \cup Mounted => dm'.dev \in Devices \ dm'.known
    PROVE  DaemonType'
<1>1. /\ dm'.at \in {"down", "start", "watch", "found", "end"} \cup Mounted
      /\ dm'.polls \in 0..Polls /\ dm'.known \subseteq Devices
      /\ dm'.blob \in {"whole", "cut", "changed"}
      /\ dm'.got \in {"nothing", "unread", "refused", "same", "memory", "other"}
  BY DEF Daemons, Places, Got
<1> QED BY <1>1 DEF DaemonType, TypeOK

\* Umount keeps the stack, and what is left are devices.
LEMMA UmountTyped ==
    ASSUME DaemonType, NEW ok \in BOOLEAN, Umount(ok)
    PROVE  /\ mounts' \in Seq(Devices) /\ Range(mounts') \subseteq Devices
           /\ left' \subseteq Devices
<1>0. /\ mounts \in Seq(Devices) /\ Range(mounts) \subseteq Devices
      /\ left \subseteq Devices
  BY DEF DaemonType, TypeOK
<1>1. CASE mounts # <<>> /\ mounts' = Tail(mounts) /\ left' = left \ {Head(mounts)}
  BY <1>0, <1>1, TakeTop
<1>2. CASE left' = left \cup Range(mounts) /\ UNCHANGED mounts
  BY <1>0, <1>2
<1> QED BY <1>1, <1>2 DEF Umount

\* The daemon goes on to `at' with the device it has.
LEMMA GotoTyped ==
    ASSUME DaemonType, NEW at \in Mounted, Goto(at), dm.at \in {"found"} \cup Mounted
    PROVE  /\ dm' \in Daemons /\ dm'.at = at /\ dm'.dev = dm.dev
           /\ dm'.dev \in Devices \ dm'.known
<1>1. dm \in Daemons /\ at \in Places
  BY DEF DaemonType, Places
<1>2. /\ dm' \in Daemons /\ dm'.at = at /\ dm'.dev = dm.dev /\ dm'.known = dm.known
  BY <1>1 DEF Goto, Daemons
<1> QED BY <1>2 DEF DaemonType

\* Mounting, reading, unmounting.
LEMMA WorkTyped ==
    ASSUME DaemonType,
           \/ \E holds \in {"nothing", "files", "blob"} : Mount(holds)
           \/ \E blob \in {"whole", "cut", "changed"}, ok \in BOOLEAN : Ingest(blob, ok)
           \/ \E ok \in BOOLEAN : FirstCleanup(ok) \/ SecondCleanup(ok)
    PROVE  DaemonType'
<1>0. /\ mounts \in Seq(Devices) /\ Range(mounts) \subseteq Devices
      /\ left \subseteq Devices /\ dm \in Daemons
      /\ UNCHANGED <<devs, plugs, crashes>>
  <2>1. UNCHANGED <<devs, plugs, crashes>>
    BY DEF Mount, Ingest, FirstCleanup, SecondCleanup
  <2> QED BY <2>1 DEF DaemonType, TypeOK
<1>1. ASSUME NEW holds \in {"nothing", "files", "blob"}, Mount(holds)
      PROVE  DaemonType'
  <2>1. dm.at = "found" /\ dm.dev \in Devices
    BY <1>1 DEF Mount, DaemonType
  <2>2. CASE Finish /\ UNCHANGED <<mounts, left>>
    BY <1>0, <2>2, Ended, MountsTyped DEF Mounted
  <2>3. CASE /\ dm.dev \in devs /\ mounts' = <<dm.dev>> \o mounts
             /\ \/ Goto("mounted") /\ UNCHANGED left
                \/ Finish /\ Leave(dm.dev)
    <3>1. PICK d \in Devices : d = dm.dev
      BY <2>1
    <3>2. mounts' \in Seq(Devices) /\ Range(mounts') \subseteq Devices
      BY <1>0, <2>3, <3>1, PutOnTop
    <3>3. left' \subseteq Devices
      BY <1>0, <2>1, <2>3 DEF Leave
    <3>4. CASE Goto("mounted")
      BY <1>0, <2>1, <3>2, <3>3, <3>4, GotoTyped, MountsTyped DEF Mounted
    <3>5. CASE Finish
      BY <1>0, <3>2, <3>3, <3>5, Ended, MountsTyped DEF Mounted
    <3> QED BY <2>3, <3>4, <3>5
  <2> QED BY <1>1, <2>2, <2>3 DEF Mount
<1>2. ASSUME NEW blob \in {"whole", "cut", "changed"}, NEW ok \in BOOLEAN,
             Ingest(blob, ok)
      PROVE  DaemonType'
  <2>1. /\ dm.at = "mounted" /\ UNCHANGED mounts
        /\ left' = left \/ Leave(dm.dev)
    BY <1>2 DEF Ingest
  <2>2. dm.dev \in Devices \ dm.known
    BY <2>1 DEF DaemonType, Mounted
  <2>3. PICK got \in Verdicts[blob] \cup {"unread"}, at \in {"parsed", "end"} :
           dm' = [dm EXCEPT !.blob = blob, !.got = got, !.at = at]
    BY <1>2 DEF Ingest
  <2>4. got \in Got /\ at \in Places
    BY VerdictTyped DEF Places, Mounted
  <2>5. dm' \in Daemons /\ dm'.dev = dm.dev /\ dm'.known = dm.known
    BY <1>0, <2>3, <2>4 DEF Daemons
  <2>6. left' \subseteq Devices
    BY <1>0, <2>1, <2>2 DEF Leave
  <2> QED BY <1>0, <2>1, <2>2, <2>5, <2>6, MountsTyped
<1>3. ASSUME NEW ok \in BOOLEAN, FirstCleanup(ok) PROVE DaemonType'
  <2>1. dm.at = "parsed" /\ Goto("unmounted") /\ Umount(ok)
    BY <1>3 DEF FirstCleanup
  <2> QED BY <1>0, <2>1, UmountTyped, GotoTyped, MountsTyped DEF Mounted
<1>4. ASSUME NEW ok \in BOOLEAN, SecondCleanup(ok) PROVE DaemonType'
  <2>1. Finish /\ Umount(ok)
    BY <1>4 DEF SecondCleanup
  <2> QED BY <1>0, <2>1, UmountTyped, Ended, MountsTyped DEF Mounted
<1> QED BY <1>1, <1>2, <1>3, <1>4

\* Devices come and go, and the agent goes and comes.
LEMMA WorldTyped ==
    ASSUME DaemonType,
           (\E d \in Devices : Plug(d) \/ Unplug(d)) \/ Crash \/ Restart
           \/ UNCHANGED vars
    PROVE  DaemonType'
<1>1. CASE \E d \in Devices : Plug(d) \/ Unplug(d)
  <2>1. UNCHANGED <<mounts, dm, crashes, left>>
    BY <1>1 DEF Plug, Unplug
  <2>2. devs' \subseteq Devices /\ Range(mounts) \subseteq Devices
    BY <1>1 DEF Plug, Unplug, DaemonType, TypeOK
  <2>3. plugs' \in 0..MaxPlugs
    BY <1>1, DaemonBounds DEF Plug, Unplug, DaemonType, TypeOK
  <2> QED BY <2>1, <2>2, <2>3 DEF DaemonType, TypeOK
<1>2. CASE Crash
  <2>1. /\ UNCHANGED <<devs, mounts, plugs>> /\ dm' = [Asleep EXCEPT !.at = "down"]
        /\ left' = left \cup Range(mounts)
    BY <1>2 DEF Crash
  <2>2. dm' \in Daemons /\ dm'.at = "down"
    BY <2>1, Ended
  <2>3. crashes' \in 0..MaxCrashes
    BY <1>2, DaemonBounds DEF Crash, DaemonType, TypeOK
  <2>4. left' \subseteq Devices
    BY <2>1 DEF DaemonType, TypeOK
  <2> QED BY <2>1, <2>2, <2>3, <2>4
          DEF DaemonType, TypeOK, Daemons, Places, Got, Mounted
<1>3. CASE Restart
  <2>1. UNCHANGED <<devs, mounts, plugs, crashes, left>> /\ dm' = Asleep
    BY <1>3 DEF Restart
  <2>2. dm' \in Daemons /\ dm'.at = "start"
    BY <2>1, Ended
  <2> QED BY <2>1, <2>2 DEF DaemonType, TypeOK, Daemons, Places, Got, Mounted
<1>4. CASE UNCHANGED vars
  BY <1>4 DEF vars, DaemonType, TypeOK
<1> QED BY <1>1, <1>2, <1>3, <1>4

\* One step per group of actions.
LEMMA DaemonTypeStep ==
    ASSUME DaemonType, [Next]_vars
    PROVE  DaemonType'
BY DaemonTyped, WorkTyped, WorldTyped DEF Next, DaemonStep

\* Nothing is mounted at first.
LEMMA DaemonTypeInit == Init => DaemonType
<1> SUFFICES ASSUME Init PROVE DaemonType
  OBVIOUS
<1>1. /\ mounts \in Seq(Devices) /\ Len(mounts) = 0
  BY DEF Init
<1>2. Range(mounts) = {}
  BY <1>1, EmptyRange
<1>3. dm \in Daemons /\ dm.at = "start"
  BY Ended DEF Init
<1>4. plugs \in 0..MaxPlugs /\ crashes \in 0..MaxCrashes
  BY DaemonBounds DEF Init
<1> QED BY <1>1, <1>2, <1>3, <1>4
        DEF Init, DaemonType, TypeOK, Daemons, Places, Got, Mounted

\* For every set of devices and every blob: what is mounted is a device, and the
\* daemon works on a device that was not there when it began to watch.
THEOREM DaemonTypeCorrect == Spec => []TypeOK
<1>1. DaemonType => TypeOK
  BY DEF DaemonType
<1> QED BY <1>1, DaemonTypeInit, DaemonTypeStep, PTL DEF Spec

-----------------------------------------------------------------------------
(***************************************************************************)
(* What stays mounted.                                                     *)
(***************************************************************************)

\* A device is mounted once: the daemon takes only a device it did not know, and
\* it knows what is mounted and still there.  The device it works on is on top.
MountInv ==
    /\ \A i, j \in 1..Len(mounts) : mounts[i] = mounts[j] => i = j
    /\ dm.at \in {"watch", "found"} => Range(mounts) \cap devs \subseteq dm.known
    /\ dm.at \in {"mounted", "parsed"} => mounts # <<>> /\ Head(mounts) = dm.dev
    /\ MountAccounted

\* Umount takes only what the daemon works on, or what was left.
LEMMA UmountKeeps ==
    ASSUME DaemonType, MountInv, NEW ok \in BOOLEAN, Umount(ok)
    PROVE  /\ \A i, j \in 1..Len(mounts') : mounts'[i] = mounts'[j] => i = j
           /\ \A d \in Range(mounts') : d \in left'
<1>0. /\ mounts \in Seq(Devices)
      /\ \A i, j \in 1..Len(mounts) : mounts[i] = mounts[j] => i = j
  BY DEF DaemonType, MountInv
<1>1. CASE mounts # <<>> /\ mounts' = Tail(mounts) /\ left' = left \ {Head(mounts)}
  <2>1. /\ mounts' \in Seq(Devices) /\ Head(mounts) = mounts[1] /\ 1 \in 1..Len(mounts)
        /\ Len(mounts') \in Nat
        /\ \A i \in 1..Len(mounts') : i + 1 \in 1..Len(mounts)
                                      /\ mounts'[i] = mounts[i + 1]
    BY <1>0, <1>1, TakeTop
  <2>2. \A i, j \in 1..Len(mounts') : mounts'[i] = mounts'[j] => i = j
    <3> SUFFICES ASSUME NEW i \in 1..Len(mounts'), NEW j \in 1..Len(mounts'),
                        mounts'[i] = mounts'[j]
                 PROVE  i = j
      OBVIOUS
    <3>1. i + 1 = j + 1
      BY <1>0, <2>1
    <3> QED BY <2>1, <3>1
  <2>3. \A d \in Range(mounts') : d \in left'
    <3> SUFFICES ASSUME NEW d \in Range(mounts') PROVE d \in left'
      OBVIOUS
    <3>1. PICK i \in 1..Len(mounts') : d = mounts'[i]
      BY <2>1, Members
    <3>2. d = mounts[i + 1] /\ i + 1 \in 1..Len(mounts) /\ i + 1 # 1
      BY <2>1, <3>1
    <3>3. d # Head(mounts)
      BY <1>0, <2>1, <3>2
    <3>4. d \in Range(mounts)
      BY <1>0, <3>2, Members
    <3>5. d \in left
      BY <3>3, <3>4 DEF MountInv, MountAccounted
    <3> QED BY <1>1, <3>3, <3>5
  <2> QED BY <2>2, <2>3
<1>2. CASE left' = left \cup Range(mounts) /\ UNCHANGED mounts
  BY <1>0, <1>2
<1> QED BY <1>1, <1>2 DEF Umount

\* A device that is put on top is not mounted yet.
LEMMA MountKeeps ==
    ASSUME DaemonType, MountInv, NEW d \in Devices, d \notin Range(mounts),
           mounts' = <<d>> \o mounts
    PROVE  \A i, j \in 1..Len(mounts') : mounts'[i] = mounts'[j] => i = j
<1>0. /\ mounts \in Seq(Devices)
      /\ \A i, j \in 1..Len(mounts) : mounts[i] = mounts[j] => i = j
  BY DEF DaemonType, MountInv
<1>1. /\ Len(mounts') = Len(mounts) + 1 /\ mounts'[1] = d /\ Len(mounts) \in Nat
      /\ \A i \in 2..Len(mounts') : i - 1 \in 1..Len(mounts)
                                    /\ mounts'[i] = mounts[i - 1]
  BY <1>0, PutOnTop
<1>2. \A i \in 1..Len(mounts) : mounts[i] # d
  BY <1>0, Members
<1>3. \A i \in 1..Len(mounts') : i = 1 \/ i \in 2..Len(mounts')
  BY <1>1
<1>4. \A i \in 2..Len(mounts') : mounts'[i] # d
  BY <1>1, <1>2
<1>5. \A i, j \in 2..Len(mounts') : mounts'[i] = mounts'[j] => i = j
  <2> SUFFICES ASSUME NEW i \in 2..Len(mounts'), NEW j \in 2..Len(mounts'),
                      mounts'[i] = mounts'[j]
               PROVE  i = j
    OBVIOUS
  <2>0. i \in Int /\ j \in Int
    BY <1>1
  <2>1. /\ i - 1 \in 1..Len(mounts) /\ j - 1 \in 1..Len(mounts)
        /\ mounts[i - 1] = mounts[j - 1]
    BY <1>1
  <2>2. i - 1 = j - 1
    BY <1>0, <2>1, Zenon
  <2> QED BY <2>0, <2>2
<1> QED BY <1>1, <1>3, <1>4, <1>5

\* One step per action that touches the stack or the daemon.
LEMMA MountStep ==
    ASSUME DaemonType, MountInv, [Next]_vars
    PROVE  MountInv'
<1>0. /\ mounts \in Seq(Devices) /\ dm \in Daemons
  BY DEF DaemonType
<1>i. \A i, j \in 1..Len(mounts) : mounts[i] = mounts[j] => i = j
  BY DEF MountInv
<1>1. CASE Watch
  <2>1. /\ dm' = [dm EXCEPT !.at = "watch", !.known = devs, !.polls = 0]
        /\ dm.at = "start" /\ UNCHANGED <<mounts, left, devs>>
    BY <1>1 DEF Watch
  <2>2. dm'.at = "watch" /\ dm'.known = devs
    BY <1>0, <2>1 DEF Daemons
  <2> QED BY <1>0, <2>1, <2>2 DEF MountInv, MountAccounted
<1>2. CASE Poll
  <2>1. /\ dm.at = "watch" /\ UNCHANGED <<mounts, left, devs>>
        /\ \/ Finish
           \/ \E d \in devs : dm' = [dm EXCEPT !.at = "found", !.dev = d]
           \/ dm' = [dm EXCEPT !.polls = @ + 1]
    BY <1>2 DEF Poll
  <2>2. \/ dm'.at = "end"
        \/ dm'.at \in {"watch", "found"} /\ dm'.known = dm.known
    BY <1>0, <2>1, Ended DEF Daemons
  <2> QED BY <2>1, <2>2 DEF MountInv, MountAccounted
<1>3. ASSUME NEW holds \in {"nothing", "files", "blob"}, Mount(holds) PROVE MountInv'
  <2>1. /\ dm.at = "found" /\ dm.dev \in Devices \ dm.known
        /\ Range(mounts) \cap devs \subseteq dm.known
    BY <1>3 DEF Mount, DaemonType, MountInv
  <2>2. \A d \in Range(mounts) : d \in left
    BY <2>1 DEF MountInv, MountAccounted
  <2>3. CASE Finish /\ UNCHANGED <<mounts, left>>
    BY <1>i, <2>2, <2>3, Ended DEF MountInv, MountAccounted
  <2>4. CASE /\ dm.dev \in devs /\ mounts' = <<dm.dev>> \o mounts
             /\ \/ Goto("mounted") /\ UNCHANGED left
                \/ Finish /\ Leave(dm.dev)
    <3>1. PICK d \in Devices : d = dm.dev /\ d \notin Range(mounts)
      BY <2>1, <2>4
    <3>2. /\ \A i, j \in 1..Len(mounts') : mounts'[i] = mounts'[j] => i = j
      BY <2>4, <3>1, MountKeeps
    <3>3. /\ mounts' # <<>> /\ Head(mounts') = d
          /\ Range(mounts') = Range(mounts) \cup {d}
      BY <1>0, <2>4, <3>1, PutOnTop
    <3>4. CASE Goto("mounted") /\ UNCHANGED left
      <4>1. dm'.at = "mounted" /\ dm'.dev = d
        BY <2>1, <3>1, <3>4, GotoTyped DEF Mounted
      <4> QED BY <2>2, <3>2, <3>3, <3>4, <4>1 DEF MountInv, MountAccounted
    <3>5. CASE Finish /\ Leave(dm.dev)
      <4>1. dm'.at = "end" /\ left' = left \cup {d}
        BY <3>1, <3>5, Ended DEF Leave
      <4> QED BY <2>2, <3>2, <3>3, <4>1 DEF MountInv, MountAccounted
    <3> QED BY <2>4, <3>4, <3>5
  <2> QED BY <1>3, <2>3, <2>4 DEF Mount
<1>4. ASSUME NEW blob \in {"whole", "cut", "changed"}, NEW ok \in BOOLEAN,
             Ingest(blob, ok)
      PROVE  MountInv'
  <2>1. /\ dm.at = "mounted" /\ UNCHANGED mounts /\ left \subseteq left'
        /\ \E got \in Verdicts[blob] \cup {"unread"}, at \in {"parsed", "end"} :
              /\ dm' = [dm EXCEPT !.blob = blob, !.got = got, !.at = at]
              /\ at = "end" => Leave(dm.dev)
    BY <1>4 DEF Ingest, Leave
  <2>2. /\ dm'.at \in {"parsed", "end"} /\ dm'.dev = dm.dev
        /\ dm'.at = "end" => dm.dev \in left'
    BY <1>0, <2>1 DEF Daemons, Leave
  <2> QED BY <1>i, <2>1, <2>2 DEF MountInv, MountAccounted
<1>5. ASSUME NEW ok \in BOOLEAN, FirstCleanup(ok) \/ SecondCleanup(ok)
      PROVE  MountInv'
  <2>1. /\ \A i, j \in 1..Len(mounts') : mounts'[i] = mounts'[j] => i = j
        /\ \A d \in Range(mounts') : d \in left'
    BY <1>5, UmountKeeps DEF FirstCleanup, SecondCleanup
  <2>2. dm'.at \in {"unmounted", "end"}
    BY <1>5, GotoTyped, Ended DEF FirstCleanup, SecondCleanup, Mounted
  <2> QED BY <2>1, <2>2 DEF MountInv, MountAccounted
<1>6. ASSUME NEW ok \in BOOLEAN, Push(ok) PROVE MountInv'
  <2>1. UNCHANGED <<mounts, left>> /\ dm.at = "unmounted"
    BY <1>6 DEF Push
  <2>2. dm'.at \in {"pushed", "end"}
    BY <1>6, GotoTyped, Ended DEF Push, Mounted
  <2> QED BY <2>1, <2>2 DEF MountInv, MountAccounted
<1>7. CASE Crash
  <2>1. UNCHANGED mounts /\ left' = left \cup Range(mounts) /\ dm'.at = "down"
    BY <1>7, Ended DEF Crash
  <2> QED BY <1>i, <2>1 DEF MountInv, MountAccounted
<1>8. CASE Restart
  <2>1. UNCHANGED <<mounts, left>> /\ dm.at = "down" /\ dm'.at = "start"
    BY <1>8, Ended DEF Restart
  <2> QED BY <2>1 DEF MountInv, MountAccounted
<1>9. CASE (\E d \in Devices : Plug(d) \/ Unplug(d)) \/ UNCHANGED vars
  <2>1. UNCHANGED <<mounts, dm, left>> /\ Range(mounts) \cap devs' \subseteq devs
    BY <1>9 DEF Plug, Unplug, vars
  <2> QED BY <2>1 DEF MountInv, MountAccounted
<1> QED BY <1>1, <1>2, <1>3, <1>4, <1>5, <1>6, <1>7, <1>8, <1>9
        DEF Next, DaemonStep

\* For every set of devices: a device is mounted only while the daemon works on
\* it, or because a daemon returned early, could not unmount it or was ended.
THEOREM MountsAccounted == Spec => []MountAccounted
<1>1. Init => MountInv
  <2> SUFFICES ASSUME Init PROVE MountInv
    OBVIOUS
  <2>1. mounts \in Seq(Devices) /\ Len(mounts) = 0 /\ dm.at = "start"
    BY Ended DEF Init
  <2>2. Range(mounts) = {}
    BY <2>1, EmptyRange
  <2> QED BY <2>1, <2>2 DEF MountInv, MountAccounted
<1>2. MountInv => MountAccounted
  BY DEF MountInv
<1> QED BY <1>1, <1>2, DaemonTypeInit, DaemonTypeStep, MountStep, PTL DEF Spec

-----------------------------------------------------------------------------
(***************************************************************************)
(* Recursion.  The loop of the reader and FlattenSeq are recursive         *)
(* functions; that they exist and what they return is shown by induction,  *)
(* which is stated for sets of numbers.                                    *)
(***************************************************************************)

\* A set of naturals that is not empty has a least member.
LEMMA Least ==
    ASSUME NEW T \in SUBSET Nat, T # {}
    PROVE  \E n \in T : \A m \in T : n <= m
<1>1. PICK n \in T : \A m \in T : <<m, n>> \notin OpToRel(<, Nat)
  BY NatLessThanWellFounded, WFMin
<1>2. \A m \in T : ~(m < n)
  BY <1>1 DEF OpToRel
<1> QED BY <1>2

\* Induction over the naturals, for a property given as a set.
LEMMA Induction ==
    ASSUME NEW S \in SUBSET Nat, 0 \in S, \A n \in S : n + 1 \in S
    PROVE  \A n \in Nat : n \in S
<1> SUFFICES ASSUME Nat \ S # {} PROVE FALSE
  OBVIOUS
<1>1. PICK n \in Nat \ S : \A m \in Nat \ S : n <= m
  BY Least
<1>2. n # 0 /\ n - 1 \in Nat /\ n = (n - 1) + 1
  BY <1>1
<1>3. n - 1 \in S
  BY <1>1, <1>2
<1> QED BY <1>2, <1>3

\* f is the loop over the regions for n turns.
Loop(f, b, n) ==
    f = [i \in 0..n |-> IF i = 0 THEN ReadHeader(b) ELSE ReadRegion(b, f[i - 1])]

\* There is such a function.
LEMMA LoopExists ==
    ASSUME NEW b, NEW n \in Nat
    PROVE  \E f : Loop(f, b, n)
<1> DEFINE S == {m \in Nat : \E f : Loop(f, b, m)}
<1>1. 0 \in S
  <2> DEFINE g == [i \in 0..0 |-> ReadHeader(b)]
  <2>1. Loop(g, b, 0)
    BY DEF Loop
  <2> QED BY <2>1
<1>2. ASSUME NEW m \in S PROVE m + 1 \in S
  <2>1. PICK f : Loop(f, b, m)
    BY <1>2
  <2> DEFINE g == [i \in 0..(m + 1) |-> IF i <= m THEN f[i] ELSE ReadRegion(b, f[m])]
  <2>2. ASSUME NEW i \in 0..(m + 1)
        PROVE  g[i] = IF i = 0 THEN ReadHeader(b) ELSE ReadRegion(b, g[i - 1])
    <3>1. CASE i = 0
      BY <2>1, <3>1 DEF Loop
    <3>2. CASE i \in 1..m
      <4>1. i \in 0..m /\ i - 1 \in 0..m /\ i # 0 /\ i - 1 \in 0..(m + 1)
        BY <3>2
      <4>2. g[i] = f[i] /\ g[i - 1] = f[i - 1]
        BY <4>1
      <4>3. f[i] = ReadRegion(b, f[i - 1])
        BY <2>1, <4>1 DEF Loop
      <4> QED BY <4>1, <4>2, <4>3
    <3>3. CASE i = m + 1
      <4>1. i - 1 = m /\ m \in 0..(m + 1) /\ m + 1 # 0 /\ ~(m + 1 <= m) /\ m <= m
        BY <3>3
      <4> QED BY <3>3, <4>1
    <3> QED BY <3>1, <3>2, <3>3
  <2>3. g = [i \in 0..(m + 1) |-> g[i]]
    OBVIOUS
  <2> HIDE DEF g
  <2>4. Loop(g, b, m + 1)
    BY <2>2, <2>3 DEF Loop
  <2>5. m + 1 \in Nat
    OBVIOUS
  <2> QED BY <2>4, <2>5
<1>3. S \in SUBSET Nat
  OBVIOUS
<1> HIDE DEF S
<1>4. n \in S
  BY <1>1, <1>2, <1>3, Induction
<1> QED BY <1>4 DEF S

\* What Parse does, without the recursion.
LEMMA ParseRuns ==
    ASSUME NEW b
    PROVE  \E st : /\ st[0] = ReadHeader(b)
                   /\ \A i \in 1..(Width - 1) : st[i] = ReadRegion(b, st[i - 1])
                   /\ Parse(b) =
                        IF ~ReadHeader(b).ok \/ ~st[b[3]].ok THEN Rejected
                        ELSE [ok |-> TRUE,
                              dump |-> [pid |-> b[2],
                                regs |-> Slice(b, HeaderLen + 1, b[HeaderLen + 1]),
                                regions |-> st[b[3]].regions],
                              checksum |-> b[4]]
<1> DEFINE st == CHOOSE f : f = [i \in 0..(Width - 1) |->
                    IF i = 0 THEN ReadHeader(b) ELSE ReadRegion(b, f[i - 1])]
<1>1. Width - 1 \in Nat /\ 0 \in 0..(Width - 1)
  BY CellAssumption
<1>2. Parse(b) = IF ~ReadHeader(b).ok \/ ~st[b[3]].ok THEN Rejected
                 ELSE [ok |-> TRUE,
                       dump |-> [pid |-> b[2],
                         regs |-> Slice(b, HeaderLen + 1, b[HeaderLen + 1]),
                         regions |-> st[b[3]].regions],
                       checksum |-> b[4]]
  BY DEF Parse
<1>3. \E f : Loop(f, b, Width - 1)
  BY <1>1, LoopExists
<1>4. Loop(st, b, Width - 1)
  BY <1>3 DEF Loop
<1> HIDE DEF st
<1>5. st[0] = ReadHeader(b)
  BY <1>1, <1>4 DEF Loop
<1>6. \A i \in 1..(Width - 1) : st[i] = ReadRegion(b, st[i - 1])
  BY <1>1, <1>4 DEF Loop
<1> QED BY <1>2, <1>5, <1>6

\* u is t behind s.
Joined(u, s, t) == /\ Len(u) = Len(s) + Len(t)
                   /\ \A k \in 1..Len(s) : u[k] = s[k]
                   /\ \A k \in 1..Len(t) : u[Len(s) + k] = t[k]

\* What \o makes of two sequences.
LEMMA Concat ==
    ASSUME NEW C, NEW s \in Seq(C), NEW t \in Seq(C)
    PROVE  s \o t \in Seq(C) /\ Joined(s \o t, s, t)
<1>1. s \o t \in Seq(C) /\ Len(s \o t) = Len(s) + Len(t)
  OBVIOUS
<1>2. \A k \in 1..Len(s) : (s \o t)[k] = s[k]
  OBVIOUS
<1>3. ASSUME NEW k \in 1..Len(t) PROVE (s \o t)[Len(s) + k] = t[k]
  <2>1. /\ Len(s) + k \in 1..(Len(s) + Len(t)) /\ ~(Len(s) + k <= Len(s))
        /\ (Len(s) + k) - Len(s) = k
    OBVIOUS
  <2> QED BY <2>1
<1> QED BY <1>1, <1>2, <1>3 DEF Joined

\* f[i] is what the first i sequences of s make together.
PrefixesOf(f, s, n) ==
    f = [i \in 1..n |-> IF i = 1 THEN s[i] ELSE f[i - 1] \o s[i]]

\* The recursion of FlattenSeq defines a function.
LEMMA PrefixesExist ==
    ASSUME NEW s, NEW n \in Nat
    PROVE  \E f : PrefixesOf(f, s, n)
<1> DEFINE S == {m \in Nat : \E f : PrefixesOf(f, s, m)}
<1>1. 0 \in S
  <2> DEFINE g == [i \in 1..0 |-> s[i]]
  <2>1. PrefixesOf(g, s, 0)
    BY DEF PrefixesOf
  <2> QED BY <2>1
<1>2. ASSUME NEW m \in S PROVE m + 1 \in S
  <2>1. PICK f : PrefixesOf(f, s, m)
    BY <1>2
  <2> DEFINE g == [i \in 1..(m + 1) |->
                     IF i <= m THEN f[i] ELSE IF i = 1 THEN s[i] ELSE f[m] \o s[i]]
  <2>2. ASSUME NEW i \in 1..(m + 1)
        PROVE  g[i] = IF i = 1 THEN s[i] ELSE g[i - 1] \o s[i]
    <3>1. CASE i = 1
      BY <2>1, <3>1 DEF PrefixesOf
    <3>2. CASE i \in 2..m
      <4>1. i \in 1..m /\ i - 1 \in 1..m /\ i # 1 /\ i - 1 \in 1..(m + 1)
        BY <3>2
      <4>2. g[i] = f[i] /\ g[i - 1] = f[i - 1]
        BY <4>1
      <4>3. f[i] = f[i - 1] \o s[i]
        BY <2>1, <4>1 DEF PrefixesOf
      <4> QED BY <4>1, <4>2, <4>3
    <3>3. CASE i = m + 1 /\ i # 1
      <4>1. i - 1 = m /\ m \in 1..(m + 1) /\ ~(m + 1 <= m) /\ m <= m
        BY <3>3
      <4> QED BY <3>3, <4>1
    <3> QED BY <3>1, <3>2, <3>3
  <2>3. g = [i \in 1..(m + 1) |-> g[i]]
    OBVIOUS
  <2> HIDE DEF g
  <2>4. PrefixesOf(g, s, m + 1)
    BY <2>2, <2>3 DEF PrefixesOf
  <2>5. m + 1 \in Nat
    OBVIOUS
  <2> QED BY <2>4, <2>5
<1>3. S \in SUBSET Nat
  OBVIOUS
<1> HIDE DEF S
<1>4. n \in S
  BY <1>1, <1>2, <1>3, Induction
<1> QED BY <1>4 DEF S

\* The same from the empty sequence on, with cells of C.
Chain(fl, s, C) ==
    /\ fl[0] = <<>> /\ \A i \in 0..Len(s) : fl[i] \in Seq(C)
    /\ \A i \in 1..Len(s) : fl[i] = fl[i - 1] \o s[i]

\* What FlattenSeq does, without the recursion.
LEMMA FlattenRuns ==
    ASSUME NEW C, NEW s \in Seq(Seq(C))
    PROVE  \E fl : Chain(fl, s, C) /\ FlattenSeq(s) = fl[Len(s)]
<1>n. PICK n \in Nat : n = Len(s)
  OBVIOUS
<1>0. \A i \in 1..n : s[i] \in Seq(C)
  BY <1>n
<1>1. CASE n = 0
  <2> DEFINE fl == [i \in 0..0 |-> <<>>]
  <2>1. FlattenSeq(s) = s
    BY <1>n, <1>1 DEF FlattenSeq
  <2>2. Len(s) = 0 /\ <<>> \in Seq(C)
    BY <1>n, <1>1
  <2>s. s = <<>>
    BY <2>2
  <2>3. fl[0] = <<>> /\ \A i \in 0..0 : fl[i] \in Seq(C)
    BY <2>2
  <2>4. \A i \in 1..0 : FALSE
    OBVIOUS
  <2> HIDE DEF fl
  <2>5. Chain(fl, s, C)
    BY <1>n, <1>1, <2>3, <2>4 DEF Chain
  <2> QED BY <2>1, <2>2, <2>s, <2>3, <2>5
<1>2. CASE n # 0
  <2> DEFINE f == CHOOSE g : g = [i \in 1..Len(s) |->
                     IF i = 1 THEN s[i] ELSE g[i - 1] \o s[i]]
             fl == [i \in 0..n |-> IF i = 0 THEN <<>> ELSE f[i]]
  <2>1. FlattenSeq(s) = f[Len(s)]
    BY <1>n, <1>2 DEF FlattenSeq
  <2>2. \E g : PrefixesOf(g, s, Len(s))
    BY <1>n, PrefixesExist
  <2>3. PrefixesOf(f, s, Len(s))
    BY <2>2 DEF PrefixesOf
  <2> HIDE DEF f
  <2>4. f[1] = s[1] /\ \A i \in 2..n : f[i] = f[i - 1] \o s[i]
    <3>1. 1 \in 1..n /\ \A i \in 2..n : i \in 1..n /\ i # 1
      BY <1>0, <1>2
    <3>2. \A i \in 1..n : f[i] = IF i = 1 THEN s[i] ELSE f[i - 1] \o s[i]
      BY <1>n, <2>3 DEF PrefixesOf
    <3> QED BY <3>1, <3>2
  <2>5. \A i \in 1..n : f[i] \in Seq(C)
    <3> DEFINE S == {m \in Nat : m \in 1..n => f[m] \in Seq(C)}
    <3>1. 0 \in S /\ S \in SUBSET Nat
      OBVIOUS
    <3>2. ASSUME NEW m \in S PROVE m + 1 \in S
      <4>1. CASE m + 1 = 1
        BY <1>0, <1>2, <2>4, <4>1
      <4>2. CASE m + 1 \in 2..n
        <5>1. (m + 1) - 1 = m /\ m \in 1..n /\ m + 1 \in 1..n
          BY <4>2
        <5>2. f[m] \in Seq(C) /\ f[m + 1] = f[m] \o s[m + 1] /\ s[m + 1] \in Seq(C)
          BY <1>0, <2>4, <4>2, <5>1
        <5>3. f[m + 1] \in Seq(C)
          BY <5>2, Concat
        <5> QED BY <5>3
      <4>3. CASE m + 1 \notin 1..n
        BY <4>3
      <4> QED BY <4>1, <4>2, <4>3
    <3> HIDE DEF S
    <3>3. \A m \in Nat : m \in S
      BY <3>1, <3>2, Induction
    <3> QED BY <3>3 DEF S
  <2>6. fl[0] = <<>> /\ \A i \in 1..n : fl[i] = f[i]
    BY <1>0
  <2>7. \A i \in 0..n : fl[i] \in Seq(C)
    BY <2>5
  <2> HIDE DEF fl
  <2>8. ASSUME NEW i \in 1..n PROVE fl[i] = fl[i - 1] \o s[i]
    <3>1. CASE i = 1
      <4>1. s[1] \in Seq(C) /\ <<>> \o s[1] = s[1]
        BY <1>0, <3>1
      <4>2. i - 1 = 0
        BY <3>1
      <4>3. fl[1] = s[1]
        BY <2>4, <2>6, <3>1
      <4> QED BY <2>6, <3>1, <4>1, <4>2, <4>3
    <3>2. CASE i \in 2..n
      <4>1. i - 1 \in 1..n
        BY <3>2
      <4> QED BY <2>4, <2>6, <3>2, <4>1
    <3>3. i = 1 \/ i \in 2..n
      BY <1>0
    <3> QED BY <3>1, <3>2, <3>3
  <2>9. FlattenSeq(s) = fl[n]
    BY <1>n, <1>2, <2>1, <2>6
  <2>10. Chain(fl, s, C)
    BY <1>n, <2>6, <2>7, <2>8 DEF Chain
  <2> QED BY <1>n, <2>9, <2>10
<1> QED BY <1>1, <1>2

\* Adding does not make it shorter.
LEMMA NoShorter == \A x, y, z \in Nat : x <= y => x <= y + z
OBVIOUS

\* What was joined stays where it is.
Grows(fl, n) ==
    \A i, j \in 0..n : i <= j =>
        /\ Len(fl[i]) <= Len(fl[j])
        /\ \A k \in 1..Len(fl[i]) : fl[j][k] = fl[i][k]

\* Joining one more sequence leaves the cells before it alone.
LEMMA PrefixCells ==
    ASSUME NEW C, NEW s \in Seq(Seq(C)), NEW fl, Chain(fl, s, C)
    PROVE  Grows(fl, Len(s))
<1>n. PICK n \in Nat : n = Len(s)
  OBVIOUS
<1>0. \A i \in 1..n : s[i] \in Seq(C)
  BY <1>n
<1>c. /\ \A i \in 0..n : fl[i] \in Seq(C)
      /\ \A i \in 1..n : fl[i] = fl[i - 1] \o s[i]
  BY <1>n DEF Chain
<1>1. ASSUME NEW i \in 1..n
      PROVE  /\ Len(fl[i]) = Len(fl[i - 1]) + Len(s[i]) /\ Len(s[i]) \in Nat
             /\ Len(fl[i - 1]) \in Nat
             /\ \A k \in 1..Len(fl[i - 1]) : fl[i][k] = fl[i - 1][k]
  <2>1. i - 1 \in 0..n
    OBVIOUS
  <2>2. fl[i - 1] \in Seq(C) /\ s[i] \in Seq(C) /\ fl[i] = fl[i - 1] \o s[i]
    BY <1>0, <1>c, <2>1
  <2>3. PICK p \in Seq(C), t \in Seq(C) : fl[i - 1] = p /\ s[i] = t /\ fl[i] = p \o t
    BY <2>2
  <2>4. /\ Len(p \o t) = Len(p) + Len(t) /\ Len(p) \in Nat /\ Len(t) \in Nat
        /\ \A k \in 1..Len(p) : (p \o t)[k] = p[k]
    BY Concat DEF Joined
  <2> QED BY <2>3, <2>4
<1>2. ASSUME NEW i \in 0..n
      PROVE  \A j \in 0..n : i <= j =>
                 /\ Len(fl[i]) <= Len(fl[j])
                 /\ \A k \in 1..Len(fl[i]) : fl[j][k] = fl[i][k]
  <2> DEFINE P(j) == /\ Len(fl[i]) <= Len(fl[j])
                     /\ \A k \in 1..Len(fl[i]) : fl[j][k] = fl[i][k]
             S == {j \in Nat : j \in i..n => P(j)}
  <2>0. \A j \in 0..n : Len(fl[j]) \in Nat
    BY <1>c
  <2>1. P(i)
    BY <2>0
  <2>2. ASSUME NEW j \in i..n, j + 1 \in i..n, P(j) PROVE P(j + 1)
    <3>1. j + 1 \in 1..n /\ (j + 1) - 1 = j /\ j \in 0..n /\ j + 1 \in 0..n
      BY <2>2
    <3>2. /\ Len(fl[j + 1]) = Len(fl[j]) + Len(s[j + 1]) /\ Len(s[j + 1]) \in Nat
          /\ \A k \in 1..Len(fl[j]) : fl[j + 1][k] = fl[j][k]
      BY <1>1, <3>1
    <3>3. Len(fl[i]) <= Len(fl[j + 1])
      <4>1. Len(fl[i]) \in Nat /\ Len(fl[j]) \in Nat /\ Len(fl[i]) <= Len(fl[j])
        BY <2>0, <2>2, <3>1
      <4> QED BY <3>2, <4>1, NoShorter
    <3>4. \A k \in 1..Len(fl[i]) : k \in 1..Len(fl[j])
      BY <2>0, <2>2, <3>1
    <3> QED BY <2>2, <3>2, <3>3, <3>4
  <2> HIDE DEF P
  <2>3. S \in SUBSET Nat
    OBVIOUS
  <2>4. 0 \in S
    <3>1. 0 \in i..n => i = 0
      OBVIOUS
    <3> QED BY <2>1, <3>1
  <2>5. ASSUME NEW j \in S PROVE j + 1 \in S
    <3>1. j + 1 \in Nat /\ j \in Nat
      OBVIOUS
    <3>2. ASSUME j + 1 \in i..n PROVE P(j + 1)
      <4>1. CASE j + 1 = i
        BY <2>1, <4>1
      <4>2. CASE j + 1 # i
        <5>1. j \in i..n
          BY <3>1, <3>2, <4>2
        <5> QED BY <2>2, <3>2, <5>1
      <4> QED BY <4>1, <4>2
    <3> QED BY <3>1, <3>2
  <2> HIDE DEF S
  <2>6. \A j \in Nat : j \in S
    BY <2>3, <2>4, <2>5, Induction
  <2>7. \A j \in i..n : P(j)
    BY <2>6 DEF S
  <2>8. \A j \in 0..n : i <= j => j \in i..n
    OBVIOUS
  <2> QED BY <2>7, <2>8 DEF P
<1> QED BY <1>n, <1>2 DEF Grows

-----------------------------------------------------------------------------
(***************************************************************************)
(* One region in the blob, and one turn of the reader's loop.              *)
(***************************************************************************)

\* What is found again at its offset is what Slice returns.
LEMMA SliceIs ==
    ASSUME NEW C, NEW b \in Seq(C), NEW off \in Nat, NEW t \in Seq(C),
           off + Len(t) <= Len(b), \A k \in 1..Len(t) : b[off + k] = t[k]
    PROVE  Slice(b, off, Len(t)) = t
<1> DEFINE s == SubSeq(b, off + 1, off + Len(t))
<1>1. s \in Seq(C) /\ Len(s) = Len(t)
  OBVIOUS
<1>2. \A k \in 1..Len(t) : s[k] = b[off + k]
  OBVIOUS
<1> HIDE DEF s
<1>3. s = t
  BY <1>1, <1>2
<1> QED BY <1>3 DEF Slice, s

\* Texts are sequences of any set that holds the numbers.
LEMMA TextCells ==
    ASSUME NEW C, Nat \subseteq C, NEW t \in Texts
    PROVE  t \in Seq(C) /\ Len(t) \in Nat /\ Len(t) < Width
<1>1. t \in Seq(Cells) /\ Cells \subseteq C /\ Len(t) < Width
  BY CellAssumption DEF Texts, Cells
<1> QED BY <1>1

\* The cells of a region.
Layout(c, r) ==
    /\ Len(c) = 4 + Len(r.path) + Len(r.data)
    /\ c[1] = r.start /\ c[2] = r.perms /\ c[3] = Len(r.data) /\ c[4] = Len(r.path)
    /\ \A k \in 1..Len(r.path) : c[4 + k] = r.path[k]
    /\ \A k \in 1..Len(r.data) : c[(4 + Len(r.path)) + k] = r.data[k]

\* What RegionCells writes, field by field.
LEMMA RegionLayout ==
    ASSUME NEW C, Nat \subseteq C, NEW r \in Regions
    PROVE  RegionCells(r) \in Seq(C) /\ Layout(RegionCells(r), r)
<1>1. /\ r.path \in Texts /\ r.data \in Texts /\ r.start \in Nat /\ r.perms \in Nat
  BY CellAssumption DEF Regions, Cells
<1>2. PICK path \in Seq(C), data \in Seq(C) : path = r.path /\ data = r.data
  BY <1>1, TextCells
<1>3. PICK h : h = <<r.start, r.perms, Len(data)>> \o <<Len(path)>>
  OBVIOUS
<1>4. /\ h \in Seq(C) /\ Len(h) = 4 /\ h[1] = r.start /\ h[2] = r.perms
      /\ h[3] = Len(data) /\ h[4] = Len(path)
  BY <1>1, <1>3
<1>5. PICK q : q = h \o path
  OBVIOUS
<1>6. PICK c : c = q \o data
  OBVIOUS
<1>7. c = RegionCells(r)
  BY <1>2, <1>3, <1>5, <1>6 DEF RegionCells
<1>8. q \in Seq(C) /\ Joined(q, h, path)
  BY <1>4, <1>5, Concat
<1>9. c \in Seq(C) /\ Joined(c, q, data)
  BY <1>6, <1>8, Concat
<1>10. /\ Len(q) = 4 + Len(path) /\ \A k \in 1..4 : q[k] = h[k]
       /\ \A k \in 1..Len(path) : q[4 + k] = path[k]
  BY <1>4, <1>8 DEF Joined
<1>11. /\ Len(c) = (4 + Len(path)) + Len(data)
       /\ \A k \in 1..(4 + Len(path)) : c[k] = q[k]
       /\ \A k \in 1..Len(data) : c[(4 + Len(path)) + k] = data[k]
  BY <1>9, <1>10 DEF Joined
<1>12. /\ \A k \in 1..4 : k \in 1..(4 + Len(path))
       /\ \A k \in 1..Len(path) : 4 + k \in 1..(4 + Len(path))
  OBVIOUS
<1>13. /\ \A k \in 1..4 : c[k] = h[k]
       /\ \A k \in 1..Len(path) : c[4 + k] = path[k]
  BY <1>10, <1>11, <1>12
<1>14. c[1] = h[1] /\ c[2] = h[2] /\ c[3] = h[3] /\ c[4] = h[4]
  BY <1>13
<1>15. Layout(c, r)
  BY <1>2, <1>4, <1>11, <1>13, <1>14 DEF Layout
<1> QED BY <1>7, <1>9, <1>15

\* The reader before a turn of its loop.
At(off, rs) == [ok |-> TRUE, off |-> off, regions |-> rs]

\* b holds the cells of c behind the first off, as far as it goes.
Holds(b, off, c) == \A k \in 1..Len(c) : off + k <= Len(b) => b[off + k] = c[k]

\* A turn of the loop where the cells of a region are.
LEMMA TurnReads ==
    ASSUME NEW C, Nat \subseteq C, NEW b \in Seq(C), NEW off \in Nat,
           NEW r \in Regions, NEW rs, NEW c, c = RegionCells(r),
           off + Len(c) <= Len(b), Holds(b, off, c)
    PROVE  ReadRegion(b, At(off, rs)) = At(off + Len(c), Append(rs, r))
<1>0. PICK path \in Seq(C), data \in Seq(C) : path = r.path /\ data = r.data
  BY TextCells DEF Regions
<1>1. PICK p \in Nat, d \in Nat : p = Len(path) /\ d = Len(data)
  OBVIOUS
<1>2. /\ Len(c) = 4 + p + d
      /\ c[1] = r.start /\ c[2] = r.perms /\ c[3] = d /\ c[4] = p
      /\ \A k \in 1..p : c[4 + k] = path[k]
      /\ \A k \in 1..d : c[(4 + p) + k] = data[k]
  BY <1>0, <1>1, RegionLayout DEF Layout
<1>h. \A k \in 1..Len(c) : b[off + k] = c[k]
  BY <1>2 DEF Holds
<1>3. /\ b[off + 1] = r.start /\ b[off + 2] = r.perms /\ b[off + 3] = d
      /\ b[off + 4] = p
  BY <1>2, <1>h
<1>4. Slice(b, off + 4, p) = path
  <2>1. \A k \in 1..p : b[(off + 4) + k] = path[k]
    <3> TAKE k \in 1..p
    <3>1. 4 + k \in 1..Len(c) /\ (off + 4) + k = off + (4 + k)
      BY <1>2
    <3> QED BY <1>2, <1>h, <3>1
  <2>2. off + 4 \in Nat /\ (off + 4) + p <= Len(b)
    BY <1>2
  <2> QED BY <1>1, <2>1, <2>2, SliceIs
<1>5. Slice(b, (off + 4) + p, d) = data
  <2>1. \A k \in 1..d : b[((off + 4) + p) + k] = data[k]
    <3> TAKE k \in 1..d
    <3>1. (4 + p) + k \in 1..Len(c) /\ ((off + 4) + p) + k = off + ((4 + p) + k)
      BY <1>2
    <3> QED BY <1>2, <1>h, <3>1
  <2>2. (off + 4) + p \in Nat /\ ((off + 4) + p) + d <= Len(b)
    BY <1>2
  <2> QED BY <1>1, <2>1, <2>2, SliceIs
<1>6. r = [start |-> r.start, perms |-> r.perms, path |-> path, data |-> data]
  BY <1>0 DEF Regions
<1>7. /\ off + RecordLen + 1 = off + 4 /\ ~(off + 4 > Len(b))
      /\ ~(off + 4 + p + d > Len(b)) /\ off + 4 + p + d = off + Len(c)
  BY <1>2 DEF RecordLen
<1>8. /\ At(off, rs).ok /\ At(off, rs).off = off /\ At(off, rs).regions = rs
  BY DEF At
<1>9. ReadRegion(b, At(off, rs)) =
        [ok |-> TRUE, off |-> off + 4 + p + d,
         regions |-> Append(rs, [start |-> b[off + 1], perms |-> b[off + 2],
                                 path  |-> Slice(b, off + 4, p),
                                 data  |-> Slice(b, off + 4 + p, d)])]
  BY <1>3, <1>7, <1>8 DEF ReadRegion
<1> QED BY <1>3, <1>4, <1>5, <1>6, <1>7, <1>9 DEF At

\* A turn of the loop where the cells of a region are cut.
LEMMA TurnRefuses ==
    ASSUME NEW C, Nat \subseteq C, NEW b \in Seq(C), NEW off \in Nat,
           NEW r \in Regions, NEW rs, NEW c, c = RegionCells(r),
           Len(b) < off + Len(c), Holds(b, off, c)
    PROVE  ReadRegion(b, At(off, rs)) = Rejected
<1>0. PICK path \in Seq(C), data \in Seq(C) : path = r.path /\ data = r.data
  BY TextCells DEF Regions
<1>1. PICK p \in Nat, d \in Nat : p = Len(path) /\ d = Len(data)
  OBVIOUS
<1>c. Len(c) = 4 + p + d /\ c[3] = d /\ c[4] = p
  BY <1>0, <1>1, RegionLayout DEF Layout
<1>2. /\ At(off, rs).ok /\ At(off, rs).off = off /\ off + RecordLen + 1 = off + 4
  BY DEF At, RecordLen
<1>3. CASE off + 4 > Len(b)
  BY <1>2, <1>3 DEF ReadRegion
<1>4. CASE ~(off + 4 > Len(b))
  <2>1. /\ 3 \in 1..Len(c) /\ 4 \in 1..Len(c) /\ off + 3 <= Len(b)
        /\ off + 4 <= Len(b) /\ off + 4 + p + d > Len(b)
    BY <1>c, <1>4
  <2>2. b[off + 3] = d /\ b[off + 4] = p
    BY <1>c, <2>1 DEF Holds
  <2> QED BY <1>2, <1>4, <2>1, <2>2 DEF ReadRegion
<1> QED BY <1>3, <1>4

-----------------------------------------------------------------------------
(***************************************************************************)
(* A whole blob, and one that was cut.                                     *)
(***************************************************************************)

\* b begins like the blob of d, whose regions end at the offsets off.
Written(b, d, off) ==
    /\ b[1] = Magic /\ b[2] = d.pid /\ b[3] = Len(d.regions) /\ b[5] = Len(d.regs)
    /\ \A k \in 1..Len(d.regs) : b[5 + k] = d.regs[k]
    /\ \A i \in 0..Len(d.regions) : off[i] \in Nat /\ off[i] <= Len(b)
    /\ off[0] = 5 + Len(d.regs) /\ off[Len(d.regions)] = Len(b)
    /\ \A i \in 1..Len(d.regions) :
          /\ off[i] = off[i - 1] + Len(RegionCells(d.regions[i]))
          /\ Holds(b, off[i - 1], RegionCells(d.regions[i]))

\* The parts of a dump the format has room for.
LEMMA DumpTyped ==
    ASSUME NEW d \in Dumps
    PROVE  /\ d.pid \in Nat /\ d.regs \in Texts /\ d.regions \in Seq(Regions)
           /\ Len(d.regions) \in 0..(Width - 1)
           /\ d = [pid |-> d.pid, regs |-> d.regs, regions |-> d.regions]
BY CellAssumption DEF Dumps, Cells

\* F holds the regions one after the other, the i-th from pos[i - 1] to pos[i].
Placed(pos, F, regions) ==
    /\ pos[0] = 0 /\ pos[Len(regions)] = Len(F)
    /\ \A i \in 0..Len(regions) : pos[i] \in Nat /\ pos[i] <= Len(F)
    /\ \A i \in 1..Len(regions) :
          /\ pos[i] = pos[i - 1] + Len(RegionCells(regions[i]))
          /\ Holds(F, pos[i - 1], RegionCells(regions[i]))

\* The regions a dump is written with lie one behind the other.
LEMMA RegionsWritten ==
    ASSUME NEW C, Nat \subseteq C, NEW regions \in Seq(Regions),
           NEW F, F = FlattenSeq([i \in DOMAIN regions |-> RegionCells(regions[i])])
    PROVE  F \in Seq(C) /\ \E pos : Placed(pos, F, regions)
<1>n. PICK n \in Nat : n = Len(regions)
  OBVIOUS
<1>1. PICK s : s = [i \in DOMAIN regions |-> RegionCells(regions[i])]
  OBVIOUS
<1>2. DOMAIN regions = 1..n /\ \A i \in 1..n : regions[i] \in Regions
  BY <1>n
<1>3. \A i \in 1..n : s[i] = RegionCells(regions[i]) /\ s[i] \in Seq(C)
  BY <1>1, <1>2, RegionLayout
<1>4. s \in Seq(Seq(C)) /\ Len(s) = n
  <2>1. s = [i \in 1..n |-> s[i]]
    BY <1>1, <1>2
  <2> QED BY <1>2, <1>3, <2>1
<1>f. PICK fl : Chain(fl, s, C) /\ FlattenSeq(s) = fl[n]
  BY <1>4, FlattenRuns
<1>5. /\ fl[0] = <<>> /\ \A i \in 0..n : fl[i] \in Seq(C)
      /\ \A i \in 1..n : fl[i] = fl[i - 1] \o s[i]
  BY <1>4, <1>f DEF Chain
<1>g. Grows(fl, n)
  BY <1>4, <1>f, PrefixCells
<1>6. \A i, j \in 0..n : i <= j =>
            /\ Len(fl[i]) <= Len(fl[j])
            /\ \A k \in 1..Len(fl[i]) : fl[j][k] = fl[i][k]
  BY <1>g DEF Grows
<1>7. F = fl[n] /\ F \in Seq(C)
  BY <1>1, <1>2, <1>f, <1>5
<1>8. PICK pos : pos = [i \in 0..n |-> Len(fl[i])]
  OBVIOUS
<1>9. \A i \in 0..n : pos[i] = Len(fl[i]) /\ pos[i] \in Nat /\ pos[i] <= Len(F)
  <2> TAKE i \in 0..n
  <2>1. fl[i] \in Seq(C) /\ n \in 0..n /\ i <= n
    BY <1>2, <1>5
  <2>2. Len(fl[i]) <= Len(fl[n])
    BY <1>6, <2>1
  <2>3. pos[i] = Len(fl[i]) /\ Len(fl[i]) \in Nat
    BY <1>8, <2>1
  <2> QED BY <1>7, <2>2, <2>3
<1>10. pos[0] = 0 /\ pos[n] = Len(F)
  <2>1. 0 \in 0..n /\ n \in 0..n
    BY <1>2
  <2>2. pos[0] = Len(fl[0]) /\ pos[n] = Len(fl[n])
    BY <1>9, <2>1
  <2> QED BY <1>5, <1>7, <2>2
<1>11. ASSUME NEW i \in 1..n
       PROVE  /\ pos[i] = pos[i - 1] + Len(RegionCells(regions[i]))
              /\ Holds(F, pos[i - 1], RegionCells(regions[i]))
  <2>1. i - 1 \in 0..n /\ i \in 0..n /\ n \in 0..n /\ i <= n
    BY <1>2
  <2>2. PICK p \in Seq(C), c \in Seq(C) :
           p = fl[i - 1] /\ c = RegionCells(regions[i]) /\ fl[i] = p \o c
    BY <1>3, <1>5, <2>1
  <2>3. Joined(fl[i], p, c)
    BY <2>2, Concat
  <2>4. pos[i - 1] = Len(p) /\ pos[i] = Len(fl[i])
    BY <1>9, <2>1, <2>2
  <2>5. pos[i] = pos[i - 1] + Len(c)
    BY <2>3, <2>4 DEF Joined
  <2>6. \A k \in 1..Len(fl[i]) : F[k] = fl[i][k]
    BY <1>6, <1>7, <2>1
  <2>7. \A k \in 1..Len(c) : F[Len(p) + k] = c[k]
    <3> TAKE k \in 1..Len(c)
    <3>1. Len(fl[i]) = Len(p) + Len(c) /\ fl[i][Len(p) + k] = c[k]
      BY <2>3 DEF Joined
    <3>2. PICK x \in Nat, y \in Nat : x = Len(p) /\ y = Len(c)
      OBVIOUS
    <3>3. x + k \in 1..(x + y)
      BY <3>2
    <3>4. Len(p) + k \in 1..Len(fl[i])
      BY <3>1, <3>2, <3>3
    <3> QED BY <2>6, <3>1, <3>4
  <2> QED BY <2>2, <2>4, <2>5, <2>7 DEF Holds
<1>12. Placed(pos, F, regions)
  BY <1>n, <1>9, <1>10, <1>11 DEF Placed
<1> QED BY <1>7, <1>12

\* What the carver writes.
LEMMA SerializeWrites ==
    ASSUME NEW d \in Dumps
    PROVE  \E C, off : /\ Nat \subseteq C /\ Serialize(d) \in Seq(C)
                       /\ Written(Serialize(d), d, off)
<1>1. PICK C : Nat \subseteq C /\ Checksum(d.regions) \in C
  <2>1. Nat \subseteq Nat \cup {Checksum(d.regions)}
    OBVIOUS
  <2> QED BY <2>1
<1>2. /\ d.pid \in Nat /\ d.regs \in Texts /\ d.regions \in Seq(Regions)
  BY DumpTyped
<1>3. PICK regs \in Seq(C) : regs = d.regs
  BY <1>1, <1>2, TextCells
<1>4. PICK n \in Nat, m \in Nat : n = Len(d.regions) /\ m = Len(regs)
  BY <1>2
<1>5. PICK F : F = FlattenSeq([i \in DOMAIN d.regions |-> RegionCells(d.regions[i])])
  OBVIOUS
<1>6. F \in Seq(C)
  BY <1>1, <1>2, <1>5, RegionsWritten
<1>p. PICK pos : Placed(pos, F, d.regions)
  BY <1>1, <1>2, <1>5, RegionsWritten
<1>7.            /\ pos[0] = 0 /\ pos[n] = Len(F)
                 /\ \A i \in 0..n : pos[i] \in Nat /\ pos[i] <= Len(F)
                 /\ \A i \in 1..n :
                      /\ pos[i] = pos[i - 1] + Len(RegionCells(d.regions[i]))
                      /\ Holds(F, pos[i - 1], RegionCells(d.regions[i]))
  BY <1>4, <1>p DEF Placed
<1>8. PICK h : h = <<Magic, d.pid, n, Checksum(d.regions)>> \o <<m>>
  OBVIOUS
<1>9. /\ h \in Seq(C) /\ Len(h) = 5 /\ h[1] = Magic /\ h[2] = d.pid /\ h[3] = n
      /\ h[5] = m
  BY <1>1, <1>2, <1>8, CellAssumption
<1>10. PICK q : q = h \o regs
  OBVIOUS
<1>11. PICK b : b = q \o F
  OBVIOUS
<1>12. b = Serialize(d)
  BY <1>3, <1>4, <1>5, <1>8, <1>10, <1>11 DEF Serialize
<1>13. q \in Seq(C) /\ Joined(q, h, regs)
  BY <1>9, <1>10, Concat
<1>14. b \in Seq(C) /\ Joined(b, q, F)
  BY <1>6, <1>11, <1>13, Concat
<1>15. /\ Len(q) = 5 + m /\ \A k \in 1..5 : q[k] = h[k]
       /\ \A k \in 1..m : q[5 + k] = regs[k]
  BY <1>4, <1>9, <1>13 DEF Joined
<1>16. /\ Len(b) = (5 + m) + Len(F) /\ \A k \in 1..(5 + m) : b[k] = q[k]
       /\ \A k \in 1..Len(F) : b[(5 + m) + k] = F[k]
  BY <1>14, <1>15 DEF Joined
<1>17. /\ \A k \in 1..5 : k \in 1..(5 + m) /\ \A j \in 1..m : 5 + j \in 1..(5 + m)
  OBVIOUS
<1>18. /\ \A k \in 1..5 : b[k] = h[k]
       /\ \A k \in 1..m : b[5 + k] = regs[k]
  BY <1>15, <1>16, <1>17
<1>19. b[1] = Magic /\ b[2] = d.pid /\ b[3] = n /\ b[5] = m
  BY <1>9, <1>18
<1>20. PICK off : off = [i \in 0..n |-> (5 + m) + pos[i]]
  OBVIOUS
<1>f. PICK l \in Nat : l = Len(F)
  BY <1>6
<1>21. \A i \in 0..n : /\ off[i] = (5 + m) + pos[i]
                       /\ off[i] \in Nat /\ off[i] <= Len(b)
  <2> TAKE i \in 0..n
  <2>1. pos[i] \in Nat /\ pos[i] <= l
    BY <1>7, <1>f
  <2>2. (5 + m) + pos[i] \in Nat /\ (5 + m) + pos[i] <= (5 + m) + l
    BY <2>1
  <2> QED BY <1>16, <1>20, <1>f, <2>2
<1>22. off[0] = 5 + m /\ off[n] = Len(b)
  <2>1. 0 \in 0..n /\ n \in 0..n
    OBVIOUS
  <2>2. off[0] = (5 + m) + 0 /\ off[n] = (5 + m) + Len(F)
    BY <1>7, <1>21, <2>1
  <2> QED BY <1>16, <2>2
<1>23. ASSUME NEW i \in 1..n
       PROVE  /\ off[i] = off[i - 1] + Len(RegionCells(d.regions[i]))
              /\ Holds(b, off[i - 1], RegionCells(d.regions[i]))
  <2>1. i \in 0..n /\ i - 1 \in 0..n
    OBVIOUS
  <2>2. d.regions[i] \in Regions
    BY <1>2, <1>4
  <2>3. PICK c \in Seq(C) : c = RegionCells(d.regions[i])
    BY <1>1, <2>2, RegionLayout
  <2>y. PICK y \in Nat : y = Len(c)
    OBVIOUS
  <2>x. PICK x \in Nat, z \in Nat : x = pos[i - 1] /\ z = pos[i]
    BY <1>7, <2>1
  <2>4. x = pos[i - 1] /\ y = Len(c) /\ z = pos[i]
    BY <2>x, <2>y
  <2>5. z = x + y /\ z <= l /\ Holds(F, x, c)
    BY <1>7, <1>f, <2>1, <2>3, <2>4
  <2>6. off[i] = (5 + m) + z /\ off[i - 1] = (5 + m) + x
    BY <1>21, <2>1, <2>4
  <2>7. (5 + m) + z = ((5 + m) + x) + y
    BY <2>5
  <2>8. \A k \in 1..y : /\ x + k \in 1..l
                        /\ ((5 + m) + x) + k = (5 + m) + (x + k)
    BY <2>5
  <2>9. \A k \in 1..y : x + k <= l /\ F[x + k] = c[k]
    BY <1>f, <2>4, <2>5, <2>8 DEF Holds
  <2>10. \A k \in 1..y : b[((5 + m) + x) + k] = c[k]
    BY <1>16, <1>f, <2>8, <2>9
  <2> QED BY <2>3, <2>4, <2>6, <2>7, <2>10 DEF Holds
<1>24. Written(b, d, off)
  BY <1>3, <1>4, <1>18, <1>19, <1>21, <1>22, <1>23 DEF Written
<1> QED BY <1>1, <1>12, <1>14, <1>24

\* The header of a blob that is whole that far.
LEMMA HeaderReads ==
    ASSUME NEW b, NEW m \in Nat, Len(b) \in Nat, 5 + m <= Len(b),
           b[1] = Magic, b[5] = m
    PROVE  ReadHeader(b) = At(5 + m, <<>>)
<1>1. /\ ~(Len(b) < HeaderLen + 1) /\ HeaderLen + 1 = 5
      /\ ~(HeaderLen + 1 + b[HeaderLen + 1] > Len(b))
  BY DEF HeaderLen
<1> QED BY <1>1 DEF ReadHeader, At

\* From a whole blob the reader gets the dump that was written.
LEMMA WholeReads ==
    ASSUME NEW C, Nat \subseteq C, NEW b \in Seq(C), NEW d \in Dumps,
           NEW off, Written(b, d, off)
    PROVE  Parse(b).ok /\ Parse(b).dump = d
<1>1. /\ d.regs \in Texts /\ d.regions \in Seq(Regions)
      /\ Len(d.regions) \in 0..(Width - 1)
      /\ d = [pid |-> d.pid, regs |-> d.regs, regions |-> d.regions]
  BY DumpTyped
<1>2. PICK regs \in Seq(C), m \in Nat : regs = d.regs /\ m = Len(regs)
  BY <1>1, TextCells
<1>3. PICK n \in 0..(Width - 1) : n = Len(d.regions)
  BY <1>1
<1>4. /\ b[1] = Magic /\ b[2] = d.pid /\ b[3] = n /\ b[5] = m
      /\ \A k \in 1..m : b[5 + k] = regs[k]
      /\ \A i \in 0..n : off[i] \in Nat /\ off[i] <= Len(b)
      /\ off[0] = 5 + m
  BY <1>2, <1>3 DEF Written
<1>5. \A i \in 1..n : /\ off[i] = off[i - 1] + Len(RegionCells(d.regions[i]))
                      /\ Holds(b, off[i - 1], RegionCells(d.regions[i]))
  BY <1>3 DEF Written
<1>6. 5 + m <= Len(b) /\ n \in Nat /\ 0 \in 0..n /\ n \in 0..n
  BY <1>4, CellAssumption
<1>7. ReadHeader(b) = At(off[0], <<>>)
  BY <1>4, <1>6, HeaderReads
<1>8. PICK st : /\ st[0] = ReadHeader(b)
                /\ \A i \in 1..(Width - 1) : st[i] = ReadRegion(b, st[i - 1])
                /\ Parse(b) =
                     IF ~ReadHeader(b).ok \/ ~st[b[3]].ok THEN Rejected
                     ELSE [ok |-> TRUE,
                           dump |-> [pid |-> b[2],
                             regs |-> Slice(b, HeaderLen + 1, b[HeaderLen + 1]),
                             regions |-> st[b[3]].regions],
                           checksum |-> b[4]]
  BY ParseRuns
<1> DEFINE Read(i) == \E rs \in Seq(Regions) :
                         /\ Len(rs) = i /\ \A k \in 1..i : rs[k] = d.regions[k]
                         /\ st[i] = At(off[i], rs)
           S == {i \in Nat : i <= n => Read(i)}
<1>9. Read(0)
  <2>1. /\ <<>> \in Seq(Regions) /\ Len(<<>>) = 0 /\ \A k \in 1..0 : FALSE
    OBVIOUS
  <2> QED BY <1>7, <1>8, <2>1
<1>10. ASSUME NEW i \in Nat, i + 1 <= n, Read(i) PROVE Read(i + 1)
  <2>1. PICK rs \in Seq(Regions) :
           /\ Len(rs) = i /\ \A k \in 1..i : rs[k] = d.regions[k]
           /\ st[i] = At(off[i], rs)
    BY <1>10
  <2>2. /\ i + 1 \in 1..n /\ i \in 0..n /\ i + 1 \in 0..n /\ (i + 1) - 1 = i
        /\ i + 1 \in 1..(Width - 1)
    BY <1>10, <1>6, CellAssumption
  <2>3. PICK r \in Regions : r = d.regions[i + 1]
    BY <1>1, <1>3, <2>2
  <2>4. PICK c \in Seq(C), o \in Nat : c = RegionCells(r) /\ o = off[i]
    BY <1>4, <2>2, RegionLayout
  <2>5. off[i + 1] = o + Len(c) /\ Holds(b, o, c) /\ off[i + 1] <= Len(b)
    BY <1>4, <1>5, <2>2, <2>3, <2>4
  <2>6. PICK x, t : x = rs /\ t = Append(x, r)
    OBVIOUS
  <2>7. ReadRegion(b, At(o, x)) = At(o + Len(c), t)
    <3>1. o + Len(c) <= Len(b)
      BY <2>5
    <3>2. Holds(b, o, c)
      BY <2>5
    <3>3. ReadRegion(b, At(o, x)) = At(o + Len(c), Append(x, r))
      BY <2>4, <3>1, <3>2, TurnReads
    <3> QED BY <2>6, <3>3
  <2>8. st[i + 1] = At(off[i + 1], t) /\ t = Append(rs, r)
    BY <1>8, <2>1, <2>2, <2>4, <2>5, <2>6, <2>7
  <2>9. t \in Seq(Regions) /\ Len(t) = i + 1
    BY <2>1, <2>8
  <2>10. \A k \in 1..(i + 1) : t[k] = d.regions[k]
    <3> TAKE k \in 1..(i + 1)
    <3>1. CASE k = i + 1
      BY <2>1, <2>3, <2>8, <3>1
    <3>2. CASE k \in 1..i
      BY <2>1, <2>8, <3>2
    <3> QED BY <3>1, <3>2
  <2> QED BY <2>8, <2>9, <2>10
<1> HIDE DEF Read
<1>11. S \in SUBSET Nat /\ 0 \in S
  BY <1>9
<1>12. ASSUME NEW i \in S PROVE i + 1 \in S
  <2>1. i \in Nat /\ i + 1 \in Nat /\ (i + 1 <= n => i <= n)
    BY <1>6
  <2> QED BY <1>10, <2>1
<1> HIDE DEF S
<1>13. n \in S
  BY <1>6, <1>11, <1>12, Induction
<1>14. Read(n)
  BY <1>6, <1>13 DEF S
<1>15. PICK rs \in Seq(Regions) :
          /\ Len(rs) = n /\ \A k \in 1..n : rs[k] = d.regions[k]
          /\ st[n] = At(off[n], rs)
  BY <1>14 DEF Read
<1>16. rs = d.regions
  BY <1>1, <1>3, <1>15
<1>17. Slice(b, HeaderLen + 1, b[HeaderLen + 1]) = regs
  <2>1. HeaderLen + 1 = 5 /\ 5 \in Nat
    BY DEF HeaderLen
  <2>2. Slice(b, 5, Len(regs)) = regs
    <3>1. 5 \in Nat /\ 5 + Len(regs) <= Len(b)
      BY <1>2, <1>6
    <3>2. \A k \in 1..Len(regs) : b[5 + k] = regs[k]
      BY <1>2, <1>4
    <3> QED BY <3>1, <3>2, SliceIs
  <2> QED BY <1>2, <1>4, <2>1, <2>2
<1>18. st[n].ok /\ st[n].regions = rs /\ ReadHeader(b).ok
  BY <1>7, <1>15 DEF At
<1>19. Parse(b) = [ok |-> TRUE,
                   dump |-> [pid |-> b[2], regs |-> regs, regions |-> rs],
                   checksum |-> b[4]]
  BY <1>4, <1>8, <1>17, <1>18
<1> QED BY <1>1, <1>2, <1>4, <1>16, <1>19

\* A blob that was cut is refused, wherever it was cut.
LEMMA CutRefused ==
    ASSUME NEW C, Nat \subseteq C, NEW b \in Seq(C), NEW d \in Dumps,
           NEW off, Written(b, d, off),
           NEW a \in Seq(C), Len(a) < Len(b), \A k \in 1..Len(a) : a[k] = b[k]
    PROVE  Parse(a) = Rejected
<1>1. /\ d.regs \in Texts /\ d.regions \in Seq(Regions)
      /\ Len(d.regions) \in 0..(Width - 1)
  BY DumpTyped
<1>2. PICK m \in Nat : m = Len(d.regs)
  BY <1>1, TextCells
<1>3. PICK n \in 0..(Width - 1) : n = Len(d.regions)
  BY <1>1
<1>4. /\ b[1] = Magic /\ b[3] = n /\ b[5] = m
      /\ \A i \in 0..n : off[i] \in Nat /\ off[i] <= Len(b)
      /\ off[0] = 5 + m /\ off[n] = Len(b)
  BY <1>2, <1>3 DEF Written
<1>5. \A i \in 1..n : /\ off[i] = off[i - 1] + Len(RegionCells(d.regions[i]))
                      /\ Holds(b, off[i - 1], RegionCells(d.regions[i]))
  BY <1>3 DEF Written
<1>6. n \in Nat /\ 0 \in 0..n /\ n \in 0..n /\ Len(a) \in Nat /\ Len(b) \in Nat
  BY CellAssumption
<1>8. PICK st : /\ st[0] = ReadHeader(a)
                /\ \A i \in 1..(Width - 1) : st[i] = ReadRegion(a, st[i - 1])
                /\ Parse(a) =
                     IF ~ReadHeader(a).ok \/ ~st[a[3]].ok THEN Rejected
                     ELSE [ok |-> TRUE,
                           dump |-> [pid |-> a[2],
                             regs |-> Slice(a, HeaderLen + 1, a[HeaderLen + 1]),
                             regions |-> st[a[3]].regions],
                           checksum |-> a[4]]
  BY ParseRuns
<1>r. ~Rejected.ok
  BY DEF Rejected
<1>h. CASE Len(a) < 5 \/ 5 + m > Len(a)
  <2>1. CASE Len(a) < 5
    <3>1. ReadHeader(a) = Rejected
      BY <2>1 DEF ReadHeader, HeaderLen
    <3> QED BY <1>8, <1>r, <3>1
  <2>2. CASE ~(Len(a) < 5) /\ 5 + m > Len(a)
    <3>1. 5 \in 1..Len(a)
      BY <1>6, <2>2
    <3>2. a[5] = m
      BY <1>4, <3>1
    <3>3. HeaderLen + 1 = 5 /\ HeaderLen + 1 + a[HeaderLen + 1] > Len(a)
      BY <2>2, <3>2 DEF HeaderLen
    <3>4. ReadHeader(a) = Rejected
      BY <3>3 DEF ReadHeader
    <3> QED BY <1>8, <1>r, <3>4
  <2> QED BY <1>h, <2>1, <2>2
<1>b. CASE ~(Len(a) < 5) /\ 5 + m <= Len(a)
  <2>0. 1 \in 1..Len(a) /\ 3 \in 1..Len(a) /\ 5 \in 1..Len(a)
    BY <1>6, <1>b
  <2>1. a[1] = Magic /\ a[3] = n /\ a[5] = m
    BY <1>4, <2>0
  <2>2. ReadHeader(a) = At(off[0], <<>>)
    BY <1>4, <1>6, <1>b, <2>1, HeaderReads
  <2> DEFINE Read(i) == \/ st[i] = Rejected
                        \/ off[i] <= Len(a) /\ \E rs : st[i] = At(off[i], rs)
             S == {i \in Nat : i <= n => Read(i)}
  <2>3. Read(0)
    BY <1>4, <1>8, <1>b, <2>2
  <2>4. ASSUME NEW i \in Nat, i + 1 <= n, Read(i) PROVE Read(i + 1)
    <3>2. /\ i + 1 \in 1..n /\ i \in 0..n /\ i + 1 \in 0..n /\ (i + 1) - 1 = i
          /\ i + 1 \in 1..(Width - 1)
      BY <1>6, <2>4, CellAssumption
    <3>s. st[i + 1] = ReadRegion(a, st[i])
      BY <1>8, <3>2
    <3>3. CASE st[i] = Rejected
      <4>1. ReadRegion(a, Rejected) = Rejected
        BY <1>r DEF ReadRegion
      <4> QED BY <3>3, <3>s, <4>1
    <3>4. CASE off[i] <= Len(a) /\ \E rs : st[i] = At(off[i], rs)
      <4>1. PICK rs : st[i] = At(off[i], rs)
        BY <3>4
      <4>2. PICK r \in Regions : r = d.regions[i + 1]
        BY <1>1, <1>3, <3>2
      <4>3. PICK c \in Seq(C), o \in Nat : c = RegionCells(r) /\ o = off[i]
        BY <1>4, <3>2, <4>2, RegionLayout
      <4>4. off[i + 1] = o + Len(c) /\ Holds(b, o, c) /\ off[i + 1] <= Len(b)
        BY <1>4, <1>5, <3>2, <4>2, <4>3
      <4>5. Holds(a, o, c)
        <5> SUFFICES ASSUME NEW k \in 1..Len(c), o + k <= Len(a)
                     PROVE  a[o + k] = c[k]
          BY DEF Holds
        <5>1. o + k \in 1..Len(a) /\ o + k <= Len(b)
          BY <1>6
        <5>2. b[o + k] = c[k]
          BY <4>4, <5>1 DEF Holds
        <5> QED BY <5>1, <5>2
      <4>6. CASE o + Len(c) <= Len(a)
        <5>1. ReadRegion(a, At(o, rs)) = At(o + Len(c), Append(rs, r))
          BY <4>3, <4>5, <4>6, TurnReads
        <5> QED BY <3>s, <4>1, <4>3, <4>4, <4>6, <5>1
      <4>7. CASE Len(a) < o + Len(c)
        <5>1. ReadRegion(a, At(o, rs)) = Rejected
          BY <4>3, <4>5, <4>7, TurnRefuses
        <5> QED BY <3>s, <4>1, <4>3, <5>1
      <4>8. Len(c) \in Nat
        BY <4>3
      <4> QED BY <1>6, <4>6, <4>7, <4>8
    <3> QED BY <2>4, <3>3, <3>4
  <2> HIDE DEF Read
  <2>5. S \in SUBSET Nat /\ 0 \in S
    BY <2>3
  <2>6. ASSUME NEW i \in S PROVE i + 1 \in S
    <3>1. i \in Nat /\ i + 1 \in Nat /\ (i + 1 <= n => i <= n)
      BY <1>6
    <3> QED BY <2>4, <3>1
  <2> HIDE DEF S
  <2>7. n \in S
    BY <1>6, <2>5, <2>6, Induction
  <2>8. Read(n)
    BY <1>6, <2>7 DEF S
  <2>9. ~(off[n] <= Len(a))
    BY <1>4, <1>6
  <2>10. st[n] = Rejected
    BY <2>8, <2>9 DEF Read
  <2> QED BY <1>8, <1>r, <2>1, <2>10
<1> QED BY <1>2, <1>6, <1>h, <1>b

-----------------------------------------------------------------------------
(***************************************************************************)
(* What the daemon works on.                                               *)
(***************************************************************************)

\* For every dump the format has room for: from_file gets back from a blob what
\* package_core_dump wrote into it.
THEOREM ReaderInvertsWriter ==
    \A d \in Dumps : Parse(Serialize(d)).ok /\ Parse(Serialize(d)).dump = d
<1> TAKE d \in Dumps
<1>1. PICK C, off : /\ Nat \subseteq C /\ Serialize(d) \in Seq(C)
                    /\ Written(Serialize(d), d, off)
  BY SerializeWrites
<1> QED BY <1>1, WholeReads

\* For every such dump: from_file refuses a blob that was cut anywhere, although
\* it does not compare the checksum.
THEOREM ReaderRefusesCut ==
    \A d \in Dumps : \A n \in 0..(Len(Serialize(d)) - 1) :
        Parse(SubSeq(Serialize(d), 1, n)) = Rejected
<1> TAKE d \in Dumps
<1> TAKE n \in 0..(Len(Serialize(d)) - 1)
<1>1. PICK b : b = Serialize(d)
  OBVIOUS
<1>2. PICK C, off : Nat \subseteq C /\ b \in Seq(C) /\ Written(b, d, off)
  BY <1>1, SerializeWrites
<1>3. PICK a : a = SubSeq(b, 1, n)
  OBVIOUS
<1>4. n \in Nat /\ n < Len(b) /\ Len(b) \in Nat
  BY <1>1, <1>2
<1>5. /\ a \in Seq(C) /\ Len(a) = n /\ \A k \in 1..n : a[k] = b[k]
  BY <1>2, <1>3, <1>4
<1>6. Parse(a) = Rejected
  BY <1>2, <1>4, <1>5, CutRefused
<1> QED BY <1>1, <1>3, <1>6

\* What Ingest finds out about a blob that nobody changed.
LEMMA VerdictsUnchanged ==
    /\ \A got \in Verdicts["whole"] : got = "same"
    /\ \A got \in Verdicts["cut"] : got = "refused"
<1>1. ASSUME NEW got \in Verdicts["whole"] PROVE got = "same"
  <2>1. got = Verdict(Serialize(Carved))
    BY DEF Verdicts, Blobs
  <2>2. Parse(Serialize(Carved)).ok /\ Parse(Serialize(Carved)).dump = Carved
    BY ReaderInvertsWriter, CarvedAssumption
  <2> QED BY <2>1, <2>2 DEF Verdict
<1>2. ASSUME NEW got \in Verdicts["cut"] PROVE got = "refused"
  <2>1. PICK n \in 0..(Len(Serialize(Carved)) - 1) :
           got = Verdict(SubSeq(Serialize(Carved), 1, n))
    <3>1. PICK b \in Blobs("cut") : got = Verdict(b)
      BY DEF Verdicts
    <3>2. PICK w : w = Serialize(Carved)
      OBVIOUS
    <3>3. Blobs("cut") = {SubSeq(w, 1, n) : n \in 0..(Len(w) - 1)}
      BY <3>2 DEF Blobs
    <3>4. PICK n \in 0..(Len(w) - 1) : b = SubSeq(w, 1, n)
      BY <3>1, <3>3
    <3> QED BY <3>1, <3>2, <3>4
  <2>2. Parse(SubSeq(Serialize(Carved), 1, n)) = Rejected
    BY ReaderRefusesCut, CarvedAssumption
  <2>3. ~Rejected.ok
    BY DEF Rejected
  <2> QED BY <2>1, <2>2, <2>3 DEF Verdict
<1> QED BY <1>1, <1>2

\* Only Ingest looks at a blob; whoever finishes forgets it.
LEMMA ParsedStep ==
    ASSUME DaemonType, ParsedIsCarved, [Next]_vars
    PROVE  ParsedIsCarved'
<1>0. dm \in Daemons
  BY DEF DaemonType
<1>1. CASE \E blob \in {"whole", "cut", "changed"}, ok \in BOOLEAN : Ingest(blob, ok)
  <2>1. PICK blob \in {"whole", "cut", "changed"}, ok \in BOOLEAN : Ingest(blob, ok)
    BY <1>1
  <2>2. PICK got \in Verdicts[blob] \cup {"unread"}, at \in {"parsed", "end"} :
           dm' = [dm EXCEPT !.blob = blob, !.got = got, !.at = at]
    BY <2>1 DEF Ingest
  <2>3. dm'.blob = blob /\ dm'.got = got
    BY <1>0, <2>2 DEF Daemons
  <2>4. /\ blob = "whole" => got \in {"same", "unread"}
        /\ blob = "cut" => got \in {"refused", "unread"}
    BY VerdictsUnchanged
  <2> QED BY <2>1, <2>3, <2>4 DEF ParsedIsCarved
<1>2. CASE dm'.got = "nothing"
  BY <1>2 DEF ParsedIsCarved
<1>3. CASE dm'.blob = dm.blob /\ dm'.got = dm.got
  BY <1>3 DEF ParsedIsCarved
<1>4. Finish => dm'.got = "nothing"
  BY DEF Finish, Asleep
<1>5. \A at : Goto(at) => dm'.blob = dm.blob /\ dm'.got = dm.got
  BY <1>0 DEF Goto, Daemons
<1>6. Watch \/ Poll => dm'.got = "nothing" \/ (dm'.blob = dm.blob /\ dm'.got = dm.got)
  <2>1. CASE Watch
    BY <1>0, <2>1 DEF Watch, Daemons
  <2>2. CASE Poll
    BY <1>0, <1>4, <2>2 DEF Poll, Daemons
  <2> QED BY <2>1, <2>2
<1>7. Crash \/ Restart => dm'.got = "nothing"
  BY DEF Crash, Restart, Asleep
<1>8. (\E d \in Devices : Plug(d) \/ Unplug(d)) \/ UNCHANGED vars => UNCHANGED dm
  BY DEF Plug, Unplug, vars
<1> QED BY <1>1, <1>2, <1>3, <1>4, <1>5, <1>6, <1>7, <1>8
        DEF Next, DaemonStep, Mount, FirstCleanup, Push, SecondCleanup

\* For every dump that was carved, every device and every crash: the daemon works
\* on exactly what was carved unless cells were changed.
THEOREM ParsedExactly == Spec => []ParsedIsCarved
<1>1. Init => ParsedIsCarved
  BY DEF Init, Asleep, ParsedIsCarved
<1> QED BY <1>1, DaemonTypeInit, DaemonTypeStep, ParsedStep, PTL DEF Spec

=============================================================================

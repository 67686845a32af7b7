----------------------------- MODULE Kp14Proofs -----------------------------
(***************************************************************************)
(* Proofs about the remote analyses, for every number of orders, PIDs,     *)
(* seconds and crashes.                                                    *)
(***************************************************************************)
EXTENDS Kp14, TLAPS

-----------------------------------------------------------------------------
(***************************************************************************)
(* Type correctness.                                                       *)
(***************************************************************************)
Analyses == [at: Activities, path: (Pids \X Secs) \cup {None},
             name: Secs \cup {None}, proj: Secs \cup {None},
             seen: SUBSET Orders, found: SUBSET Orders]

Unnamed == {"none", "carve", "ready"}
Running == {"run", "ran", "results", "push", "pushed"}

\* An analysis gets its blob, its copy and its project one after the other, and
\* keeps their names; a blob is never removed.
Named(o) ==
    /\ an[o].at = "none" => an[o].path = None
    /\ an[o].at \in {"carve", "ready"} => an[o].path # None
    /\ an[o].path # None => disk[an[o].path] # None
    /\ an[o].at \in Unnamed => an[o].name = None
    /\ an[o].at \in Copying => an[o].name # None
    /\ an[o].name # None => an[o].path # None
    /\ an[o].at \in Unnamed \cup {"scp", "copied"} => an[o].proj = None
    /\ an[o].at \in Running => an[o].proj # None
    /\ an[o].proj # None => an[o].name # None
    /\ an[o].found # {} => an[o].proj # None

Kp14Type == /\ TypeOK
            /\ an \in [Orders -> Analyses]
            /\ \A o \in Orders : Named(o)


\* A step of the analysis of one order: what the proofs need to know of it.
Steps(o) == /\ an' \in [Orders -> Analyses]
            /\ \A n \in Orders \ {o} : an'[n] = an[n]

\* What may be in a file.
LEMMA DataTyped ==
    ASSUME NEW f \in (SUBSET Orders) \cup {None}
    PROVE  Data(f) \subseteq Orders
BY DEF Data

\* A new record of one analysis keeps the type, if the analysis keeps its names.
LEMMA StepTyped ==
    ASSUME Kp14Type, NEW o \in Orders, Steps(o), Named(o)',
           \A f \in Pids \X Secs : disk[f] # None => disk'[f] # None
    PROVE  /\ \A n \in Orders : Named(n)'
           /\ \A n \in Orders :
                 /\ an'[n].at \in Activities
                 /\ an'[n].path \in (Pids \X Secs) \cup {None}
                 /\ an'[n].name \in Secs \cup {None}
                 /\ an'[n].proj \in Secs \cup {None}
                 /\ an'[n].seen \subseteq Orders /\ an'[n].found \subseteq Orders
                 /\ an'[n].at \in Copying => /\ disk'[an'[n].path] # None
                                             /\ an'[n].name # None
<1>1. \A n \in Orders : an'[n] \in Analyses
  BY DEF Steps
<1>2. \A n \in Orders : Named(n)'
  <2> SUFFICES ASSUME NEW n \in Orders, n # o PROVE Named(n)'
    OBVIOUS
  <2>1. an'[n] = an[n] /\ Named(n) /\ an'[n] \in Analyses
    BY <1>1 DEF Steps, Kp14Type
  <2>2. an[n].path \in (Pids \X Secs) \cup {None}
    BY <2>1 DEF Analyses
  <2> QED BY <2>1, <2>2 DEF Named
<1>3. \A n \in Orders : an'[n].at \in Copying => /\ disk'[an'[n].path] # None
                                                 /\ an'[n].name # None
  BY <1>2 DEF Named
<1> QED BY <1>1, <1>2, <1>3 DEF Analyses

\* The carving of a blob.
LEMMA CarveTyped ==
    ASSUME Kp14Type, NEW o \in Orders,
           \/ \E p \in Pids : CarveStart(o, p)
           \/ \E ok \in BOOLEAN : CarveEnd(o, ok)
    PROVE  Kp14Type' /\ Steps(o)
<1>0. /\ an \in [Orders -> Analyses] /\ now \in Secs /\ Named(o)
      /\ disk \in [Pids \X Secs -> (SUBSET Orders) \cup {None}]
      /\ {} \in SUBSET Orders /\ {o} \in SUBSET Orders /\ {} # None /\ {o} # None
  BY NoneAssumption DEF Kp14Type, TypeOK
<1>a. an[o] \in Analyses
  BY <1>0
<1>1. /\ Steps(o) /\ Named(o)'
      /\ disk' \in [Pids \X Secs -> (SUBSET Orders) \cup {None}]
      /\ \A f \in Pids \X Secs : disk[f] # None => disk'[f] # None
  <2>1. CASE \E p \in Pids : CarveStart(o, p)
    <3> PICK p \in Pids : CarveStart(o, p)
      BY <2>1
    <3>1. /\ an[o].at = "none" /\ <<p, now>> \in Pids \X Secs
          /\ an' = [an EXCEPT ![o].at = "carve", ![o].path = <<p, now>>]
          /\ disk' = [disk EXCEPT ![<<p, now>>] = {}]
      BY <1>0 DEF CarveStart
    <3>2. /\ an'[o] = [an[o] EXCEPT !.at = "carve", !.path = <<p, now>>]
          /\ \A n \in Orders \ {o} : an'[n] = an[n]
          /\ an'[o] \in Analyses /\ an' \in [Orders -> Analyses]
      BY <1>0, <1>a, <3>1 DEF Analyses, Activities
    <3>3. /\ an'[o].at = "carve" /\ an'[o].path = <<p, now>>
          /\ an'[o].name = an[o].name /\ an'[o].proj = an[o].proj
          /\ an'[o].found = an[o].found
      BY <1>a, <3>2 DEF Analyses
    <3>4. /\ disk' \in [Pids \X Secs -> (SUBSET Orders) \cup {None}]
          /\ \A f \in Pids \X Secs : disk[f] # None => disk'[f] # None
          /\ disk'[<<p, now>>] # None
      BY <1>0, <3>1
    <3>5. Named(o)'
      BY <1>0, <3>1, <3>3, <3>4, NoneAssumption
         DEF Named, Unnamed, Running, Copying
    <3> QED BY <3>2, <3>4, <3>5 DEF Steps
  <2>2. CASE \E ok \in BOOLEAN : CarveEnd(o, ok)
    <3>1. /\ an[o].at = "carve"
          /\ \E at \in {"ready", "end"} : an' = [an EXCEPT ![o].at = at]
          /\ disk' = [disk EXCEPT ![an[o].path] = {o}] \/ UNCHANGED disk
      BY <2>2 DEF CarveEnd, Set
    <3> PICK at \in {"ready", "end"} : an' = [an EXCEPT ![o].at = at]
      BY <3>1
    <3>2. /\ an'[o] = [an[o] EXCEPT !.at = at]
          /\ \A n \in Orders \ {o} : an'[n] = an[n]
          /\ an'[o] \in Analyses /\ an' \in [Orders -> Analyses]
      BY <1>0, <1>a DEF Analyses, Activities
    <3>3. /\ an'[o].at = at /\ an'[o].path = an[o].path
          /\ an'[o].name = an[o].name /\ an'[o].proj = an[o].proj
          /\ an'[o].found = an[o].found
      BY <1>a, <3>2 DEF Analyses
    <3>4. /\ disk' \in [Pids \X Secs -> (SUBSET Orders) \cup {None}]
          /\ \A f \in Pids \X Secs : disk[f] # None => disk'[f] # None
      BY <1>0, <3>1
    <3>5. an[o].path # None /\ an[o].path \in Pids \X Secs
      BY <1>0, <1>a, <3>1 DEF Named, Analyses
    <3>6. Named(o)'
      BY <1>0, <3>1, <3>3, <3>4, <3>5 DEF Named, Unnamed, Running, Copying
    <3> QED BY <3>2, <3>4, <3>6 DEF Steps
  <2> QED BY <2>1, <2>2
<1>2. UNCHANGED <<up, now, crashes, vmVars, iocVars, dm, left>>
  BY DEF CarveStart, CarveEnd
<1> QED BY <1>1, <1>2, StepTyped DEF Kp14Type, TypeOK, vmVars, iocVars, Steps


\* scp starts: the analysis of a blob is one command after the other.
LEMMA ScpStartTyped ==
    ASSUME Kp14Type, NEW o \in Orders, ScpStart(o)
    PROVE  /\ Kp14Type' /\ Steps(o)
           /\ an'[o].at = "scp" /\ an'[o].path = an[o].path
           /\ an'[o].name = now /\ an'[o].proj = None
           /\ an'[o].seen = Data(disk[an[o].path]) /\ an'[o].found = an[o].found
<1>0. /\ an \in [Orders -> Analyses] /\ now \in Secs /\ Named(o)
      /\ disk \in [Pids \X Secs -> (SUBSET Orders) \cup {None}]
      /\ remote \in [Secs -> (SUBSET Orders) \cup {None}]
  BY DEF Kp14Type, TypeOK
<1>1. an[o] \in Analyses /\ an[o].at = "ready"
  BY <1>0 DEF ScpStart
<1>2. an[o].path \in Pids \X Secs /\ an[o].proj = None
  BY <1>0, <1>1 DEF Named, Analyses, Unnamed
<1>3. PICK S \in SUBSET Orders : S = Data(disk[an[o].path])
  BY <1>0, <1>2, DataTyped
<1>4. /\ an'[o] = [an[o] EXCEPT !.at = "scp", !.name = now, !.seen = S]
      /\ \A n \in Orders \ {o} : an'[n] = an[n]
      /\ an'[o] \in Analyses /\ an' \in [Orders -> Analyses]
  BY <1>0, <1>1, <1>3 DEF ScpStart, Analyses, Activities, Copying
<1>5. /\ an'[o].at = "scp" /\ an'[o].path = an[o].path
      /\ an'[o].name = now /\ an'[o].proj = an[o].proj
      /\ an'[o].seen = S /\ an'[o].found = an[o].found
  BY <1>1, <1>4 DEF Analyses
<1>6. UNCHANGED <<up, now, crashes, disk, out, iocs, overlap, latest, cut, dm, left>>
  BY DEF ScpStart, hostVars, iocVars
<1>7. remote' \in [Secs -> (SUBSET Orders) \cup {None}]
  BY <1>0 DEF ScpStart
<1>8. Named(o)'
  BY <1>0, <1>1, <1>2, <1>5, <1>6, NoneAssumption
     DEF Named, Unnamed, Running, Copying
<1> QED BY <1>2, <1>3, <1>4, <1>5, <1>6, <1>7, <1>8, StepTyped
        DEF Kp14Type, TypeOK, Steps

\* The analysis of order o goes on to `at' and keeps its names and results.
Moves(o, at) ==
    /\ Steps(o)
    /\ an'[o].at = at /\ an'[o].path = an[o].path /\ an'[o].name = an[o].name
    /\ an'[o].proj = an[o].proj /\ an'[o].found = an[o].found
    /\ an'[o].seen \subseteq an[o].seen

\* A step that sets the place of an analysis, with or without what it has seen.
LEMMA SetMoves ==
    ASSUME Kp14Type, NEW o \in Orders, NEW at \in Activities,
           Set(o, at) \/ Done(o, at)
    PROVE  Moves(o, at)
<1>1. an \in [Orders -> Analyses] /\ an[o] \in Analyses
  BY DEF Kp14Type
<1>2. CASE Set(o, at)
  BY <1>1, <1>2 DEF Set, Moves, Steps, Analyses
<1>3. CASE Done(o, at)
  BY <1>1, <1>3 DEF Done, Moves, Steps, Analyses
<1> QED BY <1>2, <1>3

\* An analysis that has a copy may go on.
LEMMA MovesTyped ==
    ASSUME Kp14Type, NEW o \in Orders, UNCHANGED disk,
           \/ an[o].at = "scp" /\ Moves(o, "copied")
           \/ an[o].at \in Copying /\ Moves(o, "end")
           \/ an[o].at \in Running /\ \E at \in Running : Moves(o, at)
    PROVE  /\ Named(o)' /\ an[o].name \in Secs /\ an[o].path \in Pids \X Secs
           /\ an[o].proj \in Secs \cup {None}
           /\ an[o].at \in Running => an[o].proj \in Secs
           /\ an[o].found \subseteq Orders /\ an[o].seen \subseteq Orders
<1>1. Named(o) /\ an[o] \in Analyses
  BY DEF Kp14Type
<1>2. an[o].at \in Copying
  BY DEF Copying, Running
<1> QED BY <1>1, <1>2 DEF Moves, Named, Analyses, Copying, Running, Unnamed

\* scp ends: the copy is there, or an error returns and leaves what there is.
LEMMA ScpEndTyped ==
    ASSUME Kp14Type, NEW o \in Orders, NEW ok \in BOOLEAN, ScpEnd(o, ok)
    PROVE  /\ Kp14Type' /\ an[o].at = "scp" /\ an[o].name \in Secs
           /\ an[o].path \in Pids \X Secs
           /\ \/ /\ Moves(o, "copied") /\ UNCHANGED left
                 /\ remote' = [remote EXCEPT ![an[o].name] =
                       IF @ = None THEN None
                       ELSE @ \cup an[o].seen \cup Data(disk[an[o].path])]
              \/ /\ Moves(o, "end") /\ Leave(an[o].name) /\ UNCHANGED remote
<1>0. /\ an[o].at = "scp"
      /\ UNCHANGED <<up, now, crashes, disk, out, iocs, overlap, latest, cut, dm>>
  BY DEF ScpEnd, hostVars, iocVars
<1>1. \/ /\ Moves(o, "copied") /\ UNCHANGED left
         /\ remote' = [remote EXCEPT ![an[o].name] =
               IF @ = None THEN None
               ELSE @ \cup an[o].seen \cup Data(disk[an[o].path])]
      \/ /\ Moves(o, "end") /\ Leave(an[o].name) /\ UNCHANGED remote
  BY SetMoves DEF ScpEnd, Activities, Copying
<1>2. /\ Named(o)' /\ an[o].name \in Secs /\ an[o].path \in Pids \X Secs
      /\ an[o].seen \subseteq Orders
  BY <1>0, <1>1, MovesTyped DEF Copying
<1>3. /\ remote \in [Secs -> (SUBSET Orders) \cup {None}] /\ left \subseteq Secs
      /\ disk \in [Pids \X Secs -> (SUBSET Orders) \cup {None}]
  BY DEF Kp14Type, TypeOK
<1>4. PICK S \in SUBSET Orders : S = Data(disk[an[o].path])
  BY <1>2, <1>3, DataTyped
<1>5. remote' \in [Secs -> (SUBSET Orders) \cup {None}] /\ left' \subseteq Secs
  <2>1. CASE UNCHANGED remote
    BY <1>1, <1>2, <1>3, <2>1 DEF Leave
  <2>2. CASE UNCHANGED left /\ remote' = [remote EXCEPT ![an[o].name] =
               IF @ = None THEN None
               ELSE @ \cup an[o].seen \cup Data(disk[an[o].path])]
    <3>1. remote' = [remote EXCEPT ![an[o].name] =
               IF @ = None THEN None ELSE @ \cup an[o].seen \cup S]
      BY <1>4, <2>2
    <3>2. (IF remote[an[o].name] = None THEN None
           ELSE remote[an[o].name] \cup an[o].seen \cup S)
             \in (SUBSET Orders) \cup {None}
      BY <1>2, <1>3
    <3> QED BY <1>2, <1>3, <2>2, <3>1, <3>2
  <2> QED BY <1>1, <2>1, <2>2
<1>6. Steps(o)
  BY <1>1 DEF Moves
<1>7. Kp14Type'
  BY <1>0, <1>2, <1>5, <1>6, StepTyped DEF Kp14Type, TypeOK, Steps
<1> QED BY <1>0, <1>1, <1>2, <1>7

\* The pipeline starts, in a project of its own.
LEMMA RunStartTyped ==
    ASSUME Kp14Type, NEW o \in Orders, RunStart(o)
    PROVE  /\ Kp14Type' /\ Steps(o) /\ an[o].at = "copied" /\ an[o].name \in Secs
           /\ an[o].proj = None
           /\ an'[o].at = "run" /\ an'[o].path = an[o].path
           /\ an'[o].name = an[o].name /\ an'[o].proj = now
           /\ an'[o].seen = Data(remote[an[o].name]) /\ an'[o].found = an[o].found
<1>0. /\ an \in [Orders -> Analyses] /\ now \in Secs /\ Named(o)
      /\ remote \in [Secs -> (SUBSET Orders) \cup {None}]
  BY DEF Kp14Type, TypeOK
<1>1. an[o] \in Analyses /\ an[o].at = "copied"
  BY <1>0 DEF RunStart
<1>2. an[o].name \in Secs /\ an[o].proj = None
  BY <1>0, <1>1 DEF Named, Analyses, Copying
<1>3. PICK S \in SUBSET Orders : S = Data(remote[an[o].name])
  BY <1>0, <1>2, DataTyped
<1>4. /\ an'[o] = [an[o] EXCEPT !.at = "run", !.proj = now, !.seen = S]
      /\ \A n \in Orders \ {o} : an'[n] = an[n]
      /\ an'[o] \in Analyses /\ an' \in [Orders -> Analyses]
  BY <1>0, <1>1, <1>3 DEF RunStart, Analyses, Activities, Copying
<1>5. /\ an'[o].at = "run" /\ an'[o].path = an[o].path
      /\ an'[o].name = an[o].name /\ an'[o].proj = now
      /\ an'[o].seen = S /\ an'[o].found = an[o].found
  BY <1>1, <1>4 DEF Analyses
<1>6. UNCHANGED <<up, now, crashes, disk, remote, out, iocs, overlap, latest, cut, dm,
                  left>>
  BY DEF RunStart, hostVars, iocVars, vmVars
<1>7. Named(o)'
  BY <1>0, <1>1, <1>2, <1>5, <1>6, NoneAssumption
     DEF Named, Unnamed, Running, Copying
<1> QED BY <1>1, <1>2, <1>3, <1>4, <1>5, <1>6, <1>7, StepTyped
        DEF Kp14Type, TypeOK, Steps

\* The pipeline ends with results, or an error returns.
LEMMA RunEndTyped ==
    ASSUME Kp14Type, NEW o \in Orders, NEW ok \in BOOLEAN, RunEnd(o, ok)
    PROVE  /\ Kp14Type' /\ an[o].at = "run" /\ an[o].name \in Secs
           /\ an[o].proj \in Secs
           /\ \/ /\ Moves(o, "ran") /\ UNCHANGED left
                 /\ out' = [out EXCEPT ![an[o].proj] =
                       @ \cup an[o].seen \cup Data(remote[an[o].name])]
              \/ /\ Moves(o, "end") /\ Leave(an[o].name) /\ UNCHANGED out
<1>0. /\ an[o].at = "run"
      /\ UNCHANGED <<up, now, crashes, disk, remote, iocs, overlap, latest, cut, dm>>
  BY DEF RunEnd, hostVars, iocVars
<1>1. \/ /\ Moves(o, "ran") /\ UNCHANGED left
         /\ out' = [out EXCEPT ![an[o].proj] =
               @ \cup an[o].seen \cup Data(remote[an[o].name])]
      \/ /\ Moves(o, "end") /\ Leave(an[o].name) /\ UNCHANGED out
  BY SetMoves DEF RunEnd, Activities, Copying
<1>2. /\ Named(o)' /\ an[o].name \in Secs /\ an[o].proj \in Secs
      /\ an[o].seen \subseteq Orders
  BY <1>0, <1>1, MovesTyped DEF Copying, Running
<1>3. /\ remote \in [Secs -> (SUBSET Orders) \cup {None}] /\ left \subseteq Secs
      /\ out \in [Secs -> SUBSET Orders]
  BY DEF Kp14Type, TypeOK
<1>4. PICK S \in SUBSET Orders : S = Data(remote[an[o].name])
  BY <1>2, <1>3, DataTyped
<1>5. out' \in [Secs -> SUBSET Orders] /\ left' \subseteq Secs
  <2>1. CASE UNCHANGED out
    BY <1>1, <1>2, <1>3, <2>1 DEF Leave
  <2>2. CASE UNCHANGED left /\ out' = [out EXCEPT ![an[o].proj] =
               @ \cup an[o].seen \cup Data(remote[an[o].name])]
    BY <1>2, <1>3, <1>4, <2>2
  <2> QED BY <1>1, <2>1, <2>2
<1>6. Steps(o)
  BY <1>1 DEF Moves
<1>7. Kp14Type'
  BY <1>0, <1>2, <1>5, <1>6, StepTyped DEF Kp14Type, TypeOK, Steps
<1> QED BY <1>0, <1>1, <1>2, <1>7

\* The results are read, or ssh cannot be run.
LEMMA ExtractTyped ==
    ASSUME Kp14Type, NEW o \in Orders, Extract(o)
    PROVE  /\ Kp14Type' /\ an[o].at = "ran"
           /\ an[o].name \in Secs /\ an[o].proj \in Secs
           /\ \/ /\ Steps(o) /\ an'[o].at \in {"pushed", "results"}
                 /\ an'[o].path = an[o].path /\ an'[o].name = an[o].name
                 /\ an'[o].proj = an[o].proj /\ UNCHANGED left
                 /\ an'[o].found \in {out[an[o].proj], {}}
              \/ Moves(o, "end") /\ Leave(an[o].name)
<1>0. /\ an \in [Orders -> Analyses] /\ Named(o)
      /\ out \in [Secs -> SUBSET Orders] /\ left \subseteq Secs
  BY DEF Kp14Type, TypeOK
<1>1. an[o] \in Analyses /\ an[o].at = "ran"
  BY <1>0 DEF Extract
<1>2. an[o].name \in Secs /\ an[o].proj \in Secs
  BY <1>0, <1>1 DEF Named, Analyses, Copying, Running
<1>3. UNCHANGED <<up, now, crashes, disk, remote, out, iocs, overlap, latest, cut, dm>>
  BY DEF Extract, hostVars, iocVars, vmVars
<1>4. CASE /\ \E S \in {out[an[o].proj], {}} :
                an' = [an EXCEPT
                          ![o].found = S,
                          ![o].at = IF S = {} THEN "pushed" ELSE "results"]
           /\ UNCHANGED left
  <2> PICK S \in {out[an[o].proj], {}} :
                an' = [an EXCEPT
                          ![o].found = S,
                          ![o].at = IF S = {} THEN "pushed" ELSE "results"]
    BY <1>4
  <2>1. S \in SUBSET Orders
    BY <1>0, <1>2
  <2>2. PICK at \in {"pushed", "results"} : at = IF S = {} THEN "pushed" ELSE "results"
    OBVIOUS
  <2>3. /\ an'[o] = [an[o] EXCEPT !.found = S, !.at = at]
        /\ \A n \in Orders \ {o} : an'[n] = an[n]
        /\ an'[o] \in Analyses /\ an' \in [Orders -> Analyses]
    BY <1>0, <1>1, <2>1, <2>2 DEF Analyses, Activities, Copying
  <2>4. /\ an'[o].at = at /\ an'[o].path = an[o].path
        /\ an'[o].name = an[o].name /\ an'[o].proj = an[o].proj
        /\ an'[o].found = S
    BY <1>1, <2>3 DEF Analyses
  <2>5. Named(o)'
    BY <1>0, <1>1, <1>2, <1>3, <2>2, <2>4, NoneAssumption
       DEF Named, Unnamed, Running, Copying
  <2>6. Kp14Type'
    BY <1>3, <1>4, <2>3, <2>5, StepTyped DEF Kp14Type, TypeOK, Steps
  <2> QED BY <1>1, <1>2, <1>4, <2>2, <2>3, <2>4, <2>6 DEF Steps
<1>5. CASE Set(o, "end") /\ Leave(an[o].name)
  <2>1. Moves(o, "end")
    BY <1>5, SetMoves DEF Activities
  <2>2. Named(o)' /\ Steps(o)
    BY <1>1, <1>3, <2>1, MovesTyped DEF Copying, Moves
  <2>3. left' \subseteq Secs
    BY <1>0, <1>2, <1>5 DEF Leave
  <2>4. Kp14Type'
    BY <1>3, <2>2, <2>3, StepTyped DEF Kp14Type, TypeOK, Steps
  <2> QED BY <1>1, <1>2, <1>5, <2>1, <2>4
<1> QED BY <1>4, <1>5 DEF Extract

Pushers == Orders \cup {Daemon}
IocTyped == /\ iocs \subseteq Whole(Pushers) /\ latest \subseteq Pushers
            /\ overlap \in BOOLEAN /\ cut \in BOOLEAN

\* What a push writes, all of it or its beginning.
LEMMA PushedTyped ==
    ASSUME IocTyped, NEW S \in SUBSET Pushers,
           \/ OpenFile(S) \/ WriteCut(S) \/ UNCHANGED iocVars
           \/ iocs' = iocs \cup Whole(S) /\ UNCHANGED <<overlap, latest, cut>>
    PROVE  IocTyped'
<1>1. iocs' \subseteq Whole(Pushers) /\ latest' \subseteq Pushers
  BY DEF IocTyped, OpenFile, WriteCut, iocVars, Whole, Heads
<1>2. overlap' \in BOOLEAN /\ cut' \in BOOLEAN
  <2>1. Pushing \in BOOLEAN
    BY DEF Pushing
  <2> QED BY <2>1 DEF IocTyped, OpenFile, WriteCut, iocVars
<1> QED BY <1>1, <1>2 DEF IocTyped

\* The push of an analysis and what comes after it.
LEMMA PushTyped ==
    ASSUME Kp14Type, NEW o \in Orders,
           \E ok \in BOOLEAN :
              PushStart(o, ok) \/ PushEnd(o, ok) \/ RemoveCopy(o, ok)
    PROVE  /\ Kp14Type' /\ an[o].name \in Secs
           /\ \/ (\E ok \in BOOLEAN : PushStart(o, ok)) /\ Moves(o, "push")
              \/ (\E ok \in BOOLEAN : PushEnd(o, ok)) /\ Moves(o, "pushed")
              \/ Moves(o, "end")
<1>0. /\ remote \in [Secs -> (SUBSET Orders) \cup {None}] /\ left \subseteq Secs
      /\ IocTyped
  BY DEF Kp14Type, TypeOK, IocTyped, Pushers
<1>1. UNCHANGED <<up, now, crashes, disk, out, dm>>
  BY DEF PushStart, PushEnd, RemoveCopy, hostVars, vmVars
<1>2. /\ an[o].at \in {"results", "push", "pushed"}
      /\ \/ (\E ok \in BOOLEAN : PushStart(o, ok)) /\ Moves(o, "push")
         \/ (\E ok \in BOOLEAN : PushEnd(o, ok)) /\ Moves(o, "pushed")
         \/ Moves(o, "end")
  BY SetMoves DEF PushStart, PushEnd, RemoveCopy, Activities, Copying
<1>3. /\ Named(o)' /\ an[o].name \in Secs /\ an[o].found \subseteq Orders /\ Steps(o)
  BY <1>1, <1>2, MovesTyped DEF Running, Copying, Moves
<1>4. remote' \in [Secs -> (SUBSET Orders) \cup {None}] /\ left' \subseteq Secs
  BY <1>0, <1>3 DEF PushStart, PushEnd, RemoveCopy, Leave, vmVars
<1>5. IocTyped'
  <2>1. an[o].found \in SUBSET Pushers
    BY <1>3 DEF Pushers
  <2> QED BY <1>0, <2>1, PushedTyped DEF PushStart, PushEnd, RemoveCopy
<1>6. Kp14Type'
  BY <1>1, <1>3, <1>4, <1>5, StepTyped
     DEF Kp14Type, TypeOK, Steps, IocTyped, Pushers
<1> QED BY <1>2, <1>3, <1>6

\* The daemon's push, the clock, the end of the process and its restart.
LEMMA LifeTyped ==
    ASSUME Kp14Type,
           \/ \E ok \in BOOLEAN : DaemonPushStart(ok) \/ DaemonPushEnd(ok)
           \/ Tick \/ Crash \/ Restart \/ UNCHANGED vars
    PROVE  Kp14Type'
<1>0. /\ an \in [Orders -> Analyses] /\ (\A o \in Orders : Named(o))
      /\ now \in Secs /\ crashes \in 0..MaxCrashes /\ up \in BOOLEAN
      /\ left \subseteq Secs /\ dm \in {"idle", "push", "end"} /\ IocTyped
  BY DEF Kp14Type, TypeOK, IocTyped, Pushers
<1>1. CASE \E ok \in BOOLEAN : DaemonPushStart(ok) \/ DaemonPushEnd(ok)
  <2>1. UNCHANGED <<up, now, crashes, disk, an, remote, out, left>>
    BY <1>1 DEF DaemonPushStart, DaemonPushEnd, hostVars, vmVars
  <2>2. dm' \in {"idle", "push", "end"}
    BY <1>1 DEF DaemonPushStart, DaemonPushEnd
  <2>3. IocTyped'
    <3>1. {Daemon} \in SUBSET Pushers
      BY DEF Pushers
    <3> QED BY <1>0, <1>1, <3>1, PushedTyped DEF DaemonPushStart, DaemonPushEnd
  <2> QED BY <2>1, <2>2, <2>3 DEF Kp14Type, TypeOK, Named, IocTyped, Pushers
<1>2. CASE Tick \/ Restart
  <2>1. /\ UNCHANGED <<crashes, disk, an, remote, out, iocs, overlap, latest, cut, dm,
                       left>>
        /\ now' = now + 1 /\ now < MaxTime
    BY <1>2 DEF Tick, Restart, vmVars, iocVars
  <2>2. now' \in Secs
    BY <1>0, <2>1, Kp14Bounds DEF Secs
  <2>3. up' \in BOOLEAN
    BY <1>0, <1>2, Zenon DEF Tick, Restart
  <2> QED BY <2>1, <2>2, <2>3 DEF Kp14Type, TypeOK, Named
<1>3. CASE Crash
  <2>1. UNCHANGED <<now, disk, remote, out>>
    BY <1>3 DEF Crash, vmVars
  <2>2. \A o \in Orders :
           /\ an'[o] \in Analyses
           /\ an'[o].at = IF an[o].at = "none" THEN "none" ELSE "end"
           /\ an'[o].path = an[o].path /\ an'[o].name = an[o].name
           /\ an'[o].proj = an[o].proj /\ an'[o].found = an[o].found
    <3> SUFFICES ASSUME NEW o \in Orders
                 PROVE  /\ an'[o] \in Analyses
                        /\ an'[o].at = IF an[o].at = "none" THEN "none" ELSE "end"
                        /\ an'[o].path = an[o].path /\ an'[o].name = an[o].name
                        /\ an'[o].proj = an[o].proj /\ an'[o].found = an[o].found
      OBVIOUS
    <3>1. /\ an[o] \in Analyses
          /\ an'[o] = IF an[o].at = "none" THEN an[o]
                      ELSE [an[o] EXCEPT !.at = "end", !.seen = {}]
      BY <1>0, <1>3 DEF Crash
    <3> QED BY <3>1 DEF Analyses, Activities
  <2>3. an' \in [Orders -> Analyses]
    BY <1>3, <2>2 DEF Crash
  <2>4. \A o \in Orders : Named(o)'
    BY <1>0, <2>1, <2>2 DEF Named, Unnamed, Copying, Running
  <2>5. left' \subseteq Secs
    <3>1. \A n \in Orders : an[n].at \in Copying => an[n].name \in Secs
      BY <1>0 DEF Named, Analyses
    <3> QED BY <1>0, <1>3, <3>1 DEF Crash
  <2>6. crashes' \in 0..MaxCrashes
    <3>1. /\ crashes \in 0..MaxCrashes /\ MaxCrashes \in Nat
          /\ crashes < MaxCrashes /\ crashes' = crashes + 1
      BY <1>0, <1>3, Kp14Bounds DEF Crash
    <3> QED BY <3>1
  <2>7. up' \in BOOLEAN
    BY <1>3, Zenon DEF Crash
  <2>8. IocTyped' /\ dm' \in {"idle", "push", "end"}
    <3>1. Writing \in SUBSET Pushers
      BY DEF Writing, Pushers
    <3> QED BY <1>0, <1>3, <3>1, PushedTyped DEF Crash
  <2>9. \A o \in Orders : an'[o].at \notin Copying
    BY <2>2 DEF Copying
  <2> QED BY <2>1, <2>2, <2>3, <2>4, <2>5, <2>6, <2>7, <2>8, <2>9
          DEF Kp14Type, TypeOK, Analyses, IocTyped, Pushers
<1>4. CASE UNCHANGED vars
  BY <1>4 DEF vars, hostVars, vmVars, iocVars, Kp14Type, TypeOK, Named
<1> QED BY <1>1, <1>2, <1>3, <1>4

\* One step per action.
LEMMA Kp14TypeStep ==
    ASSUME Kp14Type, [Next]_vars
    PROVE  Kp14Type'
BY CarveTyped, ScpStartTyped, ScpEndTyped, RunStartTyped, RunEndTyped, ExtractTyped,
   PushTyped, LifeTyped
   DEF Next, AnalysisStep

\* There is neither a file nor an analysis at first.
LEMMA Kp14TypeInit == Init => Kp14Type
<1> SUFFICES ASSUME Init PROVE Kp14Type
  OBVIOUS
<1>1. New \in Analyses /\ New.at = "none" /\ New.path = None /\ New.name = None
      /\ New.proj = None /\ New.found = {}
  BY DEF New, Analyses, Activities
<1>2. an \in [Orders -> Analyses] /\ \A o \in Orders : an[o] = New
  BY <1>1 DEF Init
<1>3. \A o \in Orders : Named(o)
  BY <1>1, <1>2 DEF Named, Unnamed, Copying, Running
<1>4. /\ up \in BOOLEAN /\ overlap \in BOOLEAN /\ cut \in BOOLEAN
  BY Zenon DEF Init
<1>5. now \in Secs /\ crashes \in 0..MaxCrashes
  BY Kp14Bounds DEF Init, Secs
<1>6. \A o \in Orders : an[o].at \notin Copying /\ an[o] \in Analyses
  BY <1>1, <1>2 DEF Copying
<1>7. /\ disk \in [Pids \X Secs -> (SUBSET Orders) \cup {None}]
      /\ remote \in [Secs -> (SUBSET Orders) \cup {None}]
      /\ out \in [Secs -> SUBSET Orders]
  BY DEF Init
<1> QED BY <1>2, <1>3, <1>4, <1>5, <1>6, <1>7 DEF Init, Kp14Type, TypeOK, Analyses

\* For every number of orders, PIDs and seconds: an analysis that has a copy on
\* the VM has a blob on the disk, and names are seconds of the clock.
THEOREM Kp14TypeCorrect == Spec => []TypeOK
<1>1. Kp14Type => TypeOK
  BY DEF Kp14Type
<1> QED BY <1>1, Kp14TypeInit, Kp14TypeStep, PTL DEF Spec

-----------------------------------------------------------------------------
(***************************************************************************)
(* Whose results an analysis reports.                                      *)
(***************************************************************************)

\* Nobody else has the name of the blob, the copy, the project of order o.
OwnPath(o) == an[o].path # None /\ \A n \in Orders \ {o} : an[n].path # an[o].path
OwnName(o) == an[o].name # None /\ \A n \in Orders \ {o} : an[n].name # an[o].name
OwnProj(o) == an[o].proj # None /\ \A n \in Orders \ {o} : an[n].proj # an[o].proj

\* What the blob, the copy and the results of an order hold while nobody else
\* has their names.
Own(o) ==
    /\ an[o].at \in {"ready"} \cup Copying /\ OwnPath(o) => disk[an[o].path] = {o}
    /\ an[o].at = "scp" /\ OwnPath(o) => an[o].seen \subseteq {o}
    /\ an[o].at = "scp" /\ OwnName(o) => remote[an[o].name] = {}
    /\ an[o].at \in Copying \ {"scp"} /\ OwnPath(o) /\ OwnName(o)
          => remote[an[o].name] = {o}
    /\ an[o].at = "run" /\ OwnPath(o) /\ OwnName(o) => an[o].seen \subseteq {o}
    /\ OwnPath(o) /\ OwnName(o) /\ OwnProj(o)
          => out[an[o].proj] \subseteq {o} /\ an[o].found \subseteq {o}

\* The same for all orders; and a project that nobody has started is empty.
Started(t) == \E o \in Orders : an[o].proj = t
OwnInv == /\ \A o \in Orders : Own(o)
          /\ \A t \in Secs : out[t] # {} => Started(t)

\* The step of another order n takes nothing from order o but a name.
LEMMA OthersOwn ==
    ASSUME Kp14Type, Kp14Type', NEW o \in Orders, Own(o),
           NEW n \in Orders \ {o}, Steps(n),
           an'[n].path = an[n].path \/ an[n].path = None,
           an'[n].name = an[n].name \/ an[n].name = None,
           an'[n].proj = an[n].proj \/ an[n].proj = None,
           \A f \in Pids \X Secs : f # an'[n].path => disk'[f] = disk[f],
           \A t \in Secs : t # an'[n].name => remote'[t] = remote[t],
           \A t \in Secs : t # an'[n].proj => out'[t] = out[t]
    PROVE  Own(o)'
<1>1. /\ an'[o] = an[o] /\ an[o] \in Analyses
      /\ \A m \in Orders \ {n} : an'[m] = an[m]
  BY DEF Steps, Kp14Type
<1>2. /\ an[o].path \in (Pids \X Secs) \cup {None}
      /\ an[o].name \in Secs \cup {None} /\ an[o].proj \in Secs \cup {None}
  BY <1>1 DEF Analyses
<1>3. OwnPath(o)' => OwnPath(o) /\ disk'[an[o].path] = disk[an[o].path]
  BY <1>1, <1>2 DEF OwnPath
<1>4. OwnName(o)' => OwnName(o) /\ remote'[an[o].name] = remote[an[o].name]
  BY <1>1, <1>2 DEF OwnName
<1>5. OwnProj(o)' => OwnProj(o) /\ out'[an[o].proj] = out[an[o].proj]
  BY <1>1, <1>2 DEF OwnProj
<1> QED BY <1>1, <1>3, <1>4, <1>5 DEF Own

\* A step of order o that keeps its names keeps them its own.
LEMMA KeepsOwn ==
    ASSUME NEW o \in Orders, Steps(o), an'[o].path = an[o].path,
           an'[o].name = an[o].name, an'[o].proj = an[o].proj
    PROVE  /\ OwnPath(o)' <=> OwnPath(o)
           /\ OwnName(o)' <=> OwnName(o)
           /\ OwnProj(o)' <=> OwnProj(o)
BY DEF Steps, OwnPath, OwnName, OwnProj

\* The fields of an analysis that is being carved.
LEMMA CarveMoves ==
    ASSUME Kp14Type, NEW o \in Orders
    PROVE  /\ \A p \in Pids : CarveStart(o, p) =>
                 /\ an[o].at = "none" /\ an'[o].at = "carve"
                 /\ an'[o].path = <<p, now>> /\ an'[o].name = an[o].name
                 /\ an'[o].proj = an[o].proj /\ an'[o].found = an[o].found
           /\ \A ok \in BOOLEAN : CarveEnd(o, ok) =>
                 /\ an[o].at = "carve"
                 /\ \/ /\ Moves(o, "ready")
                       /\ disk' = [disk EXCEPT ![an[o].path] = {o}]
                    \/ Moves(o, "end") /\ UNCHANGED disk
<1>1. an \in [Orders -> Analyses] /\ an[o] \in Analyses
  BY DEF Kp14Type
<1>2. \A p \in Pids : CarveStart(o, p) =>
         /\ an[o].at = "none" /\ an'[o].at = "carve"
         /\ an'[o].path = <<p, now>> /\ an'[o].name = an[o].name
         /\ an'[o].proj = an[o].proj /\ an'[o].found = an[o].found
  BY <1>1 DEF CarveStart, Analyses
<1>3. \A ok \in BOOLEAN : CarveEnd(o, ok) =>
         /\ an[o].at = "carve"
         /\ \/ /\ Moves(o, "ready")
               /\ disk' = [disk EXCEPT ![an[o].path] = {o}]
            \/ Moves(o, "end") /\ UNCHANGED disk
  BY SetMoves DEF CarveEnd, Activities
<1> QED BY <1>2, <1>3

\* A blob is its own order's when it is written.
LEMMA CarveOwn ==
    ASSUME Kp14Type, Kp14Type', OwnInv, NEW o \in Orders, Steps(o),
           \/ \E p \in Pids : CarveStart(o, p)
           \/ \E ok \in BOOLEAN : CarveEnd(o, ok)
    PROVE  OwnInv'
<1>0. /\ an \in [Orders -> Analyses] /\ an[o] \in Analyses /\ Named(o)
      /\ disk \in [Pids \X Secs -> (SUBSET Orders) \cup {None}]
      /\ UNCHANGED <<remote, out>>
  BY DEF Kp14Type, TypeOK, CarveStart, CarveEnd, vmVars
<1>1. /\ an[o].at \in {"none", "carve"} /\ an'[o].at \in {"carve", "ready", "end"}
      /\ an'[o].name = an[o].name /\ an'[o].proj = an[o].proj
      /\ an'[o].found = an[o].found
      /\ an'[o].path = an[o].path \/ an[o].path = None
  <2>1. CASE \E p \in Pids : CarveStart(o, p)
    BY <1>0, <2>1, CarveMoves DEF Named
  <2>2. CASE \E ok \in BOOLEAN : CarveEnd(o, ok)
    BY <2>2, CarveMoves DEF Moves
  <2> QED BY <2>1, <2>2
<1>2. an[o].name = None /\ an[o].proj = None
  BY <1>0, <1>1 DEF Named, Unnamed
<1>3. \A f \in Pids \X Secs : f # an'[o].path => disk'[f] = disk[f]
  <2>1. CASE \E p \in Pids : CarveStart(o, p)
    <3>1. \E p \in Pids : /\ an'[o].path = <<p, now>>
                          /\ disk' = [disk EXCEPT ![<<p, now>>] = {}]
      BY <2>1, CarveMoves DEF CarveStart
    <3> QED BY <1>0, <3>1
  <2>2. CASE \E ok \in BOOLEAN : CarveEnd(o, ok)
    <3>1. /\ an'[o].path = an[o].path
          /\ disk' = [disk EXCEPT ![an[o].path] = {o}] \/ UNCHANGED disk
      BY <2>2, CarveMoves DEF Moves
    <3> QED BY <1>0, <3>1
  <2> QED BY <2>1, <2>2
<1>4. \A n \in Orders \ {o} : Own(n)'
  BY <1>0, <1>1, <1>3, OthersOwn DEF OwnInv
<1>5. Own(o)'
  <2>1. ~OwnName(o)' /\ ~OwnProj(o)' /\ an'[o].at \notin Copying
    BY <1>1, <1>2 DEF OwnName, OwnProj, Copying
  <2>2. an'[o].at = "ready" => disk'[an'[o].path] = {o}
    <3> SUFFICES ASSUME an'[o].at = "ready" PROVE disk'[an'[o].path] = {o}
      OBVIOUS
    <3>1. /\ an[o].at = "carve" /\ an'[o].path = an[o].path
          /\ disk' = [disk EXCEPT ![an[o].path] = {o}]
      BY CarveMoves DEF Moves
    <3>2. an[o].path \in Pids \X Secs
      BY <1>0, <3>1 DEF Named, Analyses
    <3> QED BY <1>0, <3>1, <3>2
  <2> QED BY <2>1, <2>2 DEF Own, Copying
<1>6. \A t \in Secs : Started(t) => Started(t)'
  BY <1>1 DEF Started, Steps
<1> QED BY <1>0, <1>4, <1>5, <1>6 DEF OwnInv

\* The copy is empty at first, whatever it was before.
LEMMA ScpStartOwn ==
    ASSUME Kp14Type, Kp14Type', OwnInv, NEW o \in Orders, ScpStart(o)
    PROVE  OwnInv'
<1>0. /\ an[o] \in Analyses /\ Named(o) /\ an[o].at = "ready" /\ now \in Secs
      /\ remote \in [Secs -> (SUBSET Orders) \cup {None}]
      /\ remote' = [remote EXCEPT ![now] = {}] /\ UNCHANGED <<disk, out>>
  BY DEF Kp14Type, TypeOK, ScpStart, hostVars
<1>1. /\ Steps(o) /\ an'[o].at = "scp" /\ an'[o].path = an[o].path
      /\ an'[o].name = now /\ an'[o].proj = None
      /\ an'[o].seen = Data(disk[an[o].path])
  BY ScpStartTyped
<1>2. an[o].name = None /\ an[o].proj = None
  BY <1>0 DEF Named, Unnamed
<1>3. \A t \in Secs : t # an'[o].name => remote'[t] = remote[t]
  BY <1>0, <1>1
<1>4. \A n \in Orders \ {o} : Own(n)'
  BY <1>0, <1>1, <1>2, <1>3, OthersOwn DEF OwnInv
<1>5. Own(o)'
  <2>1. remote'[an'[o].name] = {} /\ ~OwnProj(o)'
    BY <1>0, <1>1 DEF OwnProj
  <2>2. OwnPath(o)' => OwnPath(o)
    BY <1>1 DEF OwnPath, Steps
  <2>3. OwnPath(o) => disk[an[o].path] = {o}
    BY <1>0 DEF OwnInv, Own
  <2>4. {o} # None
    BY NoneAssumption
  <2> QED BY <1>0, <1>1, <2>1, <2>2, <2>3, <2>4 DEF Own, Data, Copying
<1>6. \A t \in Secs : Started(t) => Started(t)'
  BY <1>1, <1>2 , NoneAssumption DEF Started, Steps
<1> QED BY <1>0, <1>4, <1>5, <1>6 DEF OwnInv

\* The copy holds what was read of the blob, before and after.
LEMMA ScpEndOwn ==
    ASSUME Kp14Type, Kp14Type', OwnInv, NEW o \in Orders, NEW ok \in BOOLEAN,
           ScpEnd(o, ok)
    PROVE  OwnInv'
<1>0. /\ an[o].at = "scp" /\ an[o].name \in Secs /\ Own(o) /\ Named(o)
      /\ remote \in [Secs -> (SUBSET Orders) \cup {None}]
      /\ UNCHANGED <<disk, out>> /\ {} # None /\ {o} # None
  BY ScpEndTyped, NoneAssumption DEF Kp14Type, TypeOK, OwnInv, ScpEnd, hostVars
<1>1. \/ /\ Moves(o, "copied")
         /\ remote' = [remote EXCEPT ![an[o].name] =
               IF @ = None THEN None
               ELSE @ \cup an[o].seen \cup Data(disk[an[o].path])]
      \/ /\ Moves(o, "end") /\ UNCHANGED remote
  BY ScpEndTyped
<1>2. /\ Steps(o) /\ an'[o].path = an[o].path /\ an'[o].name = an[o].name
      /\ an'[o].proj = an[o].proj /\ an'[o].found = an[o].found
  BY <1>1 DEF Moves
<1>3. \A t \in Secs : t # an'[o].name => remote'[t] = remote[t]
  BY <1>0, <1>1, <1>2
<1>4. \A n \in Orders \ {o} : Own(n)'
  BY <1>0, <1>2, <1>3, OthersOwn DEF OwnInv
<1>5. Own(o)'
  <2>1. /\ OwnPath(o)' <=> OwnPath(o)
        /\ OwnName(o)' <=> OwnName(o)
        /\ OwnProj(o)' <=> OwnProj(o)
    BY <1>2, KeepsOwn
  <2>2. an[o].proj = None
    BY <1>0 DEF Named
  <2>3. CASE Moves(o, "end")
    BY <1>2, <2>1, <2>2, <2>3 DEF Own, Moves, Copying, OwnProj
  <2>4. CASE /\ Moves(o, "copied")
             /\ remote' = [remote EXCEPT ![an[o].name] =
                   IF @ = None THEN None
                   ELSE @ \cup an[o].seen \cup Data(disk[an[o].path])]
    <3>1. OwnPath(o) => disk[an[o].path] = {o} /\ an[o].seen \subseteq {o}
      BY <1>0 DEF Own, Copying
    <3>2. OwnName(o) => remote[an[o].name] = {}
      BY <1>0 DEF Own
    <3>3. OwnPath(o) /\ OwnName(o) => remote'[an[o].name] = {o}
      BY <1>0, <2>4, <3>1, <3>2 DEF Data
    <3> QED BY <1>0, <1>2, <2>1, <2>2, <2>4, <3>1, <3>3 DEF Own, Moves, OwnProj
  <2> QED BY <1>1, <2>3, <2>4
<1>6. \A t \in Secs : Started(t) => Started(t)'
  BY <1>2 DEF Started, Steps
<1> QED BY <1>0, <1>4, <1>5, <1>6 DEF OwnInv

\* A project that nobody has started is empty.
LEMMA RunStartOwn ==
    ASSUME Kp14Type, Kp14Type', OwnInv, NEW o \in Orders, RunStart(o)
    PROVE  OwnInv'
<1>0. /\ Named(o) /\ Own(o) /\ now \in Secs /\ {o} # None
      /\ UNCHANGED <<disk, remote, out>>
  BY NoneAssumption DEF Kp14Type, TypeOK, OwnInv, RunStart, hostVars, vmVars
<1>1. /\ Steps(o) /\ an[o].at = "copied" /\ an[o].name \in Secs /\ an[o].proj = None
      /\ an'[o].at = "run" /\ an'[o].path = an[o].path
      /\ an'[o].name = an[o].name /\ an'[o].proj = now
      /\ an'[o].seen = Data(remote[an[o].name]) /\ an'[o].found = an[o].found
  BY RunStartTyped
<1>2. \A n \in Orders \ {o} : Own(n)'
  BY <1>0, <1>1, OthersOwn DEF OwnInv
<1>3. Own(o)'
  <2>1. (OwnPath(o)' <=> OwnPath(o)) /\ (OwnName(o)' <=> OwnName(o))
    BY <1>1 DEF Steps, OwnPath, OwnName
  <2>2. OwnProj(o)' => out[now] = {}
    <3>1. OwnProj(o)' => ~Started(now)
      BY <1>0, <1>1, NoneAssumption DEF OwnProj, Started, Steps
    <3> QED BY <1>0, <3>1 DEF OwnInv
  <2>3. an[o].found = {}
    BY <1>0, <1>1 DEF Named
  <2>4. /\ OwnPath(o) => disk[an[o].path] = {o}
        /\ OwnPath(o) /\ OwnName(o) => remote[an[o].name] = {o}
    BY <1>0, <1>1 DEF Own, Copying
  <2> QED BY <1>0, <1>1, <2>1, <2>2, <2>3, <2>4 DEF Own, Data
<1>4. \A t \in Secs : Started(t) => Started(t)'
  BY <1>1, NoneAssumption DEF Started, Steps
<1> QED BY <1>0, <1>2, <1>3, <1>4 DEF OwnInv

\* The project gets what was read of the copy, before and after.
LEMMA RunEndOwn ==
    ASSUME Kp14Type, Kp14Type', OwnInv, NEW o \in Orders, NEW ok \in BOOLEAN,
           RunEnd(o, ok)
    PROVE  OwnInv'
<1>0. /\ an[o].at = "run" /\ an[o].name \in Secs /\ an[o].proj \in Secs /\ Own(o)
      /\ out \in [Secs -> SUBSET Orders] /\ {o} # None
      /\ UNCHANGED <<disk, remote>>
  BY RunEndTyped, NoneAssumption DEF Kp14Type, TypeOK, OwnInv, RunEnd, hostVars
<1>1. \/ /\ Moves(o, "ran")
         /\ out' = [out EXCEPT ![an[o].proj] =
               @ \cup an[o].seen \cup Data(remote[an[o].name])]
      \/ Moves(o, "end") /\ UNCHANGED out
  BY RunEndTyped
<1>2. /\ Steps(o) /\ an'[o].path = an[o].path /\ an'[o].name = an[o].name
      /\ an'[o].proj = an[o].proj /\ an'[o].found = an[o].found
  BY <1>1 DEF Moves
<1>3. \A t \in Secs : t # an'[o].proj => out'[t] = out[t]
  BY <1>0, <1>1, <1>2
<1>4. \A n \in Orders \ {o} : Own(n)'
  BY <1>0, <1>2, <1>3, OthersOwn DEF OwnInv
<1>5. Own(o)'
  <2>1. /\ OwnPath(o)' <=> OwnPath(o)
        /\ OwnName(o)' <=> OwnName(o)
        /\ OwnProj(o)' <=> OwnProj(o)
    BY <1>2, KeepsOwn
  <2>2. CASE Moves(o, "end") /\ UNCHANGED out
    BY <1>0, <1>2, <2>1, <2>2 DEF Own, Moves, Copying
  <2>3. CASE /\ Moves(o, "ran")
             /\ out' = [out EXCEPT ![an[o].proj] =
                   @ \cup an[o].seen \cup Data(remote[an[o].name])]
    <3>1. /\ OwnPath(o) => disk[an[o].path] = {o}
          /\ OwnPath(o) /\ OwnName(o)
                => remote[an[o].name] = {o} /\ an[o].seen \subseteq {o}
          /\ OwnPath(o) /\ OwnName(o) /\ OwnProj(o)
                => out[an[o].proj] \subseteq {o} /\ an[o].found \subseteq {o}
      BY <1>0 DEF Own, Copying
    <3>2. OwnPath(o) /\ OwnName(o) /\ OwnProj(o) => out'[an[o].proj] \subseteq {o}
      BY <1>0, <2>3, <3>1 DEF Data
    <3> QED BY <1>0, <1>2, <2>1, <2>3, <3>1, <3>2 DEF Own, Moves
  <2> QED BY <1>1, <2>2, <2>3
<1>6. \A t \in Secs : out'[t] # {} => Started(t)'
  BY <1>2, <1>3 DEF OwnInv, Started, Steps
<1> QED BY <1>4, <1>5, <1>6 DEF OwnInv

\* The results are those of the project, or none.
LEMMA ExtractOwn ==
    ASSUME Kp14Type, Kp14Type', OwnInv, NEW o \in Orders, Extract(o)
    PROVE  OwnInv'
<1>0. /\ an[o].at = "ran" /\ Own(o) /\ UNCHANGED <<disk, remote, out>>
  BY DEF OwnInv, Extract, hostVars, vmVars
<1>1. /\ Steps(o) /\ an'[o].at \in {"pushed", "results", "end"}
      /\ an'[o].path = an[o].path /\ an'[o].name = an[o].name
      /\ an'[o].proj = an[o].proj
      /\ an'[o].found \in {out[an[o].proj], {}, an[o].found}
  BY ExtractTyped DEF Moves
<1>2. \A n \in Orders \ {o} : Own(n)'
  BY <1>0, <1>1, OthersOwn DEF OwnInv
<1>3. Own(o)'
  <2>1. /\ OwnPath(o)' <=> OwnPath(o)
        /\ OwnName(o)' <=> OwnName(o)
        /\ OwnProj(o)' <=> OwnProj(o)
    BY <1>1, KeepsOwn
  <2>2. /\ OwnPath(o) => disk[an[o].path] = {o}
        /\ OwnPath(o) /\ OwnName(o) => remote[an[o].name] = {o}
        /\ OwnPath(o) /\ OwnName(o) /\ OwnProj(o)
              => out[an[o].proj] \subseteq {o} /\ an[o].found \subseteq {o}
    BY <1>0 DEF Own, Copying
  <2> QED BY <1>0, <1>1, <2>1, <2>2 DEF Own
<1>4. \A t \in Secs : Started(t) => Started(t)'
  BY <1>1 DEF Started, Steps
<1> QED BY <1>0, <1>2, <1>3, <1>4 DEF OwnInv

\* The copy is removed only by the analysis that made it.
LEMMA PushOwn ==
    ASSUME Kp14Type, Kp14Type', OwnInv, NEW o \in Orders,
           \E ok \in BOOLEAN :
              PushStart(o, ok) \/ PushEnd(o, ok) \/ RemoveCopy(o, ok)
    PROVE  OwnInv'
<1>0. /\ an[o].at \in {"results", "push", "pushed"} /\ Own(o) /\ UNCHANGED <<disk, out>>
      /\ an[o].name \in Secs /\ remote \in [Secs -> (SUBSET Orders) \cup {None}]
  BY PushTyped DEF Kp14Type, TypeOK, OwnInv, PushStart, PushEnd, RemoveCopy,
                   hostVars, vmVars
<1>1. /\ Steps(o) /\ an'[o].path = an[o].path /\ an'[o].name = an[o].name
      /\ an'[o].proj = an[o].proj /\ an'[o].found = an[o].found
      /\ \/ an'[o].at \in {"push", "pushed"} /\ UNCHANGED remote
         \/ an'[o].at = "end"
  <2>1. CASE \E ok \in BOOLEAN : RemoveCopy(o, ok)
    <3>1. Moves(o, "end")
      BY <2>1, SetMoves DEF RemoveCopy, Activities
    <3> QED BY <3>1 DEF Moves
  <2>2. CASE \E ok \in BOOLEAN : PushStart(o, ok) \/ PushEnd(o, ok)
    <3>1. UNCHANGED remote /\ \E at \in {"push", "pushed", "end"} : Moves(o, at)
      BY <2>2, PushTyped DEF PushStart, PushEnd, vmVars
    <3> QED BY <3>1 DEF Moves
  <2> QED BY <2>1, <2>2
<1>2. \A t \in Secs : t # an'[o].name => remote'[t] = remote[t]
  BY <1>0, <1>1 DEF PushStart, PushEnd, RemoveCopy, vmVars
<1>3. \A n \in Orders \ {o} : Own(n)'
  BY <1>0, <1>1, <1>2, OthersOwn DEF OwnInv
<1>4. Own(o)'
  <2>1. /\ OwnPath(o)' <=> OwnPath(o)
        /\ OwnName(o)' <=> OwnName(o)
        /\ OwnProj(o)' <=> OwnProj(o)
    BY <1>1, KeepsOwn
  <2>2. /\ OwnPath(o) => disk[an[o].path] = {o}
        /\ OwnPath(o) /\ OwnName(o) => remote[an[o].name] = {o}
        /\ OwnPath(o) /\ OwnName(o) /\ OwnProj(o)
              => out[an[o].proj] \subseteq {o} /\ an[o].found \subseteq {o}
    BY <1>0 DEF Own, Copying
  <2> QED BY <1>0, <1>1, <2>1, <2>2 DEF Own, Copying
<1>5. \A t \in Secs : Started(t) => Started(t)'
  BY <1>1 DEF Started, Steps
<1> QED BY <1>0, <1>3, <1>4, <1>5 DEF OwnInv

\* What the end of the process leaves of an analysis.
LEMMA CrashEnds ==
    ASSUME Kp14Type, Crash, NEW o \in Orders
    PROVE  /\ an'[o].at = IF an[o].at = "none" THEN "none" ELSE "end"
           /\ an'[o].path = an[o].path /\ an'[o].name = an[o].name
           /\ an'[o].proj = an[o].proj /\ an'[o].found = an[o].found
<1>1. /\ an[o] \in Analyses
      /\ an'[o] = IF an[o].at = "none" THEN an[o]
                  ELSE [an[o] EXCEPT !.at = "end", !.seen = {}]
  BY DEF Kp14Type, Crash
<1> QED BY <1>1 DEF Analyses

\* Nothing on the disk or on the VM changes with the agent's life.
LEMMA LifeOwn ==
    ASSUME Kp14Type, OwnInv,
           \/ \E ok \in BOOLEAN : DaemonPushStart(ok) \/ DaemonPushEnd(ok)
           \/ Tick \/ Crash \/ Restart \/ UNCHANGED vars
    PROVE  OwnInv'
<1>1. CASE Crash
  <2>1. UNCHANGED <<disk, remote, out>>
    BY <1>1 DEF Crash, vmVars
  <2>2. \A o \in Orders :
           /\ an'[o].at = IF an[o].at = "none" THEN "none" ELSE "end"
           /\ an'[o].path = an[o].path /\ an'[o].name = an[o].name
           /\ an'[o].proj = an[o].proj /\ an'[o].found = an[o].found
    BY <1>1, CrashEnds
  <2>3. \A o \in Orders : Own(o)'
    BY <2>1, <2>2 DEF OwnInv, Own, OwnPath, OwnName, OwnProj, Copying
  <2> QED BY <2>1, <2>2, <2>3 DEF OwnInv, Started
<1>2. CASE UNCHANGED <<disk, an, remote, out>>
  BY <1>2 DEF OwnInv, Own, OwnPath, OwnName, OwnProj, Started
<1> QED BY <1>1, <1>2
        DEF DaemonPushStart, DaemonPushEnd, Tick, Restart, vars, hostVars, vmVars

\* One step per action.
LEMMA OwnStep ==
    ASSUME Kp14Type, OwnInv, [Next]_vars
    PROVE  OwnInv'
<1>1. Kp14Type'
  BY Kp14TypeStep
<1>2. CASE \E o \in Orders : \/ \E p \in Pids : CarveStart(o, p)
                             \/ \E ok \in BOOLEAN : CarveEnd(o, ok)
  BY <1>1, <1>2, CarveTyped, CarveOwn
<1> QED BY <1>1, <1>2, ScpStartOwn, ScpEndOwn, RunStartOwn, RunEndOwn, ExtractOwn,
           PushOwn, LifeOwn
        DEF Next, AnalysisStep

\* Nobody has a name at first.
LEMMA OwnInit == Init => OwnInv
BY DEF Init, New, OwnInv, Own, OwnPath, OwnName, OwnProj, Copying

\* Without a clash the names of an analysis are its own as soon as it has them.
LEMMA NoClash ==
    ASSUME NEW o \in Orders, ~SharesCopy(o)
    PROVE  /\ an[o].path # None => OwnPath(o)
           /\ an[o].name # None => OwnName(o)
           /\ ~Clash(o) /\ an[o].proj # None => OwnProj(o)
BY DEF SharesCopy, Clash, OwnPath, OwnName, OwnProj

\* For every number of orders: what an analysis reports comes from its own
\* carve, unless another order got the same name for its blob, copy or project.
THEOREM ResultsAreOwn == Spec => []OwnResults
<1>1. Kp14Type /\ OwnInv => OwnResults
  <2> SUFFICES ASSUME Kp14Type, OwnInv, NEW o \in Orders, ~Clash(o),
                      an[o].found # {}
               PROVE  an[o].found \subseteq {o}
    BY DEF OwnResults
  <2>1. an[o].path # None /\ an[o].name # None /\ an[o].proj # None
    BY DEF Kp14Type, Named
  <2> QED BY <2>1, NoClash DEF Clash, OwnInv, Own
<1> QED BY <1>1, Kp14TypeInit, Kp14TypeStep, OwnInit, OwnStep, PTL DEF Spec

-----------------------------------------------------------------------------
(***************************************************************************)
(* The copies on the VM.                                                   *)
(***************************************************************************)
WorkedOn(t) == \E o \in Orders : an[o].name = t /\ an[o].at \in Copying

\* A copy that no analysis works on any more was left there.
CopyInv == \A t \in Secs : remote[t] # None => WorkedOn(t) \/ t \in left

\* The step of an analysis leaves at most its own copy.
LEMMA StepCopies ==
    ASSUME Kp14Type, CopyInv, NEW o \in Orders, Steps(o),
           \A t \in Secs : t # an'[o].name => remote'[t] = remote[t],
           \A t \in Secs : t \in left /\ remote'[t] # None => t \in left',
           an'[o].name = an[o].name \/ an[o].name = None,
           \/ an'[o].at \in Copying
           \/ an'[o].at \in Unnamed \cup {"end"} /\ an[o].at \in Unnamed
                /\ UNCHANGED remote
           \/ an'[o].name \in left'
           \/ remote'[an'[o].name] = None
    PROVE  CopyInv'
<1> SUFFICES ASSUME NEW t \in Secs, remote'[t] # None, t \notin left'
             PROVE  \E n \in Orders : an'[n].name = t /\ an'[n].at \in Copying
  BY DEF CopyInv, WorkedOn
<1>1. an'[o] \in Analyses /\ \A n \in Orders \ {o} : an'[n] = an[n]
  BY DEF Steps
<1>2. CASE t # an'[o].name
  <2>1. \E n \in Orders : an[n].name = t /\ an[n].at \in Copying
    BY <1>2 DEF CopyInv, WorkedOn
  <2> QED BY <1>1, <1>2, <2>1, NoneAssumption
<1>3. CASE t = an'[o].name /\ an'[o].at \notin Copying
  <2>1. an[o].at \in Unnamed /\ UNCHANGED remote
    BY <1>3
  <2>2. \E n \in Orders : an[n].name = t /\ an[n].at \in Copying
    BY <2>1 DEF CopyInv, WorkedOn
  <2>3. an[o].at \notin Copying
    BY <2>1 DEF Unnamed, Copying
  <2> QED BY <1>1, <2>2, <2>3
<1>4. CASE t = an'[o].name /\ an'[o].at \in Copying
  BY <1>4
<1> QED BY <1>2, <1>3, <1>4

\* One step per action.
LEMMA CopyStep ==
    ASSUME Kp14Type, CopyInv, [Next]_vars
    PROVE  CopyInv'
<1>0. /\ remote \in [Secs -> (SUBSET Orders) \cup {None}]
      /\ \A o \in Orders : Named(o)
  BY DEF Kp14Type, TypeOK
<1>1. CASE \E o \in Orders : \/ \E p \in Pids : CarveStart(o, p)
                             \/ \E ok \in BOOLEAN : CarveEnd(o, ok)
  <2> PICK o \in Orders : \/ \E p \in Pids : CarveStart(o, p)
                          \/ \E ok \in BOOLEAN : CarveEnd(o, ok)
    BY <1>1
  <2>1. UNCHANGED <<remote, left>> /\ Steps(o)
    BY CarveTyped DEF CarveStart, CarveEnd, vmVars
  <2>2. /\ an'[o].name = an[o].name /\ an[o].at \in Unnamed
        /\ an'[o].at \in Unnamed \cup {"end"}
    BY CarveMoves DEF Moves, Unnamed
  <2> QED BY <2>1, <2>2, StepCopies
<1>2. ASSUME NEW o \in Orders, ScpStart(o) PROVE CopyInv'
  <2>1. /\ Steps(o) /\ an'[o].at = "scp" /\ an'[o].name = now /\ an[o].name = None
        /\ remote' = [remote EXCEPT ![now] = {}] /\ UNCHANGED left
    BY <1>0, <1>2, ScpStartTyped DEF ScpStart, Named, Unnamed
  <2>2. \A t \in Secs : t # an'[o].name => remote'[t] = remote[t]
    BY <1>0, <2>1
  <2> QED BY <2>1, <2>2, StepCopies DEF Copying
<1>3. ASSUME NEW o \in Orders, NEW ok \in BOOLEAN, ScpEnd(o, ok) PROVE CopyInv'
  <2>1. /\ Steps(o) /\ an'[o].name = an[o].name /\ left \subseteq left'
        /\ an'[o].at = "copied" \/ an'[o].name \in left'
    BY <1>3, ScpEndTyped DEF Moves, Leave
  <2>2. \A t \in Secs : t # an'[o].name => remote'[t] = remote[t]
    BY <1>0, <1>3, <2>1 DEF ScpEnd
  <2> QED BY <2>1, <2>2, StepCopies DEF Copying
<1>4. ASSUME NEW o \in Orders, RunStart(o) PROVE CopyInv'
  <2>1. /\ Steps(o) /\ an'[o].name = an[o].name /\ an'[o].at = "run"
        /\ UNCHANGED <<remote, left>>
    BY <1>4, RunStartTyped DEF RunStart, vmVars
  <2> QED BY <2>1, StepCopies DEF Copying
<1>5. ASSUME NEW o \in Orders, (\E ok \in BOOLEAN : RunEnd(o, ok)) \/ Extract(o)
      PROVE  CopyInv'
  <2>1. /\ Steps(o) /\ an'[o].name = an[o].name /\ left \subseteq left'
        /\ an'[o].at \in {"ran", "pushed", "results"} \/ an'[o].name \in left'
        /\ UNCHANGED remote
    BY <1>5, RunEndTyped, ExtractTyped DEF Moves, Leave, RunEnd, Extract, vmVars
  <2> QED BY <2>1, StepCopies DEF Copying
<1>6. ASSUME NEW o \in Orders, NEW ok \in BOOLEAN,
             PushStart(o, ok) \/ PushEnd(o, ok)
      PROVE  CopyInv'
  <2>1. UNCHANGED remote /\ left \subseteq left'
    BY <1>6 DEF PushStart, PushEnd, Leave, vmVars
  <2>2. \/ Moves(o, "push") \/ Moves(o, "pushed")
        \/ Moves(o, "end") /\ an[o].name \in left'
    BY <1>6, SetMoves DEF PushStart, PushEnd, Leave, Activities, Copying
  <2>3. /\ Steps(o) /\ an'[o].name = an[o].name
        /\ an'[o].at \in {"push", "pushed"} \/ an'[o].name \in left'
    BY <2>2 DEF Moves
  <2> QED BY <2>1, <2>3, StepCopies DEF Copying
<1>7. ASSUME NEW o \in Orders, NEW ok \in BOOLEAN, RemoveCopy(o, ok) PROVE CopyInv'
  <2>1. Moves(o, "end") /\ an[o].name \in Secs
    BY <1>7, SetMoves, PushTyped DEF RemoveCopy, Activities
  <2>2. Steps(o) /\ an'[o].name = an[o].name
    BY <2>1 DEF Moves
  <2>3. /\ \A t \in Secs : t # an[o].name => remote'[t] = remote[t]
        /\ \A t \in Secs : t \in left /\ remote'[t] # None => t \in left'
        /\ an[o].name \in left' \/ remote'[an[o].name] = None
    BY <1>0, <1>7, <2>1 DEF RemoveCopy, Leave
  <2> QED BY <2>2, <2>3, StepCopies
<1>8. CASE Crash
  <2>1. /\ UNCHANGED remote
        /\ \A t : WorkedOn(t) \/ t \in left => t \in left'
    BY <1>8 DEF Crash, vmVars, WorkedOn
  <2> QED BY <2>1 DEF CopyInv
<1>9. CASE UNCHANGED <<an, remote, left>>
  BY <1>9 DEF CopyInv, WorkedOn
<1> QED BY <1>1, <1>2, <1>3, <1>4, <1>5, <1>6, <1>7, <1>8, <1>9
        DEF Next, AnalysisStep, DaemonPushStart, DaemonPushEnd, Tick, Restart, vars,
            vmVars

\* For every number of orders: the copy of a carve is on the VM as long as its
\* analysis works on it, and no copy stays behind unaccounted.
THEOREM CopiesAccounted == Spec => []RemoteAccounted
<1>1. Init => CopyInv
  BY DEF Init, CopyInv
<1>2. Kp14Type /\ OwnInv /\ CopyInv => RemoteAccounted
  <2> SUFFICES ASSUME Kp14Type, OwnInv, CopyInv PROVE RemoteAccounted
    OBVIOUS
  <2>1. \A o \in Orders : an[o].at \in Copying \ {"scp"} /\ ~SharesCopy(o)
                             => remote[an[o].name] = {o}
    BY NoClash DEF Kp14Type, Named, OwnInv, Own
  <2> QED BY <2>1 DEF RemoteAccounted, CopyInv, WorkedOn
<1> QED BY <1>1, <1>2, Kp14TypeInit, Kp14TypeStep, OwnInit, OwnStep, CopyStep, PTL
        DEF Spec

-----------------------------------------------------------------------------
(***************************************************************************)
(* The file that every push writes.                                        *)
(***************************************************************************)

\* The file holds what the last push to open it wrote.
Latest == \/ ~cut /\ iocs = Whole(latest)
          \/ cut /\ iocs \subseteq Heads(latest)

\* Who pushes is alone with a file that is still empty, and has the latest
\* results.
Turn ==
    /\ \A o \in Orders : an[o].at = "push" =>
          /\ iocs = {} /\ ~cut /\ latest = an[o].found /\ dm # "push"
          /\ \A n \in Orders \ {o} : an[n].at # "push"
    /\ dm = "push" => iocs = {} /\ ~cut /\ latest = {Daemon}
    /\ ~Pushing => Latest
PushInv == ~overlap => Turn

\* A push writes all of its results, or their beginning.
LEMMA WritesLatest ==
    ASSUME iocs = {}, ~cut,
           \/ iocs' = iocs \cup Whole(latest) /\ UNCHANGED <<latest, cut>>
           \/ WriteCut(latest)
    PROVE  Latest'
<1>1. CASE iocs' = iocs \cup Whole(latest) /\ UNCHANGED <<latest, cut>>
  BY <1>1 DEF Latest
<1>2. CASE WriteCut(latest)
  <2>1. iocs' \subseteq Heads(latest) /\ cut' /\ latest' = latest
    BY <1>2 DEF WriteCut, Heads
  <2>2. iocs' \subseteq Heads(latest')
    BY <2>1
  <2> QED BY <2>1, <2>2 DEF Latest
<1> QED BY <1>1, <1>2

\* The step of an analysis that does not push.
LEMMA OtherStepPushes ==
    ASSUME PushInv, NEW o \in Orders, Steps(o), UNCHANGED <<iocVars, dm>>,
           an[o].at # "push", an'[o].at # "push"
    PROVE  PushInv'
<1> SUFFICES ASSUME ~overlap PROVE Turn'
  BY DEF PushInv, iocVars
<1>1. /\ Turn /\ UNCHANGED <<iocs, latest, cut, dm>>
      /\ \A n \in Orders \ {o} : an'[n] = an[n]
  BY DEF PushInv, iocVars, Steps
<1>2. (Pushing' <=> Pushing) /\ (Latest => Latest')
  BY <1>1 DEF Pushing, Latest
<1>3. \A n \in Orders : an'[n].at = "push" => an[n].at = "push" /\ an'[n] = an[n]
  BY <1>1
<1> QED BY <1>1, <1>2, <1>3 DEF Turn

\* A push that begins while nobody pushes gets the file to itself.
LEMMA PushStep ==
    ASSUME Kp14Type, PushInv, [Next]_vars
    PROVE  PushInv'
<1>1. ASSUME NEW o \in Orders, PushStart(o, TRUE) PROVE PushInv'
  <2> SUFFICES ASSUME ~overlap' PROVE Turn'
    BY DEF PushInv
  <2>1. Moves(o, "push") /\ ~Pushing
    BY <1>1, SetMoves DEF PushStart, OpenFile, Activities, Copying
  <2>2. /\ \A n \in Orders \ {o} : an'[n] = an[n]
        /\ an'[o].at = "push" /\ an'[o].found = an[o].found
        /\ iocs' = {} /\ latest' = an[o].found /\ ~cut' /\ dm' = dm /\ dm # "push"
        /\ \A n \in Orders : an[n].at # "push"
    BY <1>1, <2>1 DEF Moves, Steps, PushStart, OpenFile, Pushing
  <2> QED BY <2>2 DEF Turn, Pushing
<1>2. ASSUME NEW o \in Orders, NEW ok \in BOOLEAN, PushEnd(o, ok) PROVE PushInv'
  <2> SUFFICES ASSUME ~overlap PROVE Turn'
    BY <1>2 DEF PushInv, PushEnd, WriteCut
  <2>1. Moves(o, "pushed") \/ Moves(o, "end")
    BY <1>2, SetMoves DEF PushEnd, Activities, Copying
  <2>2. /\ \A n \in Orders \ {o} : an'[n] = an[n]
        /\ an'[o].at # "push" /\ an[o].at = "push" /\ dm' = dm
    BY <1>2, <2>1 DEF Moves, Steps, PushEnd
  <2>3. /\ iocs = {} /\ ~cut /\ latest = an[o].found /\ dm # "push"
        /\ \A n \in Orders \ {o} : an[n].at # "push"
    BY <2>2 DEF PushInv, Turn
  <2>4. Latest'
    BY <1>2, <2>3, WritesLatest DEF PushEnd
  <2> QED BY <2>2, <2>3, <2>4 DEF Turn
<1>3. ASSUME NEW o \in Orders,
             \/ (\E p \in Pids : CarveStart(o, p)) \/ ScpStart(o) \/ RunStart(o)
             \/ Extract(o) \/ PushStart(o, FALSE)
             \/ \E ok \in BOOLEAN : \/ CarveEnd(o, ok) \/ ScpEnd(o, ok)
                                    \/ RunEnd(o, ok) \/ RemoveCopy(o, ok)
      PROVE  PushInv'
  <2>1. UNCHANGED <<iocVars, dm>> /\ an[o].at # "push"
    BY <1>3 DEF CarveStart, CarveEnd, ScpStart, ScpEnd, RunStart, RunEnd, Extract,
                PushStart, RemoveCopy
  <2>2. Steps(o) /\ an'[o].at # "push"
    <3>1. CASE \/ (\E p \in Pids : CarveStart(o, p))
               \/ \E ok \in BOOLEAN : CarveEnd(o, ok)
      BY <3>1, CarveTyped, CarveMoves DEF Moves
    <3>2. CASE ScpStart(o) \/ RunStart(o) \/ Extract(o)
      BY <3>2, ScpStartTyped, RunStartTyped, ExtractTyped DEF Moves
    <3>3. CASE \E ok \in BOOLEAN : ScpEnd(o, ok) \/ RunEnd(o, ok)
      BY <3>3, ScpEndTyped, RunEndTyped DEF Moves
    <3>4. CASE PushStart(o, FALSE) \/ \E ok \in BOOLEAN : RemoveCopy(o, ok)
      BY <3>4, SetMoves DEF PushStart, RemoveCopy, Activities, Moves
    <3> QED BY <1>3, <3>1, <3>2, <3>3, <3>4
  <2> QED BY <2>1, <2>2, OtherStepPushes
<1>4. CASE DaemonPushStart(TRUE)
  <2> SUFFICES ASSUME ~overlap' PROVE Turn'
    BY DEF PushInv
  <2>1. /\ ~Pushing /\ dm' = "push" /\ iocs' = {} /\ latest' = {Daemon} /\ ~cut'
        /\ UNCHANGED an
    BY <1>4 DEF DaemonPushStart, OpenFile
  <2> QED BY <2>1 DEF Turn, Pushing
<1>5. CASE DaemonPushStart(FALSE)
  <2>1. dm = "idle" /\ dm' = "end" /\ UNCHANGED <<an, iocs, latest, overlap, cut>>
    BY <1>5 DEF DaemonPushStart, iocVars
  <2>2. (Pushing' <=> Pushing) /\ (Latest => Latest')
    BY <2>1 DEF Pushing, Latest
  <2> QED BY <2>1, <2>2 DEF PushInv, Turn
<1>6. ASSUME NEW ok \in BOOLEAN, DaemonPushEnd(ok) PROVE PushInv'
  <2> SUFFICES ASSUME ~overlap PROVE Turn'
    BY <1>6 DEF PushInv, DaemonPushEnd, WriteCut
  <2>1. /\ dm = "push" /\ dm' = "end" /\ UNCHANGED an
    BY <1>6 DEF DaemonPushEnd
  <2>2. /\ iocs = {} /\ ~cut /\ latest = {Daemon}
        /\ \A o \in Orders : an[o].at # "push"
    BY <2>1 DEF PushInv, Turn
  <2>3. Latest'
    BY <1>6, <2>2, WritesLatest DEF DaemonPushEnd
  <2> QED BY <2>1, <2>2, <2>3 DEF Turn
<1>7. CASE Crash
  <2> SUFFICES ASSUME ~overlap PROVE Turn'
    <3>1. UNCHANGED overlap
      BY <1>7 DEF Crash, WriteCut, iocVars
    <3> QED BY <3>1 DEF PushInv
  <2>1. (\A o \in Orders : an'[o].at # "push") /\ dm' # "push"
    <3>1. \A o \in Orders :
             an'[o].at = IF an[o].at = "none" THEN "none" ELSE "end"
      BY <1>7, CrashEnds
    <3>2. dm' = "idle"
      BY <1>7 DEF Crash
    <3> QED BY <3>1, <3>2
  <2>2. Latest'
    <3>1. CASE ~Pushing /\ UNCHANGED iocVars
      BY <3>1 DEF PushInv, Turn, Latest, iocVars
    <3>2. CASE Pushing /\ WriteCut(Writing)
      <4>1. iocs = {} /\ ~cut /\ Writing = latest
        <5>1. Turn
          BY DEF PushInv
        <5>2. CASE dm = "push"
          BY <5>1, <5>2 DEF Turn, Writing
        <5>3. ASSUME NEW o \in Orders, an[o].at = "push"
              PROVE  iocs = {} /\ ~cut /\ Writing = latest
          <6>1. /\ iocs = {} /\ ~cut /\ latest = an[o].found /\ dm # "push"
                /\ \A n \in Orders \ {o} : an[n].at # "push"
            BY <5>1, <5>3 DEF Turn
          <6>2. an[o].found \subseteq Orders
            BY DEF Kp14Type, TypeOK
          <6> QED BY <5>3, <6>1, <6>2 DEF Writing
        <5> QED BY <3>2, <5>2, <5>3 DEF Pushing
      <4> QED BY <3>2, <4>1, WritesLatest
    <3> QED BY <1>7, <3>1, <3>2 DEF Crash
  <2> QED BY <2>1, <2>2 DEF Turn
<1>8. CASE UNCHANGED <<an, dm, iocs, overlap, latest, cut>>
  <2>1. (Pushing' <=> Pushing) /\ (Latest => Latest')
    BY <1>8 DEF Pushing, Latest
  <2> QED BY <1>8, <2>1 DEF PushInv, Turn
<1>9. ASSUME NEW ok \in BOOLEAN PROVE ok = TRUE \/ ok = FALSE
  OBVIOUS
<1> QED BY <1>1, <1>2, <1>3, <1>4, <1>5, <1>6, <1>7, <1>8, <1>9
        DEF Next, AnalysisStep, Tick, Restart, vars, iocVars

\* For every number of orders: from a push that has the file for itself to the
\* next that has not, the file holds what the last push to open it wrote, all
\* of it, or its beginning if the push failed or a restart cut it off.
THEOREM FileHoldsLatest == Spec => []FileIsLatest
<1>1. Init => PushInv
  <2> SUFFICES ASSUME Init PROVE Turn
    BY DEF PushInv
  <2>1. \A o \in Orders : an[o].at = "none"
    BY DEF Init, New
  <2>2. Latest
    BY DEF Init, Latest, Whole
  <2> QED BY <2>1, <2>2 DEF Init, Turn
<1>2. PushInv => FileIsLatest
  BY DEF PushInv, Turn, FileIsLatest, Latest
<1> QED BY <1>1, <1>2, Kp14TypeInit, Kp14TypeStep, PushStep, PTL DEF Spec

=============================================================================

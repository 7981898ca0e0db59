--------------------------- MODULE TempDirsProofs ---------------------------
(***************************************************************************)
(* Theorems about TempDirs for any processes, threads and PIDs: no sweep   *)
(* removes a directory in use, the threads of a process agree on theirs,   *)
(* and a sweep reclaims what was dead when it began.                       *)
(***************************************************************************)
EXTENDS TempDirs, TLAPS

-----------------------------------------------------------------------------
(* The inductive invariant                                                 *)

States == {"new", "dead"} \union Live
Places == {"idle", "lock", "check", "make", "made", "locking", "locked",
           "marked", "has", "collided"}
Locks == {"none", "empty", "pid"}
ProcSet == [state : States, pid : Pids \union {NoPid}]
DirSet == [made : BOOLEAN, lock : Locks, pid : Pids \union {NoPid}, marker : BOOLEAN]
SweepSet == [todo : SUBSET Procs, at : Procs \union {NoDir},
             step : {"next", "lock", "remove"}]

\* The values of the variables.
TypeOK ==
  /\ proc \in [Procs -> ProcSet]
  /\ dir \in [Procs -> DirSet]
  /\ flag \in [Procs -> BOOLEAN]
  /\ init \in [Procs -> SUBSET Threads]
  /\ thread \in [Procs -> [Threads -> Places]]
  /\ sweep \in [Procs -> SweepSet]
  /\ stale \in [Procs -> SUBSET Procs]

\* init_lock is a lock: a thread between EnsureLock and its release is alone.
Critical == {"check", "make", "made", "locking", "locked", "marked"}
Exclusive ==
  \A p \in Procs, t \in Threads : thread[p][t] \in Critical => init[p] = {t}

\* What is in a directory, by what its process has come to.
Past == {"running", "dropping", "dead"}
ShapeOf(p) ==
  /\ dir[p].marker \/ dir[p].lock # "none" => dir[p].made
  /\ dir[p].lock = "pid" => dir[p].pid = proc[p].pid /\ proc[p].state \in Past
  /\ proc[p].state = "running" /\ dir[p].marker => dir[p].lock = "pid"
  /\ proc[p].state \in {"new", "sweeping"} =>
        ~dir[p].made /\ ~flag[p] /\ \A t \in Threads : thread[p][t] = "idle"
Shape == \A p \in Procs : ShapeOf(p)

\* How far the creation of a directory is, by where its creator is.
MadeBy(p, t) ==
  /\ thread[p][t] \in {"make", "made", "locking", "locked", "marked"} => ~flag[p]
  /\ thread[p][t] = "make" => ~dir[p].made
  /\ thread[p][t] = "made" => dir[p].made /\ dir[p].lock = "none"
  /\ thread[p][t] = "locking" => dir[p].made /\ dir[p].lock = "empty"
  /\ thread[p][t] = "locked" => dir[p].made /\ dir[p].lock = "pid"
  /\ thread[p][t] = "marked" => dir[p].marker
  /\ thread[p][t] = "has" => flag[p]
Creating(p) ==
  \E t \in Threads : thread[p][t] \in {"made", "locking", "locked", "marked"}
CreationOf(p) ==
  /\ flag[p] => dir[p].marker
  /\ dir[p].made => flag[p] \/ Creating(p)
  /\ \A t \in Threads : MadeBy(p, t)
Creation == \A p \in Procs : proc[p].state = "running" => CreationOf(p)

\* The step is not about process q or its directory.
Same(q) ==
  /\ proc'[q] = proc[q] /\ dir'[q] = dir[q]
  /\ flag'[q] = flag[q] /\ thread'[q] = thread[q]

NobodyCollides == \A p \in Procs, t \in Threads : thread[p][t] # "collided"

\* What a sweep found it may go on with: a marker was read of a directory
\* whose process runs with a complete directory or will not run again, and
\* a directory is removed of a process that will not run again.
SweepOf(p) ==
  LET d == sweep[p].at
  IN /\ sweep[p].step = "lock" =>
          /\ d \in Procs /\ proc[d].state \in Past
          /\ proc[d].state = "running" => dir[d].marker
     /\ sweep[p].step = "remove" => d \in Procs /\ proc[d].state \in {"dropping", "dead"}
Sweeps == \A p \in Procs : SweepOf(p)

\* A directory that was reclaimable stays so until it is gone, and a sweep
\* that has yet to remove it has it before it.
StaleOf(p, d) ==
  /\ proc[d].state = "dead"
  /\ dir[d].made =>
       /\ proc[p].state # "running"
       /\ proc[p].state = "sweeping" =>
            \/ sweep[p].at = d /\ sweep[p].step = "remove"
            \/ /\ dir[d].marker /\ dir[d].lock = "pid" /\ ~Alive(dir[d].pid)
               /\ d \in sweep[p].todo \/ (sweep[p].at = d /\ sweep[p].step = "lock")
Stales == \A p \in Procs : \A d \in stale[p] : StaleOf(p, d)

IInv ==
  TypeOK /\ Exclusive /\ Shape /\ Creation /\ NobodyCollides /\ Sweeps /\ Stales








-----------------------------------------------------------------------------
(* The invariant is inductive                                              *)

\* Before the first process starts there is no directory and no sweep.
LEMMA InvInit == Init => IInv
  BY SMTT(60) DEF Init, IInv, TypeOK, States, Live, Places, Locks, ProcSet,
     DirSet,
     SweepSet, Critical, Exclusive, Shape, ShapeOf, Past, Creation, CreationOf, MadeBy, Creating,
     NobodyCollides, Sweeps, SweepOf, Stales

\* A directory, a process and a sweep keep their type when a field changes.
LEMMA Updates ==
  /\ \A r \in ProcSet : \A s \in States : [r EXCEPT !.state = s] \in ProcSet
  /\ \A r \in DirSet : \A b \in BOOLEAN :
        [r EXCEPT !.made = b] \in DirSet /\ [r EXCEPT !.marker = b] \in DirSet
  /\ \A r \in DirSet : \A l \in Locks : [r EXCEPT !.lock = l] \in DirSet
  /\ \A r \in DirSet : \A n \in Pids \union {NoPid} :
        [[r EXCEPT !.lock = "pid"] EXCEPT !.pid = n] \in DirSet
  /\ \A r \in SweepSet : \A s \in {"next", "lock", "remove"} :
        [r EXCEPT !.step = s] \in SweepSet
  /\ \A r \in SweepSet : \A d \in SUBSET Procs : [r EXCEPT !.todo = d] \in SweepSet
<1>1. \A r \in ProcSet : \A s \in States : [r EXCEPT !.state = s] \in ProcSet
  BY Zenon DEF ProcSet
<1>2. \A r \in DirSet : \A b \in BOOLEAN :
        [r EXCEPT !.made = b] \in DirSet /\ [r EXCEPT !.marker = b] \in DirSet
  BY Zenon DEF DirSet
<1>3. \A r \in DirSet : \A l \in Locks : [r EXCEPT !.lock = l] \in DirSet
  BY Zenon DEF DirSet
<1>4. \A r \in DirSet : \A n \in Pids \union {NoPid} :
        [[r EXCEPT !.lock = "pid"] EXCEPT !.pid = n] \in DirSet
  BY ZenonT(60) DEF DirSet, Locks
<1>5. \A r \in SweepSet : \A s \in {"next", "lock", "remove"} :
        [r EXCEPT !.step = s] \in SweepSet
  BY Zenon DEF SweepSet
<1>6. \A r \in SweepSet : \A d \in SUBSET Procs : [r EXCEPT !.todo = d] \in SweepSet
  BY Zenon DEF SweepSet
<1> QED
  BY ZenonT(60), <1>1, <1>2, <1>3, <1>4, <1>5, <1>6

\* A step that leaves a process and its directory alone keeps its shape.
LEMMA ShapeFrame ==
  ASSUME Shape, NEW p \in Procs, \A q \in Procs : q # p => Same(q), ShapeOf(p)'
  PROVE  Shape'
  BY DEF Shape, ShapeOf, Same

\* So does one that is removed.
LEMMA GoneTyped == Gone \in DirSet
  BY Zenon DEF Gone, DirSet, Locks

\* Unlinking an entry leaves the directory and every other one.
LEMMA UnlinkEffect ==
  ASSUME TypeOK, NEW d \in Procs, Unlink(d)
  PROVE  /\ dir' \in [Procs -> DirSet]
         /\ \A q \in Procs : q # d => dir'[q] = dir[q]
         /\ dir'[d].made = dir[d].made /\ dir'[d].pid = dir[d].pid
         /\ dir'[d].marker => dir[d].marker
         /\ dir'[d].lock \in {dir[d].lock, "none"}
<1> USE DEF TypeOK
<1>1. CASE dir' = [dir EXCEPT ![d].lock = "none"]
  <2>1. dir' \in [Procs -> DirSet]
    BY ZenonT(60), <1>1, Updates DEF Locks
  <2>2. dir'[d] = [dir[d] EXCEPT !.lock = "none"] /\ dir[d] \in DirSet
    BY Zenon, <1>1
  <2> QED
    BY ZenonT(60), <1>1, <2>1, <2>2 DEF DirSet
<1>2. CASE dir' = [dir EXCEPT ![d].marker = FALSE]
  <2>1. dir' \in [Procs -> DirSet]
    BY ZenonT(60), <1>2, Updates
  <2>2. dir'[d] = [dir[d] EXCEPT !.marker = FALSE] /\ dir[d] \in DirSet
    BY Zenon, <1>2
  <2> QED
    BY ZenonT(60), <1>2, <2>1, <2>2 DEF DirSet
<1> QED
  BY Zenon, <1>1, <1>2 DEF Unlink

\* Removing a directory leaves every other one.
LEMMA RemoveEffect ==
  ASSUME TypeOK, NEW d \in Procs, RemoveDir(d)
  PROVE  /\ dir' \in [Procs -> DirSet]
         /\ \A q \in Procs : q # d => dir'[q] = dir[q]
         /\ ~dir'[d].made /\ ~dir'[d].marker /\ dir'[d].lock = "none"
  BY Zenon, GoneTyped DEF TypeOK, RemoveDir, Gone

\* A thread moves; the others stay where they are.
LEMMA GoesEffect ==
  ASSUME TypeOK, NEW p \in Procs, NEW t \in Threads, NEW to, Goes(p, t, to)
  PROVE  /\ thread'[p][t] = to
         /\ \A u \in Threads : u # t => thread'[p][u] = thread[p][u]
         /\ \A q \in Procs : q # p => thread'[q] = thread[q]
  BY Zenon DEF TypeOK, Goes

\* Whoever holds init_lock holds it alone.
LEMMA Alone ==
  ASSUME Exclusive, NEW p \in Procs, NEW t \in Threads, thread[p][t] \in Critical
  PROVE  init[p] = {t} /\ \A u \in Threads : u # t => thread[p][u] \notin Critical
<1>1. init[p] = {t}
  BY Zenon DEF Exclusive
<1>2. ASSUME NEW u \in Threads, u # t, thread[p][u] \in Critical PROVE FALSE
  <2>1. init[p] = {u}
    BY Zenon, <1>2 DEF Exclusive
  <2> QED
    BY Zenon, <1>1, <1>2, <2>1
<1> QED
  BY Zenon, <1>1, <1>2

\* Every step keeps the types.
LEMMA TypeStep ==
    TypeOK /\ Sweeps /\ [Next]_vars => TypeOK'
<1> SUFFICES ASSUME TypeOK, Sweeps, [Next]_vars PROVE TypeOK'
  BY Zenon
<1> USE DEF TypeOK, States, Live, Places, Locks
<1>1. ASSUME NEW p \in Procs, NEW pid \in Pids, Start(p, pid) PROVE TypeOK'
  <2>1. [state |-> "sweeping", pid |-> pid] \in ProcSet
    BY Zenon DEF ProcSet
  <2> QED
    BY ZenonT(60), <1>1, <2>1, Updates DEF Start
<1>2. ASSUME NEW p \in Procs, NEW d \in Procs, SweepNext(p, d) PROVE TypeOK'
  <2>1. [todo |-> sweep[p].todo \ {d}, at |-> d,
         step |-> IF dir[d].marker THEN "lock" ELSE "next"] \in SweepSet
    BY Zenon DEF SweepSet
  <2> QED
    BY Zenon, <1>2, <2>1 DEF SweepNext
<1>3. ASSUME NEW p \in Procs, SweepEnds(p) PROVE TypeOK'
  BY ZenonT(60), <1>3, Updates DEF SweepEnds
<1>4. ASSUME NEW p \in Procs, SweepLock(p) PROVE TypeOK'
  BY ZenonT(60), <1>4, Updates DEF SweepLock
<1>5. ASSUME NEW p \in Procs, SweepRemove(p) PROVE TypeOK'
  <2>1. sweep[p].at \in Procs
    BY Zenon, <1>5 DEF SweepRemove, Sweeps, SweepOf
  <2>2. dir' \in [Procs -> DirSet]
    BY Zenon, <1>5, <2>1, UnlinkEffect, RemoveEffect DEF SweepRemove
  <2>3. sweep' \in [Procs -> SweepSet]
    <3>1. CASE sweep' = [sweep EXCEPT ![p].step = "next"]
      BY ZenonT(60), <3>1, Updates
    <3> QED
      BY Zenon, <1>5, <3>1 DEF SweepRemove
  <2> QED
    BY Zenon, <1>5, <2>2, <2>3 DEF SweepRemove
<1>6. ASSUME NEW p \in Procs, Quit(p) PROVE TypeOK'
  BY ZenonT(60), <1>6, Updates DEF Quit
<1>7. ASSUME NEW p \in Procs, DropDir(p) PROVE TypeOK'
  <2>1. dir' \in [Procs -> DirSet]
    BY Zenon, <1>7, UnlinkEffect, RemoveEffect DEF DropDir
  <2> QED
    BY ZenonT(60), <1>7, <2>1 DEF DropDir
<1>8. ASSUME NEW p \in Procs, Exit(p) PROVE TypeOK'
  BY ZenonT(60), <1>8, Updates DEF Exit
<1>9. ASSUME NEW p \in Procs, Killed(p) PROVE TypeOK'
  BY ZenonT(60), <1>9, Updates DEF Killed
<1>10. ASSUME NEW p \in Procs, NEW t \in Threads, EnsureFast(p, t) PROVE TypeOK'
  BY Zenon, <1>10 DEF EnsureFast, Running, Goes
<1>11. ASSUME NEW p \in Procs, NEW t \in Threads, EnsureLock(p, t) PROVE TypeOK'
  BY Zenon, <1>11 DEF EnsureLock, Running, Goes
<1>12. ASSUME NEW p \in Procs, NEW t \in Threads, EnsureRecheck(p, t) PROVE TypeOK'
  BY Zenon, <1>12 DEF EnsureRecheck, Running, Goes
<1>13. ASSUME NEW p \in Procs, NEW t \in Threads, CreateDir(p, t) PROVE TypeOK'
  BY ZenonT(60), <1>13, Updates DEF CreateDir, Running, Goes
<1>14. ASSUME NEW p \in Procs, NEW t \in Threads, OpenLock(p, t) PROVE TypeOK'
  BY ZenonT(60), <1>14, Updates DEF OpenLock, Running, Goes
<1>15. ASSUME NEW p \in Procs, NEW t \in Threads, WriteLock(p, t) PROVE TypeOK'
  <2>1. proc[p].pid \in Pids \union {NoPid}
    BY Zenon DEF ProcSet
  <2>2. dir' \in [Procs -> DirSet]
    BY ZenonT(60), <1>15, <2>1, Updates DEF WriteLock
  <2> QED
    BY Zenon, <1>15, <2>2 DEF WriteLock, Running, Goes
<1>16. ASSUME NEW p \in Procs, NEW t \in Threads, WriteMarker(p, t) PROVE TypeOK'
  BY ZenonT(60), <1>16, Updates DEF WriteMarker, Running, Goes
<1>17. ASSUME NEW p \in Procs, NEW t \in Threads, Publish(p, t) PROVE TypeOK'
  BY Zenon, <1>17 DEF Publish, Running, Goes
<1>18. CASE UNCHANGED vars
  BY Zenon, <1>18 DEF vars
<1> QED
  BY ZenonT(60), <1>1, <1>2, <1>3, <1>4, <1>5, <1>6, <1>7, <1>8, <1>9,
     <1>10, <1>11, <1>12, <1>13, <1>14, <1>15, <1>16, <1>17, <1>18
     DEF Next

\* init_lock is held by one thread at a time, and kept by whoever creates.
LEMMA ExclusiveStep ==
    TypeOK /\ Exclusive /\ [Next]_vars => Exclusive'
<1> SUFFICES ASSUME TypeOK, Exclusive, [Next]_vars PROVE Exclusive'
  BY Zenon
<1> USE DEF TypeOK, States, Live, Places, Critical, Exclusive
<1>1. ASSUME NEW p \in Procs, NEW pid \in Pids, Start(p, pid) PROVE Exclusive'
  BY Zenon, <1>1 DEF Start
<1>2. ASSUME NEW p \in Procs, NEW d \in Procs, SweepNext(p, d) PROVE Exclusive'
  BY Zenon, <1>2 DEF SweepNext
<1>3. ASSUME NEW p \in Procs, SweepEnds(p) PROVE Exclusive'
  BY Zenon, <1>3 DEF SweepEnds
<1>4. ASSUME NEW p \in Procs, SweepLock(p) PROVE Exclusive'
  BY Zenon, <1>4 DEF SweepLock
<1>5. ASSUME NEW p \in Procs, SweepRemove(p) PROVE Exclusive'
  BY Zenon, <1>5 DEF SweepRemove
<1>6. ASSUME NEW p \in Procs, Quit(p) PROVE Exclusive'
  BY Zenon, <1>6 DEF Quit
<1>7. ASSUME NEW p \in Procs, DropDir(p) PROVE Exclusive'
  BY Zenon, <1>7 DEF DropDir
<1>8. ASSUME NEW p \in Procs, Exit(p) PROVE Exclusive'
  BY Zenon, <1>8 DEF Exit
<1>9. ASSUME NEW p \in Procs, Killed(p) PROVE Exclusive'
  BY Zenon, <1>9 DEF Killed
<1>10. ASSUME NEW p \in Procs, NEW t \in Threads, EnsureFast(p, t) PROVE Exclusive'
  BY ZenonT(60), <1>10 DEF EnsureFast, Running, Goes
<1>11. ASSUME NEW p \in Procs, NEW t \in Threads, EnsureLock(p, t) PROVE Exclusive'
  BY ZenonT(60), <1>11 DEF EnsureLock, Running, Goes
<1>12. ASSUME NEW p \in Procs, NEW t \in Threads, EnsureRecheck(p, t) PROVE Exclusive'
  <2>1. init[p] = {t} /\ \A u \in Threads : u # t => thread[p][u] \notin Critical
    BY ZenonT(60), <1>12, Alone DEF EnsureRecheck, Running
  <2> QED
    BY ZenonT(60), <1>12, <2>1 DEF EnsureRecheck, Running, Goes
<1>13. ASSUME NEW p \in Procs, NEW t \in Threads, CreateDir(p, t) PROVE Exclusive'
  BY <1>13 DEF CreateDir, Running, Goes
<1>14. ASSUME NEW p \in Procs, NEW t \in Threads, OpenLock(p, t) PROVE Exclusive'
  BY ZenonT(60), <1>14 DEF OpenLock, Running, Goes
<1>15. ASSUME NEW p \in Procs, NEW t \in Threads, WriteLock(p, t) PROVE Exclusive'
  BY ZenonT(60), <1>15 DEF WriteLock, Running, Goes
<1>16. ASSUME NEW p \in Procs, NEW t \in Threads, WriteMarker(p, t) PROVE Exclusive'
  BY ZenonT(60), <1>16 DEF WriteMarker, Running, Goes
<1>17. ASSUME NEW p \in Procs, NEW t \in Threads, Publish(p, t) PROVE Exclusive'
  BY <1>17 DEF Publish, Running, Goes
<1>18. CASE UNCHANGED vars
  BY Zenon, <1>18 DEF vars
<1> QED
  BY ZenonT(60), <1>1, <1>2, <1>3, <1>4, <1>5, <1>6, <1>7, <1>8, <1>9,
     <1>10, <1>11, <1>12, <1>13, <1>14, <1>15, <1>16, <1>17, <1>18
     DEF Next

\* The directory of a running process holds its PID before its marker.
LEMMA ShapeStep ==
    TypeOK /\ Shape /\ Creation /\ Sweeps /\ [Next]_vars => Shape'
<1> SUFFICES ASSUME TypeOK, Shape, Creation, Sweeps, [Next]_vars PROVE Shape'
  BY Zenon
<1> USE DEF TypeOK, States, Live, Places, Shape, ShapeOf, Past, ProcSet, DirSet
<1>1. ASSUME NEW p \in Procs, NEW pid \in Pids, Start(p, pid) PROVE Shape'
  BY SMTT(60), <1>1 DEF Start
<1>2. ASSUME NEW p \in Procs, NEW d \in Procs, SweepNext(p, d) PROVE Shape'
  BY <1>2 DEF SweepNext
<1>3. ASSUME NEW p \in Procs, SweepEnds(p) PROVE Shape'
  BY <1>3 DEF SweepEnds
<1>4. ASSUME NEW p \in Procs, SweepLock(p) PROVE Shape'
  BY ZenonT(60), <1>4 DEF SweepLock
<1>5. ASSUME NEW p \in Procs, SweepRemove(p) PROVE Shape'
  <2>1. PICK d \in Procs : d = sweep[p].at /\ proc[d].state \in {"dropping", "dead"}
    BY Zenon, <1>5 DEF SweepRemove, Sweeps, SweepOf
  <2>2. \A q \in Procs : q # d => Same(q)
    BY <1>5, <2>1, UnlinkEffect, RemoveEffect DEF SweepRemove, Same
  <2>3. ShapeOf(d)'
    <3>1. CASE Unlink(d)
      <4>1. dir'[d].made = dir[d].made /\ dir'[d].pid = dir[d].pid
        BY Zenon, <2>1, <3>1, UnlinkEffect
      <4>2. dir'[d].marker => dir[d].marker
        BY Zenon, <2>1, <3>1, UnlinkEffect
      <4>3. dir'[d].lock \in {dir[d].lock, "none"}
        BY Zenon, <2>1, <3>1, UnlinkEffect
      <4> QED
        BY <1>5, <2>1, <4>1, <4>2, <4>3 DEF SweepRemove
    <3>2. CASE RemoveDir(d)
      <4>1. ~dir'[d].made /\ ~dir'[d].marker /\ dir'[d].lock = "none"
        BY Zenon, <2>1, <3>2, RemoveEffect
      <4> QED
        BY Zenon, <1>5, <2>1, <4>1 DEF SweepRemove
    <3> QED
      BY Zenon, <1>5, <2>1, <3>1, <3>2 DEF SweepRemove
  <2> QED
    BY ZenonT(60), <2>1, <2>2, <2>3, ShapeFrame
<1>6. ASSUME NEW p \in Procs, Quit(p) PROVE Shape'
  BY <1>6 DEF Quit
<1>7. ASSUME NEW p \in Procs, DropDir(p) PROVE Shape'
  <2>1. \A q \in Procs : q # p => Same(q)
    BY <1>7, UnlinkEffect, RemoveEffect DEF DropDir, Same
  <2>2. ShapeOf(p)'
    <3>1. CASE Unlink(p) /\ UNCHANGED flag
      BY SMTT(60), <1>7, <3>1, UnlinkEffect DEF DropDir
    <3>2. CASE RemoveDir(p) /\ flag' = [flag EXCEPT ![p] = FALSE]
      BY Zenon, <1>7, <3>2, RemoveEffect DEF DropDir
    <3> QED
      BY Zenon, <1>7, <3>1, <3>2 DEF DropDir
  <2> QED
    BY ZenonT(60), <2>1, <2>2, ShapeFrame
<1>8. ASSUME NEW p \in Procs, Exit(p) PROVE Shape'
  BY <1>8 DEF Exit
<1>9. ASSUME NEW p \in Procs, Killed(p) PROVE Shape'
  BY SMTT(60), <1>9 DEF Killed
<1>10. ASSUME NEW p \in Procs, NEW t \in Threads, EnsureFast(p, t) PROVE Shape'
  BY ZenonT(60), <1>10 DEF EnsureFast, Running, Goes
<1>11. ASSUME NEW p \in Procs, NEW t \in Threads, EnsureLock(p, t) PROVE Shape'
  BY SMTT(60), <1>11 DEF EnsureLock, Running, Goes
<1>12. ASSUME NEW p \in Procs, NEW t \in Threads, EnsureRecheck(p, t) PROVE Shape'
  BY ZenonT(60), <1>12 DEF EnsureRecheck, Running, Goes
<1>13. ASSUME NEW p \in Procs, NEW t \in Threads, CreateDir(p, t) PROVE Shape'
  BY SMTT(60), <1>13 DEF CreateDir, Running, Goes
<1>14. ASSUME NEW p \in Procs, NEW t \in Threads, OpenLock(p, t) PROVE Shape'
  BY SMTT(60), <1>14 DEF OpenLock, Running, Goes, Creation, CreationOf, MadeBy
<1>15. ASSUME NEW p \in Procs, NEW t \in Threads, WriteLock(p, t) PROVE Shape'
  BY SMTT(60), <1>15 DEF WriteLock, Running, Goes, Creation, CreationOf, MadeBy
<1>16. ASSUME NEW p \in Procs, NEW t \in Threads, WriteMarker(p, t) PROVE Shape'
  BY SMTT(60), <1>16 DEF WriteMarker, Running, Goes, Creation, CreationOf,
     MadeBy
<1>17. ASSUME NEW p \in Procs, NEW t \in Threads, Publish(p, t) PROVE Shape'
  BY SMTT(60), <1>17 DEF Publish, Running, Goes
<1>18. CASE UNCHANGED vars
  BY ZenonT(60), <1>18 DEF vars
<1> QED
  BY ZenonT(60), <1>1, <1>2, <1>3, <1>4, <1>5, <1>6, <1>7, <1>8, <1>9,
     <1>10, <1>11, <1>12, <1>13, <1>14, <1>15, <1>16, <1>17, <1>18
     DEF Next

\* Whoever is about to create the directory finds none.
LEMMA CollideStep ==
    TypeOK /\ Creation /\ NobodyCollides /\ [Next]_vars => NobodyCollides'
<1> SUFFICES ASSUME TypeOK, Creation, NobodyCollides, [Next]_vars PROVE NobodyCollides'
  BY Zenon
<1> USE DEF TypeOK, States, Live, Places, NobodyCollides
<1>1. ASSUME NEW p \in Procs, NEW pid \in Pids, Start(p, pid) PROVE NobodyCollides'
  BY Zenon, <1>1 DEF Start
<1>2. ASSUME NEW p \in Procs, NEW d \in Procs, SweepNext(p, d) PROVE NobodyCollides'
  BY Zenon, <1>2 DEF SweepNext
<1>3. ASSUME NEW p \in Procs, SweepEnds(p) PROVE NobodyCollides'
  BY Zenon, <1>3 DEF SweepEnds
<1>4. ASSUME NEW p \in Procs, SweepLock(p) PROVE NobodyCollides'
  BY Zenon, <1>4 DEF SweepLock
<1>5. ASSUME NEW p \in Procs, SweepRemove(p) PROVE NobodyCollides'
  BY Zenon, <1>5 DEF SweepRemove
<1>6. ASSUME NEW p \in Procs, Quit(p) PROVE NobodyCollides'
  BY Zenon, <1>6 DEF Quit
<1>7. ASSUME NEW p \in Procs, DropDir(p) PROVE NobodyCollides'
  BY Zenon, <1>7 DEF DropDir
<1>8. ASSUME NEW p \in Procs, Exit(p) PROVE NobodyCollides'
  BY Zenon, <1>8 DEF Exit
<1>9. ASSUME NEW p \in Procs, Killed(p) PROVE NobodyCollides'
  BY Zenon, <1>9 DEF Killed
<1>10. ASSUME NEW p \in Procs, NEW t \in Threads, EnsureFast(p, t) PROVE NobodyCollides'
  BY ZenonT(60), <1>10 DEF EnsureFast, Running, Goes
<1>11. ASSUME NEW p \in Procs, NEW t \in Threads, EnsureLock(p, t) PROVE NobodyCollides'
  BY ZenonT(60), <1>11 DEF EnsureLock, Running, Goes
<1>12. ASSUME NEW p \in Procs, NEW t \in Threads, EnsureRecheck(p, t) PROVE NobodyCollides'
  BY ZenonT(60), <1>12 DEF EnsureRecheck, Running, Goes
<1>13. ASSUME NEW p \in Procs, NEW t \in Threads, CreateDir(p, t) PROVE NobodyCollides'
  BY ZenonT(60), <1>13 DEF CreateDir, Running, Goes, Creation, CreationOf,
     MadeBy
<1>14. ASSUME NEW p \in Procs, NEW t \in Threads, OpenLock(p, t) PROVE NobodyCollides'
  BY ZenonT(60), <1>14 DEF OpenLock, Running, Goes
<1>15. ASSUME NEW p \in Procs, NEW t \in Threads, WriteLock(p, t) PROVE NobodyCollides'
  BY ZenonT(60), <1>15 DEF WriteLock, Running, Goes
<1>16. ASSUME NEW p \in Procs, NEW t \in Threads, WriteMarker(p, t) PROVE NobodyCollides'
  BY ZenonT(60), <1>16 DEF WriteMarker, Running, Goes
<1>17. ASSUME NEW p \in Procs, NEW t \in Threads, Publish(p, t) PROVE NobodyCollides'
  BY ZenonT(60), <1>17 DEF Publish, Running, Goes
<1>18. CASE UNCHANGED vars
  BY Zenon, <1>18 DEF vars
<1> QED
  BY ZenonT(60), <1>1, <1>2, <1>3, <1>4, <1>5, <1>6, <1>7, <1>8, <1>9,
     <1>10, <1>11, <1>12, <1>13, <1>14, <1>15, <1>16, <1>17, <1>18
     DEF Next

\* A step that leaves a process and its directory alone leaves its creation.
LEMMA CreationFrame ==
  ASSUME Creation, NEW p \in Procs,
         \A q \in Procs : q # p => Same(q),
         proc'[p].state = "running" => CreationOf(p)'
  PROVE  Creation'
  BY SMTT(60) DEF Creation, CreationOf, MadeBy, Creating, Same

\* The creator of a directory finds it as it left it, and publishes it whole.
LEMMA CreationStep ==
    TypeOK /\ Exclusive /\ Shape /\ Creation /\ Sweeps /\ [Next]_vars => Creation'
<1> SUFFICES ASSUME TypeOK, Exclusive, Shape, Creation, Sweeps, [Next]_vars PROVE Creation'
  BY Zenon
<1> USE DEF TypeOK, Live, Places, Creation, CreationOf, MadeBy, Creating, ProcSet, DirSet
<1>1. ASSUME NEW p \in Procs, NEW pid \in Pids, Start(p, pid) PROVE Creation'
  BY SMTT(60), <1>1 DEF Start
<1>2. ASSUME NEW p \in Procs, NEW d \in Procs, SweepNext(p, d) PROVE Creation'
  BY SMTT(60), <1>2 DEF SweepNext
<1>3. ASSUME NEW p \in Procs, SweepEnds(p) PROVE Creation'
  BY SMTT(60), <1>3 DEF SweepEnds, Shape, ShapeOf
<1>4. ASSUME NEW p \in Procs, SweepLock(p) PROVE Creation'
  BY SMTT(60), <1>4 DEF SweepLock
<1>5. ASSUME NEW p \in Procs, SweepRemove(p) PROVE Creation'
  <2> DEFINE d == sweep[p].at
  <2>1. d \in Procs /\ proc[d].state # "running"
    BY ZenonT(60), <1>5 DEF SweepRemove, Sweeps, SweepOf
  <2>2. \A q \in Procs : q # d => Same(q)
    BY SMTT(60), <1>5, <2>1, UnlinkEffect, RemoveEffect DEF SweepRemove, Same
  <2>3. proc'[d].state # "running"
    BY Zenon, <1>5, <2>1 DEF SweepRemove
  <2> QED
    BY ZenonT(60), <2>1, <2>2, <2>3, CreationFrame
<1>6. ASSUME NEW p \in Procs, Quit(p) PROVE Creation'
  BY SMTT(60), <1>6 DEF Quit
<1>7. ASSUME NEW p \in Procs, DropDir(p) PROVE Creation'
  <2>1. \A q \in Procs : q # p => Same(q)
    BY SMTT(60), <1>7, UnlinkEffect, RemoveEffect DEF DropDir, Same
  <2>2. proc'[p].state # "running"
    BY Zenon, <1>7 DEF DropDir
  <2> QED
    BY ZenonT(60), <2>1, <2>2, CreationFrame
<1>8. ASSUME NEW p \in Procs, Exit(p) PROVE Creation'
  BY <1>8 DEF Exit
<1>9. ASSUME NEW p \in Procs, Killed(p) PROVE Creation'
  BY SMTT(60), <1>9 DEF Killed
<1>10. ASSUME NEW p \in Procs, NEW t \in Threads, EnsureFast(p, t) PROVE Creation'
  BY SMTT(60), <1>10 DEF EnsureFast, Running, Goes
<1>11. ASSUME NEW p \in Procs, NEW t \in Threads, EnsureLock(p, t) PROVE Creation'
  BY <1>11 DEF EnsureLock, Running, Goes
<1>12. ASSUME NEW p \in Procs, NEW t \in Threads, EnsureRecheck(p, t) PROVE Creation'
  <2>1. \A q \in Procs : q # p => Same(q)
    BY ZenonT(60), <1>12 DEF EnsureRecheck, Running, Goes, Same
  <2>2. \A u \in Threads : u # t => thread'[p][u] = thread[p][u] /\ thread[p][u] \notin Critical
    BY SMTT(60), <1>12, GoesEffect, Alone DEF EnsureRecheck, Running, Critical
  <2>3. CreationOf(p)'
    BY SMTT(60), <1>12, <2>2 DEF EnsureRecheck, Running, Goes, Critical,
       Shape, ShapeOf
  <2> QED
    BY ZenonT(60), <2>1, <2>3, CreationFrame
<1>13. ASSUME NEW p \in Procs, NEW t \in Threads, CreateDir(p, t) PROVE Creation'
  <2>1. \A q \in Procs : q # p => Same(q)
    BY ZenonT(60), <1>13 DEF CreateDir, Running, Goes, Same
  <2>2. \A u \in Threads : u # t => thread'[p][u] = thread[p][u] /\ thread[p][u] \notin Critical
    BY SMTT(60), <1>13, GoesEffect, Alone DEF CreateDir, Running, Critical
  <2>3. CreationOf(p)'
    BY SMTT(60), <1>13, <2>2 DEF CreateDir, Running, Goes, Critical, Shape,
       ShapeOf
  <2> QED
    BY ZenonT(60), <2>1, <2>3, CreationFrame
<1>14. ASSUME NEW p \in Procs, NEW t \in Threads, OpenLock(p, t) PROVE Creation'
  <2>1. \A q \in Procs : q # p => Same(q)
    BY ZenonT(60), <1>14 DEF OpenLock, Running, Goes, Same
  <2>2. \A u \in Threads : u # t => thread'[p][u] = thread[p][u] /\ thread[p][u] \notin Critical
    BY SMTT(60), <1>14, GoesEffect, Alone DEF OpenLock, Running, Critical
  <2>3. CreationOf(p)'
    BY SMTT(60), <1>14, <2>2 DEF OpenLock, Running, Goes, Critical, Shape,
       ShapeOf
  <2> QED
    BY ZenonT(60), <2>1, <2>3, CreationFrame
<1>15. ASSUME NEW p \in Procs, NEW t \in Threads, WriteLock(p, t) PROVE Creation'
  <2>1. \A q \in Procs : q # p => Same(q)
    BY ZenonT(60), <1>15 DEF WriteLock, Running, Goes, Same
  <2>2. \A u \in Threads : u # t => thread'[p][u] = thread[p][u] /\ thread[p][u] \notin Critical
    BY SMTT(60), <1>15, GoesEffect, Alone DEF WriteLock, Running, Critical
  <2>3. CreationOf(p)'
    BY SMTT(60), <1>15, <2>2 DEF WriteLock, Running, Goes, Critical, Shape,
       ShapeOf
  <2> QED
    BY ZenonT(60), <2>1, <2>3, CreationFrame
<1>16. ASSUME NEW p \in Procs, NEW t \in Threads, WriteMarker(p, t) PROVE Creation'
  <2>1. \A q \in Procs : q # p => Same(q)
    BY ZenonT(60), <1>16 DEF WriteMarker, Running, Goes, Same
  <2>2. \A u \in Threads : u # t => thread'[p][u] = thread[p][u] /\ thread[p][u] \notin Critical
    BY SMTT(60), <1>16, GoesEffect, Alone DEF WriteMarker, Running, Critical
  <2>3. CreationOf(p)'
    BY SMTT(60), <1>16, <2>2 DEF WriteMarker, Running, Goes, Critical, Shape,
       ShapeOf
  <2> QED
    BY ZenonT(60), <2>1, <2>3, CreationFrame
<1>17. ASSUME NEW p \in Procs, NEW t \in Threads, Publish(p, t) PROVE Creation'
  <2>1. \A q \in Procs : q # p => Same(q)
    BY ZenonT(60), <1>17 DEF Publish, Running, Goes, Same
  <2>2. \A u \in Threads : u # t => thread'[p][u] = thread[p][u] /\ thread[p][u] \notin Critical
    BY SMTT(60), <1>17, GoesEffect, Alone DEF Publish, Running, Critical
  <2>3. CreationOf(p)'
    BY SMTT(60), <1>17, <2>2 DEF Publish, Running, Goes, Critical, Shape,
       ShapeOf
  <2> QED
    BY ZenonT(60), <2>1, <2>3, CreationFrame
<1>18. CASE UNCHANGED vars
  BY SMTT(60), <1>18 DEF vars
<1> QED
  BY ZenonT(60), <1>1, <1>2, <1>3, <1>4, <1>5, <1>6, <1>7, <1>8, <1>9,
     <1>10, <1>11, <1>12, <1>13, <1>14, <1>15, <1>16, <1>17, <1>18
     DEF Next

\* A sweep reads the lock of a process that runs only when it is complete.
LEMMA SweepsStep ==
    TypeOK /\ Shape /\ Sweeps /\ [Next]_vars => Sweeps'
<1> SUFFICES ASSUME TypeOK, Shape, Sweeps, [Next]_vars PROVE Sweeps'
  BY Zenon
<1> USE DEF TypeOK, Live, Sweeps, SweepOf, Past, ProcSet, DirSet, SweepSet
<1>1. ASSUME NEW p \in Procs, NEW pid \in Pids, Start(p, pid) PROVE Sweeps'
  BY SMTT(60), <1>1 DEF Start
<1>2. ASSUME NEW p \in Procs, NEW d \in Procs, SweepNext(p, d) PROVE Sweeps'
  BY SMTT(60), <1>2 DEF SweepNext, Shape, ShapeOf, States
<1>3. ASSUME NEW p \in Procs, SweepEnds(p) PROVE Sweeps'
  BY ZenonT(60), <1>3 DEF SweepEnds
<1>4. ASSUME NEW p \in Procs, SweepLock(p) PROVE Sweeps'
  BY SMTT(60), <1>4 DEF SweepLock, Shape, ShapeOf, Alive
<1>5. ASSUME NEW p \in Procs, SweepRemove(p) PROVE Sweeps'
  <2> DEFINE d == sweep[p].at
  <2>1. d \in Procs /\ proc[d].state \in {"dropping", "dead"}
    BY Zenon, <1>5 DEF SweepRemove
  <2>2. \A q \in Procs : q # d => dir'[q] = dir[q]
    BY SMTT(60), <1>5, <2>1, UnlinkEffect, RemoveEffect DEF SweepRemove
  <2>3. /\ \A q \in Procs : q # p => sweep'[q] = sweep[q]
        /\ sweep'[p].at = d /\ sweep'[p].step \in {"remove", "next"}
    BY SMTT(60), <1>5 DEF SweepRemove
  <2> QED
    BY SMTT(60), <1>5, <2>1, <2>2, <2>3 DEF SweepRemove
<1>6. ASSUME NEW p \in Procs, Quit(p) PROVE Sweeps'
  BY SMTT(60), <1>6 DEF Quit
<1>7. ASSUME NEW p \in Procs, DropDir(p) PROVE Sweeps'
  <2>1. \A q \in Procs : q # p => dir'[q] = dir[q]
    BY SMTT(60), <1>7, UnlinkEffect, RemoveEffect DEF DropDir
  <2> QED
    BY ZenonT(60), <1>7, <2>1 DEF DropDir
<1>8. ASSUME NEW p \in Procs, Exit(p) PROVE Sweeps'
  BY SMTT(60), <1>8 DEF Exit
<1>9. ASSUME NEW p \in Procs, Killed(p) PROVE Sweeps'
  BY SMTT(60), <1>9 DEF Killed
<1>10. ASSUME NEW p \in Procs, NEW t \in Threads, EnsureFast(p, t) PROVE Sweeps'
  BY Zenon, <1>10 DEF EnsureFast, Running, Goes
<1>11. ASSUME NEW p \in Procs, NEW t \in Threads, EnsureLock(p, t) PROVE Sweeps'
  BY Zenon, <1>11 DEF EnsureLock, Running, Goes
<1>12. ASSUME NEW p \in Procs, NEW t \in Threads, EnsureRecheck(p, t) PROVE Sweeps'
  BY Zenon, <1>12 DEF EnsureRecheck, Running, Goes
<1>13. ASSUME NEW p \in Procs, NEW t \in Threads, CreateDir(p, t) PROVE Sweeps'
  BY SMTT(60), <1>13 DEF CreateDir, Running, Goes
<1>14. ASSUME NEW p \in Procs, NEW t \in Threads, OpenLock(p, t) PROVE Sweeps'
  BY SMTT(60), <1>14 DEF OpenLock, Running, Goes
<1>15. ASSUME NEW p \in Procs, NEW t \in Threads, WriteLock(p, t) PROVE Sweeps'
  BY SMTT(60), <1>15 DEF WriteLock, Running, Goes
<1>16. ASSUME NEW p \in Procs, NEW t \in Threads, WriteMarker(p, t) PROVE Sweeps'
  BY SMTT(60), <1>16 DEF WriteMarker, Running, Goes
<1>17. ASSUME NEW p \in Procs, NEW t \in Threads, Publish(p, t) PROVE Sweeps'
  BY Zenon, <1>17 DEF Publish, Running, Goes
<1>18. CASE UNCHANGED vars
  BY Zenon, <1>18 DEF vars
<1> QED
  BY ZenonT(60), <1>1, <1>2, <1>3, <1>4, <1>5, <1>6, <1>7, <1>8, <1>9,
     <1>10, <1>11, <1>12, <1>13, <1>14, <1>15, <1>16, <1>17, <1>18
     DEF Next

\* What a sweep is to reclaim is reclaimable until it is gone.
LEMMA StalesStep ==
    TypeOK /\ Shape /\ Sweeps /\ Stales /\ [Next]_vars => Stales'
<1> SUFFICES ASSUME TypeOK, Shape, Sweeps, Stales, [Next]_vars PROVE Stales'
  BY Zenon
<1> USE DEF TypeOK, Live, Stales, StaleOf, ProcSet, DirSet, SweepSet, Alive
<1>1. ASSUME NEW p \in Procs, NEW pid \in Pids, Start(p, pid) PROVE Stales'
  BY SMTT(60), <1>1 DEF Start, Shape, ShapeOf, Reclaimable, Past
<1>2. ASSUME NEW p \in Procs, NEW d \in Procs, SweepNext(p, d) PROVE Stales'
  BY <1>2 DEF SweepNext
<1>3. ASSUME NEW p \in Procs, SweepEnds(p) PROVE Stales'
  BY SMTT(60), <1>3 DEF SweepEnds
<1>4. ASSUME NEW p \in Procs, SweepLock(p) PROVE Stales'
  BY SMTT(60), <1>4 DEF SweepLock
<1>5. ASSUME NEW p \in Procs, SweepRemove(p) PROVE Stales'
  <2> DEFINE d == sweep[p].at
  <2>1. d \in Procs
    BY Zenon, <1>5 DEF SweepRemove, Sweeps, SweepOf
  <2>2. \A q \in Procs : q # d => dir'[q] = dir[q]
    BY SMTT(60), <1>5, <2>1, UnlinkEffect, RemoveEffect DEF SweepRemove
  <2>3. /\ \A q \in Procs : q # p => sweep'[q] = sweep[q]
        /\ sweep'[p].at = d /\ sweep'[p].todo = sweep[p].todo
    BY <1>5 DEF SweepRemove
  <2>4. \/ sweep'[p].step = "remove"
        \/ sweep'[p].step = "next" /\ ~dir'[d].made
    BY SMTT(60), <1>5, <2>1, RemoveEffect DEF SweepRemove
  <2> SUFFICES ASSUME NEW q \in Procs, NEW e \in stale'[q] PROVE StaleOf(q, e)'
    BY Zenon
  <2>5. e \in stale[q] /\ (q # p => e # d)
    BY Zenon, <1>5 DEF SweepRemove
  <2>6. proc' = proc /\ StaleOf(q, e)
    BY ZenonT(60), <1>5, <2>5 DEF SweepRemove
  <2>7. CASE q = p /\ e = d
    BY ZenonT(60), <1>5, <2>3, <2>4, <2>6, <2>7 DEF SweepRemove
  <2>8. CASE q = p /\ e # d
    BY SMTT(60), <1>5, <2>2, <2>3, <2>4, <2>5, <2>6, <2>8 DEF SweepRemove
  <2>9. CASE q # p
    BY SMTT(60), <1>5, <2>2, <2>3, <2>5, <2>6, <2>9
  <2> QED
    BY ZenonT(60), <2>7, <2>8, <2>9
<1>6. ASSUME NEW p \in Procs, Quit(p) PROVE Stales'
  BY SMTT(60), <1>6 DEF Quit
<1>7. ASSUME NEW p \in Procs, DropDir(p) PROVE Stales'
  <2>1. \A q \in Procs : q # p => dir'[q] = dir[q]
    BY ZenonT(60), <1>7, UnlinkEffect, RemoveEffect DEF DropDir
  <2>2. \A q \in Procs : \A d \in stale[q] : d # p
    BY SMTT(60), <1>7 DEF DropDir
  <2> QED
    BY SMTT(60), <1>7, <2>1, <2>2 DEF DropDir
<1>8. ASSUME NEW p \in Procs, Exit(p) PROVE Stales'
  BY SMTT(60), <1>8 DEF Exit
<1>9. ASSUME NEW p \in Procs, Killed(p) PROVE Stales'
  BY SMTT(60), <1>9 DEF Killed
<1>10. ASSUME NEW p \in Procs, NEW t \in Threads, EnsureFast(p, t) PROVE Stales'
  BY SMTT(60), <1>10 DEF EnsureFast, Running, Goes
<1>11. ASSUME NEW p \in Procs, NEW t \in Threads, EnsureLock(p, t) PROVE Stales'
  BY SMTT(60), <1>11 DEF EnsureLock, Running, Goes
<1>12. ASSUME NEW p \in Procs, NEW t \in Threads, EnsureRecheck(p, t) PROVE Stales'
  BY SMTT(60), <1>12 DEF EnsureRecheck, Running, Goes
<1>13. ASSUME NEW p \in Procs, NEW t \in Threads, CreateDir(p, t) PROVE Stales'
  BY SMTT(60), <1>13 DEF CreateDir, Running, Goes
<1>14. ASSUME NEW p \in Procs, NEW t \in Threads, OpenLock(p, t) PROVE Stales'
  BY SMTT(60), <1>14 DEF OpenLock, Running, Goes
<1>15. ASSUME NEW p \in Procs, NEW t \in Threads, WriteLock(p, t) PROVE Stales'
  BY SMTT(60), <1>15 DEF WriteLock, Running, Goes
<1>16. ASSUME NEW p \in Procs, NEW t \in Threads, WriteMarker(p, t) PROVE Stales'
  BY SMTT(60), <1>16 DEF WriteMarker, Running, Goes
<1>17. ASSUME NEW p \in Procs, NEW t \in Threads, Publish(p, t) PROVE Stales'
  BY SMTT(60), <1>17 DEF Publish, Running, Goes
<1>18. CASE UNCHANGED vars
  BY <1>18 DEF vars
<1> QED
  BY ZenonT(60), <1>1, <1>2, <1>3, <1>4, <1>5, <1>6, <1>7, <1>8, <1>9,
     <1>10, <1>11, <1>12, <1>13, <1>14, <1>15, <1>16, <1>17, <1>18
     DEF Next

-----------------------------------------------------------------------------
(* The theorems                                                            *)

\* The invariant holds in every state, whichever processes start, sweep, use
\* their directory, end or are killed, and whatever PIDs the host reuses.
THEOREM Inductive == Spec => []IInv
<1>1. IInv /\ [Next]_vars => IInv'
  BY ZenonT(60), TypeStep, ExclusiveStep, ShapeStep, CollideStep,
     CreationStep, SweepsStep,
     StalesStep DEF IInv
<1> QED
  BY InvInit, <1>1, PTL DEF Spec

\* No sweep takes the directory of a running process, its threads agree on
\* it, and a sweep leaves nothing that was dead when it began.
THEOREM ScratchIsSound == Spec => []ScratchSound
<1>1. IInv => ScratchSound
  BY DEF IInv, ScratchSound, LiveDirKept, EnsureAgrees, SweepReclaims, TypeOK,
     DirSet, Shape, ShapeOf, Creation, CreationOf, MadeBy, NobodyCollides, Stales, StaleOf
<1> QED
  BY Inductive, <1>1, PTL

=============================================================================

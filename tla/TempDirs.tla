------------------------------ MODULE TempDirs ------------------------------
(***************************************************************************)
(* The scratch directories of OxDock processes (oxdock-fs/src/workspace_fs/ *)
(* path.rs): each process materialises its directory on first use, from    *)
(* any of its threads (LazyGuardedTempDir::ensure), publishes a lock with  *)
(* its PID and then a marker, and removes the directory when it ends.  A   *)
(* process that is killed leaves it behind; every process sweeps the       *)
(* temporary directory once when it starts, and removes each marked        *)
(* directory whose lock names no live process.                             *)
(*                                                                         *)
(* A directory is named after its process: the leaf holds the PID, a       *)
(* counter and the time, so a reused PID names another directory.          *)
(***************************************************************************)
EXTENDS Naturals, FiniteSets

CONSTANTS Procs,    \* the processes that may be started
          Threads,  \* their threads
          Uses,     \* which threads of which processes use the scratch directory
          Pids,     \* the PIDs the host hands out
          NoPid, NoDir

VARIABLES proc,     \* per process: [state, pid]
          dir,      \* per process, its directory: [made, lock, marker]
          flag,     \* per process: the materialised flag
          init,     \* per process: the threads that hold init_lock
          thread,   \* per process and thread: where in ensure() it is
          sweep,    \* per process: [todo, at, step] of its sweep
          stale     \* per process: what its sweep has to reclaim

vars == <<proc, dir, flag, init, thread, sweep, stale>>

Live == {"sweeping", "running", "dropping"}
Alive(pid) == \E p \in Procs : proc[p].state \in Live /\ proc[p].pid = pid

Init ==
  /\ proc = [p \in Procs |-> [state |-> "new", pid |-> NoPid]]
  /\ dir = [p \in Procs |-> [made |-> FALSE, lock |-> "none", pid |-> NoPid, marker |-> FALSE]]
  /\ flag = [p \in Procs |-> FALSE]
  /\ init = [p \in Procs |-> {}]
  /\ thread = [p \in Procs |-> [t \in Threads |-> "idle"]]
  /\ sweep = [p \in Procs |-> [todo |-> {}, at |-> NoDir, step |-> "next"]]
  /\ stale = [p \in Procs |-> {}]

\* A process starts with a PID no live process has, and lists the temporary
\* directory.
Reclaimable(p) == dir[p].marker /\ dir[p].lock = "pid" /\ ~Alive(dir[p].pid)

Start(p, pid) ==
  /\ proc[p].state = "new" /\ ~Alive(pid)
  /\ proc' = [proc EXCEPT ![p] = [state |-> "sweeping", pid |-> pid]]
  /\ sweep' = [sweep EXCEPT ![p].todo = {q \in Procs : dir[q].made}]
  /\ stale' = [[q \in Procs |-> {d \in stale[q] : dir[d].pid # pid}]
                 EXCEPT ![p] = {d \in Procs : Reclaimable(d) /\ dir[d].pid # pid}]
  /\ UNCHANGED <<dir, flag, init, thread>>

\* The sweep takes the directories one by one: marker, then lock, then removal.
SweepNext(p, d) ==
  /\ proc[p].state = "sweeping" /\ sweep[p].step = "next" /\ d \in sweep[p].todo
  /\ sweep' = [sweep EXCEPT ![p] = [todo |-> @.todo \ {d}, at |-> d,
                                    step |-> IF dir[d].marker THEN "lock" ELSE "next"]]
  /\ UNCHANGED <<proc, dir, flag, init, thread, stale>>

SweepEnds(p) ==
  /\ proc[p].state = "sweeping" /\ sweep[p].step = "next" /\ sweep[p].todo = {}
  /\ proc' = [proc EXCEPT ![p].state = "running"]
  /\ UNCHANGED <<dir, flag, init, thread, sweep, stale>>

\* Mutant: a lock that cannot be read keeps the directory.
SweepLockKeeps(p) ==
  /\ proc[p].state = "sweeping" /\ sweep[p].step = "lock"
  /\ sweep' = [sweep EXCEPT ![p].step = "next"]
  /\ UNCHANGED <<proc, dir, flag, init, thread, stale>>

\* read_lock_pid: a lock that is missing or holds no number names nobody.
SweepLock(p) ==
  LET d == dir[sweep[p].at] IN
  /\ proc[p].state = "sweeping" /\ sweep[p].step = "lock"
  /\ sweep' = [sweep EXCEPT ![p].step = IF d.lock = "pid" /\ Alive(d.pid) THEN "next" ELSE "remove"]
  /\ UNCHANGED <<proc, dir, flag, init, thread, stale>>

\* remove_dir_all unlinks the entries, in the order the host lists them, and
\* then the directory.
Gone == [made |-> FALSE, lock |-> "none", pid |-> NoPid, marker |-> FALSE]

Unlink(d) ==
  \/ dir[d].lock # "none" /\ dir' = [dir EXCEPT ![d].lock = "none"]
  \/ dir[d].marker /\ dir' = [dir EXCEPT ![d].marker = FALSE]

RemoveDir(d) ==
  /\ dir[d].lock = "none" /\ ~dir[d].marker
  /\ dir' = [dir EXCEPT ![d] = Gone]

\* From here on the directory is this sweep's to remove, not another's.
SweepRemove(p) ==
  LET d == sweep[p].at IN
  /\ proc[p].state = "sweeping" /\ sweep[p].step = "remove"
  /\ \/ Unlink(d) /\ UNCHANGED sweep
     \/ RemoveDir(d) /\ sweep' = [sweep EXCEPT ![p].step = "next"]
  /\ stale' = [q \in Procs |-> IF q = p THEN stale[q] ELSE stale[q] \ {d}]
  /\ UNCHANGED <<proc, flag, init, thread>>

(***************************************************************************)
(* ensure(): a fast path, the lock, the check again, and the creation.     *)
(***************************************************************************)
Running(p, t, at) == proc[p].state = "running" /\ thread[p][t] = at
Goes(p, t, to) == thread' = [thread EXCEPT ![p][t] = to]

EnsureFast(p, t) ==
  /\ Running(p, t, "idle") /\ <<p, t>> \in Uses
  /\ Goes(p, t, IF flag[p] THEN "has" ELSE "lock")
  /\ UNCHANGED <<proc, dir, flag, init, sweep, stale>>

EnsureLock(p, t) ==
  /\ Running(p, t, "lock") /\ init[p] = {}
  /\ init' = [init EXCEPT ![p] = {t}]
  /\ Goes(p, t, "check")
  /\ UNCHANGED <<proc, dir, flag, sweep, stale>>

\* Mutant: the flag is not read again under the lock.
EnsureRecheckSkipped(p, t) ==
  /\ Running(p, t, "check")
  /\ Goes(p, t, "make")
  /\ UNCHANGED <<proc, dir, flag, init, sweep, stale>>

EnsureRecheck(p, t) ==
  /\ Running(p, t, "check")
  /\ Goes(p, t, IF flag[p] THEN "has" ELSE "make")
  /\ init' = [init EXCEPT ![p] = IF flag[p] THEN {} ELSE @]
  /\ UNCHANGED <<proc, dir, flag, sweep, stale>>

\* try_candidate: create_dir, the lock (created empty, then the PID), the
\* marker; a directory that exists already is an error.
CreateDir(p, t) ==
  /\ Running(p, t, "make")
  /\ dir' = [dir EXCEPT ![p].made = TRUE]
  /\ Goes(p, t, IF dir[p].made THEN "collided" ELSE "made")
  /\ init' = [init EXCEPT ![p] = IF dir[p].made THEN {} ELSE @]
  /\ UNCHANGED <<proc, flag, sweep, stale>>

OpenLock(p, t) ==
  /\ Running(p, t, "made")
  /\ dir' = [dir EXCEPT ![p].lock = "empty"]
  /\ Goes(p, t, "locking")
  /\ UNCHANGED <<proc, flag, init, sweep, stale>>

\* Mutant: the marker is published before the PID is in the lock.
WriteLockMarked(p, t) ==
  /\ Running(p, t, "locking")
  /\ dir' = [dir EXCEPT ![p].marker = TRUE]
  /\ Goes(p, t, "locked")
  /\ UNCHANGED <<proc, flag, init, sweep, stale>>

WriteLock(p, t) ==
  /\ Running(p, t, "locking")
  /\ dir' = [dir EXCEPT ![p].lock = "pid", ![p].pid = proc[p].pid]
  /\ Goes(p, t, "locked")
  /\ UNCHANGED <<proc, flag, init, sweep, stale>>

WriteMarker(p, t) ==
  /\ Running(p, t, "locked")
  /\ dir' = [dir EXCEPT ![p].marker = TRUE]
  /\ Goes(p, t, "marked")
  /\ UNCHANGED <<proc, flag, init, sweep, stale>>

Publish(p, t) ==
  /\ Running(p, t, "marked")
  /\ flag' = [flag EXCEPT ![p] = TRUE]
  /\ init' = [init EXCEPT ![p] = {}]
  /\ Goes(p, t, "has")
  /\ UNCHANGED <<proc, dir, sweep, stale>>

(***************************************************************************)
(* The end of a process: the guard is dropped and removes the directory    *)
(* entry by entry, or the process is killed.                               *)
(***************************************************************************)
Quit(p) ==
  /\ proc[p].state = "running" /\ \A t \in Threads : thread[p][t] \in {"idle", "has", "collided"}
  /\ proc' = [proc EXCEPT ![p].state = "dropping"]
  /\ UNCHANGED <<dir, flag, init, thread, sweep, stale>>

DropDir(p) ==
  /\ proc[p].state = "dropping" /\ flag[p]
  /\ \/ Unlink(p) /\ UNCHANGED flag
     \/ RemoveDir(p) /\ flag' = [flag EXCEPT ![p] = FALSE]
  /\ UNCHANGED <<proc, init, thread, sweep, stale>>

Exit(p) ==
  /\ proc[p].state = "dropping" /\ ~flag[p]
  /\ proc' = [proc EXCEPT ![p].state = "dead"]
  /\ UNCHANGED <<dir, flag, init, thread, sweep, stale>>

Killed(p) ==
  /\ proc[p].state \in Live
  /\ proc' = [proc EXCEPT ![p].state = "dead"]
  /\ UNCHANGED <<dir, flag, init, thread, sweep, stale>>

Next ==
  \E p \in Procs :
    \/ \E pid \in Pids : Start(p, pid)
    \/ \E d \in Procs : SweepNext(p, d)
    \/ SweepEnds(p) \/ SweepLock(p) \/ SweepRemove(p)
    \/ \E t \in Threads : \/ EnsureFast(p, t) \/ EnsureLock(p, t) \/ EnsureRecheck(p, t) \/ CreateDir(p, t)
                          \/ OpenLock(p, t) \/ WriteLock(p, t) \/ WriteMarker(p, t) \/ Publish(p, t)
    \/ Quit(p) \/ DropDir(p) \/ Exit(p) \/ Killed(p)

Spec == Init /\ [][Next]_vars

(***************************************************************************)
(* Properties.                                                             *)
(***************************************************************************)
\* No sweep, of whatever process, removes the directory of a process that is
\* running and holds it, nor one it is still creating.
LiveDirKept ==
  \A p \in Procs : proc[p].state = "running" =>
    /\ flag[p] => dir[p].made /\ dir[p].marker /\ dir[p].lock = "pid"
    /\ \A t \in Threads : thread[p][t] \in {"made", "locking", "locked", "marked"} => dir[p].made

\* Whichever threads race for the first use, one creates the directory and
\* every one of them gets it.
EnsureAgrees == \A p \in Procs, t \in Threads : thread[p][t] # "collided" /\ (thread[p][t] = "has" /\ proc[p].state = "running" => flag[p])

\* A sweep that has ended left none of the marked directories whose owner was
\* dead when it began, whose PID nobody took since, and which no other sweep
\* began to remove.
SweepReclaims == \A p \in Procs : proc[p].state = "running" => \A d \in stale[p] : ~dir[d].made

\* What the scratch directories promise, together.
ScratchSound == LiveDirKept /\ EnsureAgrees /\ SweepReclaims
=============================================================================

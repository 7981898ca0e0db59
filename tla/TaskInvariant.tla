--------------------------- MODULE TaskInvariant ----------------------------
(***************************************************************************)
(* The inductive invariant of TaskRegistry, for any number of tasks and    *)
(* any caps: types, ids and entries, then who owns a worker's join handle  *)
(* and what a thread has yet to kill.                                      *)
(***************************************************************************)
EXTENDS TaskRegistry, TLAPS

-----------------------------------------------------------------------------
(* The inductive invariant                                                 *)

KillPcs == {"cancel", "awaitkill", "killbg", "killnamed", "drop"}

\* The steps that are about a task have one.
ArgInv ==
    \A p \in Thread :
        pc[p] \in {"spawn", "await", "barrier", "cancel", "awaitkill"} =>
            arg[p] \in Task

\* next_task_id is above every id handed out.
UnusedIds ==
    /\ pc[Root] # "idle"
    /\ \A t \in Task : t >= nextId => pc[t] = "idle"

\* Nothing is known of a task before its thread runs.
IdleTasks == \A t \in Task : pc[t] = "idle" => phase[t] = "None" /\ ~reaped[t]

IdleThreads ==
    \A p \in Thread : pc[p] = "idle" =>
        bg[p] = {} /\ held[p] = {} /\ joining[p] = None

\* A spawner's id is handed out, to it alone, and its thread not started.
Spawners ==
    \A p \in Thread : pc[p] = "spawn" =>
        arg[p] \in Task /\ arg[p] < nextId /\ pc[arg[p]] = "idle"

SpawnersDiffer ==
    \A p, q \in Thread :
        pc[p] = "spawn" /\ pc[q] = "spawn" /\ arg[p] = arg[q] => p = q

\* A task id is handed out once; its thread starts in the step that
\* publishes its handle.
FreshInv == UnusedIds /\ IdleTasks /\ IdleThreads /\ Spawners /\ SpawnersDiffer

\* Phase, handle and reaped of one entry.
EntryInv ==
    \A t \in Task :
        /\ handle[t] <=> phase[t] \in {"Running", "Awaiting"}
        /\ reaped[t] => Finished(t) /\ phase[t] \in {"Cancelled", "Completed"}
        /\ phase[t] = "Completed" => reaped[t]

\* What the handles a thread took may be, by where the thread is.
HeldOf(p) ==
    /\ joining[p] \notin held[p]
    /\ \A t \in Task : t \in held[p] \/ t = joining[p] => pc[t] # "idle"
    /\ held[p] # {} => pc[p] \in KillPcs \union {"mark"}
    /\ joining[p] # None => pc[p] \in KillPcs
    /\ pc[p] \in {"mark", "killnamed"} => p = Root
    /\ pc[p] \in {"killbg", "drop"} =>
          held[p] \subseteq bg[p] /\ joining[p] \in bg[p] \union {None}
    /\ pc[p] \in {"mark", "killnamed"} =>
          \A t \in Task : t \in held[p] \/ t = joining[p] =>
              phase[t] = "Cancelled" /\ ~reaped[t]
    /\ pc[p] \in {"cancel", "awaitkill"} =>
          /\ arg[p] \in Task
          /\ phase[arg[p]] = "Cancelled" /\ ~reaped[arg[p]]
          /\ held[p] \subseteq {arg[p]}
          /\ joining[p] \in {arg[p], None}
          /\ arg[p] \in held[p] \/ arg[p] = joining[p] \/ Finished(arg[p])
    /\ \A c \in bg[p] : phase[c] = "None" /\ pc[c] # "idle"

HeldInv == \A p \in Thread : HeldOf(p)

\* A handle taken out of an entry has one owner until the entry is reaped.
OwnerInv ==
    \A t \in Task :
        /\ phase[t] # "None" =>
             \A p, q \in Thread : t \in Owns(p) /\ t \in Owns(q) => p = q
        /\ phase[t] = "Cancelled" /\ ~reaped[t] =>
             \E p \in Thread : t \in Owns(p)

\* What a thread has yet to kill of its bg_children, by where it is.
ChildOf(p) ==
    /\ pc[p] = "killbg" =>
          \A c \in bg[p] : ~failFast[p] \/ c >= floor[p] =>
              c \in held[p] \/ c = joining[p] \/ Finished(c)
    /\ pc[p] = "drop" =>
          \A c \in bg[p] : c \in held[p] \/ c = joining[p] \/ Finished(c)
    /\ pc[p] = "bodyok" => \A c \in bg[p] : c < floor[p]
    /\ pc[p] \in {"mark", "killnamed", "torn"} /\ ~failFast[p] => bg[p] = {}

ChildInv == \A p \in Thread : ChildOf(p)

Ownership == HeldInv /\ OwnerInv /\ ChildInv /\ NoOrphans

IInv ==
    /\ TypeOK /\ ArgInv /\ FreshInv /\ EntryInv
    /\ Ownership

-----------------------------------------------------------------------------
(* The steps, sorted by what they do to handles and entries                *)

\* The variables the invariant is about.
core == <<pc, arg, floor, bg, held, joining, failFast, phase, handle, reaped,
          nextId, live>>

\* An error starts a teardown and touches no entry.
Fails(p) ==
    /\ pc[p] \in {"run", "barrier", "torn", "reap", "bodyok"}
    /\ \E ff \in BOOLEAN :
          /\ StartTeardown(p, ff)
          /\ ff => UNCHANGED floor
    /\ \A q \in Thread : q # p => floor'[q] = floor[q]
    /\ UNCHANGED <<bg, joining, phase, handle, reaped, nextId, live>>

\* A thread goes from one place where it owns nothing to another.
Moves(p) ==
    /\ pc[p] \in {"run", "await", "reap", "reapwait", "bodyok"}
    /\ \E next \in {"run", "barrier", "reap", "reapwait", "bodyok"} :
          /\ pc' = [pc EXCEPT ![p] = next]
          /\ next = "barrier" => arg'[p] \in Task
          /\ next = "reapwait" => p = Root
          /\ next = "bodyok" => /\ \A c \in bg[p] : c < floor[p]
                                /\ UNCHANGED floor
    /\ \A q \in Thread : q # p => floor'[q] = floor[q] /\ arg'[q] = arg[q]
    /\ UNCHANGED <<bg, held, joining, failFast, phase, handle, reaped, nextId,
                   live>>

\* What no step takes back: a started thread, a terminal phase, the flag.
StableEntry(t) ==
    /\ pc[t] # "idle" => pc'[t] # "idle"
    /\ pc[t] # "idle" /\ phase[t] = "None" => phase'[t] = "None"
    /\ phase[t] # "None" => phase'[t] # "None"
    /\ phase[t] \in {"Cancelled", "Completed"} => phase'[t] = phase[t]
    /\ reaped[t] => reaped'[t]

EntriesStable == \A t \in Task : StableEntry(t)

\* A thread that ended stays ended.
FinishedStays == \A t \in Thread : Finished(t) => pc'[t] = pc[t]

\* A thread the step is not about: at most it is started.
Bystander(q) ==
    /\ arg'[q] = arg[q] /\ floor'[q] = floor[q] /\ bg'[q] = bg[q]
    /\ held'[q] = held[q] /\ joining'[q] = joining[q]
    /\ failFast'[q] = failFast[q]
    /\ \/ pc'[q] = pc[q]
       \/ pc[q] = "idle" /\ pc'[q] = "run"

\* No entry whose teardown is in q's hands is marked reaped by the step.
KeepsClaims(q) ==
    \A t \in Task : t \in Owns(q) /\ phase[t] = "Cancelled" /\ ~reaped[t] =>
        ~reaped'[t]

\* What p takes was in an entry or is its own child; what it lets go of is
\* a child or reaped; and what is cancelled by the step is in its hands.
Hands(p) ==
    \A t \in Task :
        /\ t \in Owns(p)' /\ t \notin Owns(p) =>
              phase'[t] = "None" \/ phase[t] \in {"Running", "Awaiting"}
        /\ t \in Owns(p) /\ t \notin Owns(p)' => phase'[t] = "None" \/ reaped'[t]
        /\ phase'[t] = "Cancelled" /\ phase[t] # "Cancelled" => t \in Owns(p)'

\* p keeps its running children, and takes the ones that start.
Cares(p) ==
    \A c \in Task :
        Alive(c)' /\ phase'[c] = "None" /\ (c \in bg[p] \/ ~Alive(c)) =>
            c \in bg'[p] /\ Alive(p)'

\* CANCEL is left in one way.
LeavesCancel ==
    \A q \in Thread : pc[q] = "cancel" /\ pc'[q] # "cancel" => CancelReturns(q)

\* Every other step.
Works ==
    \/ \E p \in Thread :
          \/ SpawnNamed(p) \/ SpawnAnonymous(p) \/ AllocTaskId(p)
          \/ AwaitInterrupted(p) \/ AwaitDone(p) \/ AwaitFails(p)
          \/ AwaitKillDone(p) \/ CancelReturns(p) \/ KillJoins(p)
          \/ KillBgDone(p) \/ ThreadFails(p) \/ ThreadSucceeds(p)
          \/ Return(p) \/ Dropped(p)
          \/ \E t \in Task : \/ AwaitClaims(p, t) \/ CancelTakes(p, t)
                             \/ KillSignals(p, t) \/ ReapBg(p, t)
    \/ \E t \in Task : Mark(t) \/ ReapNamed(t) \/ ReapNamedFails(t)
    \/ MarkDone \/ KillNamedDone

\* The steps of ASYNC, AWAIT and CANCEL among them.
Requests ==
    \E p \in Thread :
        \/ SpawnNamed(p) \/ SpawnAnonymous(p) \/ AllocTaskId(p)
        \/ AwaitInterrupted(p) \/ AwaitDone(p) \/ AwaitFails(p)
        \/ AwaitKillDone(p) \/ CancelReturns(p)
        \/ \E t \in Task : AwaitClaims(p, t) \/ CancelTakes(p, t)

\* The caps of alloc_task_id are natural numbers.
LEMMA BoundsAreNat == MaxTasks \in Nat /\ MaxRunning \in Nat
  BY Zenon, TaskAssumption

\* A sweep collects only registered ids.
LEMMA SweepCollectsRegistered == SweepCollect \subseteq registry
  BY Zenon DEF SweepCollect

\* Every step of a script run changes nothing the invariant is about, starts
\* a teardown, moves between places where no handle is held, or is one of
\* the steps that handle entries and join handles.
LEMMA StepCases ==
    TypeOK /\ ArgInv /\ [Next]_vars =>
        UNCHANGED core \/ (\E p \in Thread : Fails(p) \/ Moves(p)) \/ Works
<1> SUFFICES ASSUME TypeOK, ArgInv, [Next]_vars
             PROVE  UNCHANGED core \/ (\E p \in Thread : Fails(p) \/ Moves(p)) \/ Works
  BY Zenon
<1> USE DEF TypeOK, scopeVars, entryVars, allocVars, core
<1>1. ASSUME NEW p \in Thread,
             \/ StepCancelled(p) \/ StepFails(p) \/ AllocRefused(p)
             \/ BarrierOpens(p) \/ FailFastDone(p) \/ TimeoutFails(p)
             \/ ReapInterrupted(p) \/ TimeoutExpired(p) \/ ReturnExpired(p)
      PROVE  Fails(p)
  BY ZenonT(60), <1>1 DEF Fails, CanStep, StepCancelled, StepFails, AllocRefused,
     BarrierOpens, FailFastDone, TimeoutFails, ReapInterrupted, TimeoutExpired,
     ReturnExpired
<1>2. ASSUME NEW p \in Thread, NEW t \in Task,
             AwaitRefused(p, t) \/ CancelRefused(p, t) \/ ReapBgFails(p, t)
      PROVE  Fails(p)
  BY ZenonT(60), <1>2 DEF Fails, CanStep, AwaitRefused, CancelRefused, ReapBgFails
<1>3. ASSUME NEW p \in Thread,
             \/ AwaitObservesTaken(p) \/ EndBody(p) \/ ReapDone(p)
             \/ TimeoutDone(p)
      PROVE  Moves(p)
  <2>1. ASSUME ~Pending(p), NEW c \in bg[p] PROVE c < floor[p]
    BY <2>1 DEF Pending, InScope, Task
  <2>2. CASE AwaitObservesTaken(p)
    BY Zenon, <2>2 DEF Moves, AwaitObservesTaken, ArgInv
  <2>3. CASE EndBody(p)
    BY ZenonT(60), <2>3, <2>1 DEF Moves, EndBody
  <2>4. CASE ReapDone(p)
    BY Zenon, <2>4, <2>1 DEF Moves, ReapDone
  <2>5. CASE TimeoutDone(p)
    BY Zenon, <2>5 DEF Moves, TimeoutDone
  <2> QED
    BY Zenon, <1>3, <2>2, <2>3, <2>4, <2>5
<1>4. ASSUME NEW p \in Thread, EnterTimeout(p) PROVE Moves(p)
  BY ZenonT(60), <1>4 DEF Moves, EnterTimeout, CanStep
<1>5. ASSUME NEW p \in Thread, NEW t \in Task, AwaitFindsCancelled(p, t)
      PROVE  Moves(p)
  BY Zenon, <1>5 DEF Moves, AwaitFindsCancelled, CanStep
<1>6. ASSUME Rendezvous \/ RendezvousDone PROVE Moves(Root) /\ Root \in Thread
  BY SMTT(60), <1>6, BoundsAreNat DEF Moves, Rendezvous, RendezvousDone, Root,
     Thread
<1>7. ASSUME NEW p \in Thread, Deadline(p) PROVE UNCHANGED core
  BY Zenon, <1>7 DEF Deadline
<1>8. CASE UNCHANGED vars
  BY Zenon, <1>8 DEF vars
<1> QED
  BY ZenonT(60), <1>1, <1>2, <1>3, <1>4, <1>5, <1>6, <1>7, <1>8
     DEF Next, Step, Proceed, RootProceed, Works

-----------------------------------------------------------------------------
(* Types                                                                   *)

\* A fresh ExecState has the right types.
LEMMA TypeInit == Init => TypeOK /\ ArgInv
  BY SMTT(60), BoundsAreNat DEF Init, TypeOK, ArgInv, Task, Thread, Root, None

\* Every step of a script run keeps the types.
LEMMA TypeStep == TypeOK /\ ArgInv /\ [Next]_vars => TypeOK'
<1> SUFFICES ASSUME TypeOK, ArgInv, [Next]_vars PROVE TypeOK'
  BY ZenonT(60)
<1> USE BoundsAreNat DEF TypeOK, ArgInv, Task, Thread, Root, None, scopeVars,
        entryVars, allocVars, StartTeardown, InScope
<1>1. ASSUME NEW p \in Thread, StepCancelled(p) PROVE TypeOK'
  BY ZenonT(60), <1>1 DEF StepCancelled
<1>2. ASSUME NEW p \in Thread, SpawnNamed(p) PROVE TypeOK'
  BY ZenonT(60), <1>2 DEF SpawnNamed, PhaseAfterSweep, HandleAfterSweep
<1>3. ASSUME NEW p \in Thread, SpawnAnonymous(p) PROVE TypeOK'
  BY ZenonT(60), <1>3 DEF SpawnAnonymous, PhaseAfterSweep, HandleAfterSweep
<1>4. ASSUME NEW p \in Thread, AwaitObservesTaken(p) PROVE TypeOK'
  BY Zenon, <1>4 DEF AwaitObservesTaken
<1>5. ASSUME NEW p \in Thread, AwaitInterrupted(p) PROVE TypeOK'
  <2>1. arg[p] \in Task
    BY Zenon, <1>5 DEF AwaitInterrupted
  <2>2. held' \in [Thread -> SUBSET Task]
    BY ZenonT(60), <1>5, <2>1 DEF AwaitInterrupted
  <2> QED
    BY ZenonT(60), <1>5, <2>1, <2>2 DEF AwaitInterrupted
<1>6. ASSUME NEW p \in Thread, AwaitDone(p) PROVE TypeOK'
  <2>1. arg[p] \in Task
    BY Zenon, <1>6 DEF AwaitDone, AwaitReaps
  <2>2. knows' \in [Thread -> SUBSET Task]
    BY SMTT(60), <1>6, <2>1 DEF AwaitDone
  <2> QED
    BY Zenon, <1>6, <2>1, <2>2 DEF AwaitDone, AwaitReaps
<1>7. ASSUME NEW p \in Thread, AwaitFails(p) PROVE TypeOK'
  BY ZenonT(60), <1>7 DEF AwaitFails, AwaitReaps
<1>8. ASSUME NEW p \in Thread, BarrierOpens(p) PROVE TypeOK'
  BY ZenonT(60), <1>8 DEF BarrierOpens
<1>9. ASSUME NEW p \in Thread, AwaitKillDone(p) PROVE TypeOK'
  BY ZenonT(60), <1>9 DEF AwaitKillDone
<1>10. ASSUME NEW p \in Thread, CancelReturns(p) PROVE TypeOK'
  BY Zenon, <1>10 DEF CancelReturns
<1>11. ASSUME NEW p \in Thread, KillJoins(p) PROVE TypeOK'
  BY Zenon, <1>11 DEF KillJoins
<1>12. ASSUME NEW p \in Thread, KillBgDone(p) PROVE TypeOK'
  BY ZenonT(60), <1>12 DEF KillBgDone
<1>13. ASSUME NEW p \in Thread, FailFastDone(p) PROVE TypeOK'
  BY Zenon, <1>13 DEF FailFastDone
<1>14. ASSUME NEW p \in Thread, TimeoutFails(p) PROVE TypeOK'
  BY ZenonT(60), <1>14 DEF TimeoutFails
<1>15. ASSUME NEW p \in Thread, ThreadFails(p) PROVE TypeOK'
  BY SMTT(60), <1>15 DEF ThreadFails, ThreadEnds
<1>16. ASSUME NEW p \in Thread, ReapInterrupted(p) PROVE TypeOK'
  BY Zenon, <1>16 DEF ReapInterrupted
<1>17. ASSUME NEW p \in Thread, ReapDone(p) PROVE TypeOK'
  BY Zenon, <1>17 DEF ReapDone
<1>18. ASSUME NEW p \in Thread, TimeoutDone(p) PROVE TypeOK'
  BY Zenon, <1>18 DEF TimeoutDone
<1>19. ASSUME NEW p \in Thread, TimeoutExpired(p) PROVE TypeOK'
  BY Zenon, <1>19 DEF TimeoutExpired
<1>20. ASSUME NEW p \in Thread, ThreadSucceeds(p) PROVE TypeOK'
  <2>1. live' \in Int
    BY <1>20 DEF ThreadSucceeds, ThreadEnds
  <2> QED
    BY Zenon, <1>20, <2>1 DEF ThreadSucceeds, ThreadEnds
<1>21. ASSUME NEW p \in Thread, Dropped(p) PROVE TypeOK'
  BY SMTT(60), <1>21 DEF Dropped, ThreadEnds
<1>22. ASSUME NEW p \in Thread, StepFails(p) PROVE TypeOK'
  BY Zenon, <1>22 DEF StepFails
<1>r. ASSUME NEW p \in Thread, ReturnExpired(p) PROVE TypeOK'
  BY ZenonT(60), <1>r DEF ReturnExpired
<1>23. ASSUME NEW p \in Thread, AllocTaskId(p) PROVE TypeOK'
  <2>1. nextId' \in 1..(MaxTasks + 1) /\ live' \in Int
    BY SMTT(60), <1>23 DEF AllocTaskId
  <2>2. arg' \in [Thread -> Task \union {None}]
    BY SMTT(60), <1>23 DEF AllocTaskId
  <2>3. victims' \in [Thread -> SUBSET Task]
    BY ZenonT(60), <1>23, SweepCollectsRegistered DEF AllocTaskId
  <2>4. bg' \in [Thread -> SUBSET Task]
    BY ZenonT(60), <1>23 DEF AllocTaskId
  <2> QED
    BY ZenonT(60), <1>23, <2>1, <2>2, <2>3, <2>4 DEF AllocTaskId
<1>24. ASSUME NEW p \in Thread, AllocRefused(p) PROVE TypeOK'
  BY ZenonT(60), <1>24 DEF AllocRefused
<1>25. ASSUME NEW p \in Thread, EnterTimeout(p) PROVE TypeOK'
  BY SMTT(60), <1>25 DEF EnterTimeout
<1>26. ASSUME NEW p \in Thread, EndBody(p) PROVE TypeOK'
  BY Zenon, <1>26 DEF EndBody
<1>27. ASSUME NEW p \in Thread, Return(p) PROVE TypeOK'
  BY Zenon, <1>27 DEF Return
<1>28. ASSUME NEW p \in Thread, Deadline(p) PROVE TypeOK'
  BY Zenon, <1>28 DEF Deadline
<1>29. ASSUME NEW p \in Thread, NEW t \in Task, KillSignals(p, t) PROVE TypeOK'
  BY ZenonT(60), <1>29 DEF KillSignals
<1>30. ASSUME NEW p \in Thread, NEW t \in Task, ReapBg(p, t) PROVE TypeOK'
  BY ZenonT(60), <1>30 DEF ReapBg
<1>31. ASSUME NEW p \in Thread, NEW t \in Task, ReapBgFails(p, t) PROVE TypeOK'
  BY ZenonT(60), <1>31 DEF ReapBgFails
<1>32. ASSUME NEW p \in Thread, NEW t \in Task, AwaitClaims(p, t) PROVE TypeOK'
  BY ZenonT(60), <1>32 DEF AwaitClaims
<1>33. ASSUME NEW p \in Thread, NEW t \in Task, AwaitFindsCancelled(p, t) PROVE TypeOK'
  BY ZenonT(60), <1>33 DEF AwaitFindsCancelled
<1>34. ASSUME NEW p \in Thread, NEW t \in Task, AwaitRefused(p, t) PROVE TypeOK'
  BY ZenonT(60), <1>34 DEF AwaitRefused
<1>35. ASSUME NEW p \in Thread, NEW t \in Task, CancelTakes(p, t) PROVE TypeOK'
  BY SMTT(60), <1>35 DEF CancelTakes
<1>36. ASSUME NEW p \in Thread, NEW t \in Task, CancelRefused(p, t) PROVE TypeOK'
  BY ZenonT(60), <1>36 DEF CancelRefused
<1>37. ASSUME NEW t \in Task, Mark(t) PROVE TypeOK'
  <2>1. phase' \in [Task -> {"None", "Running", "Awaiting", "Cancelled",
                             "Completed", "Gone"}]
    BY Zenon, <1>37 DEF Mark
  <2>2. handle' \in [Task -> BOOLEAN]
    BY ZenonT(60), <1>37 DEF Mark
  <2>3. held' \in [Thread -> SUBSET Task]
    BY ZenonT(60), <1>37 DEF Mark
  <2> QED
    BY ZenonT(60), <1>37, <2>1, <2>2, <2>3 DEF Mark
<1>38. ASSUME NEW t \in Task, ReapNamed(t) PROVE TypeOK'
  BY Zenon, <1>38 DEF ReapNamed, PollNamed
<1>39. ASSUME NEW t \in Task, ReapNamedFails(t) PROVE TypeOK'
  BY ZenonT(60), <1>39 DEF ReapNamedFails, PollNamed
<1>40. ASSUME MarkDone PROVE TypeOK'
  BY Zenon, <1>40 DEF MarkDone
<1>41. ASSUME KillNamedDone PROVE TypeOK'
  BY Zenon, <1>41 DEF KillNamedDone
<1>42. ASSUME Rendezvous PROVE TypeOK'
  BY ZenonT(60), <1>42 DEF Rendezvous
<1>43. ASSUME RendezvousDone PROVE TypeOK'
  BY Zenon, <1>43 DEF RendezvousDone
<1>44. CASE UNCHANGED vars
  BY Zenon, <1>44 DEF vars
<1> QED
  BY ZenonT(60), <1>1, <1>2, <1>3, <1>4, <1>5, <1>6, <1>7, <1>8, <1>9, <1>10,
     <1>11, <1>12, <1>13, <1>14, <1>15, <1>16, <1>17, <1>18, <1>19, <1>20,
     <1>21, <1>22, <1>23, <1>24, <1>25, <1>26, <1>27, <1>28, <1>29, <1>30,
     <1>31, <1>32, <1>33, <1>34, <1>35, <1>36, <1>37, <1>38, <1>39, <1>40,
     <1>41, <1>42, <1>43, <1>44, <1>r
     DEF Next, Step, Proceed, RootProceed

\* ASYNC, AWAIT and CANCEL know the task they are about until they are over.
LEMMA ArgStep ==
    TypeOK /\ ArgInv /\ [Next]_vars => ArgInv'
<1> SUFFICES ASSUME TypeOK, ArgInv, [Next]_vars PROVE ArgInv'
  BY Zenon
<1> USE BoundsAreNat DEF TypeOK, ArgInv, Task, Thread, Root, None, entryVars, scopeVars, allocVars
<1>1. ASSUME NEW p \in Thread, Fails(p) PROVE ArgInv'
  BY ZenonT(60), <1>1 DEF Fails, StartTeardown
<1>2. ASSUME NEW p \in Thread, Moves(p) PROVE ArgInv'
  BY ZenonT(60), <1>2 DEF Moves
<1>3. ASSUME NEW p \in Thread, SpawnNamed(p) PROVE ArgInv'
  BY ZenonT(60), <1>3 DEF SpawnNamed
<1>4. ASSUME NEW p \in Thread, SpawnAnonymous(p) PROVE ArgInv'
  BY ZenonT(60), <1>4 DEF SpawnAnonymous
<1>5. ASSUME NEW p \in Thread, AllocTaskId(p) PROVE ArgInv'
  BY SMTT(60), <1>5 DEF AllocTaskId, CanStep
<1>6. ASSUME NEW p \in Thread, NEW t \in Task, AwaitClaims(p, t) PROVE ArgInv'
  BY ZenonT(60), <1>6 DEF AwaitClaims, CanStep
<1>7. ASSUME NEW p \in Thread, AwaitInterrupted(p) PROVE ArgInv'
  BY ZenonT(60), <1>7 DEF AwaitInterrupted
<1>8. ASSUME NEW p \in Thread, AwaitDone(p) PROVE ArgInv'
  BY ZenonT(60), <1>8 DEF AwaitDone, AwaitReaps
<1>9. ASSUME NEW p \in Thread, AwaitFails(p) PROVE ArgInv'
  BY ZenonT(60), <1>9 DEF AwaitFails, AwaitReaps, StartTeardown
<1>10. ASSUME NEW p \in Thread, AwaitKillDone(p) PROVE ArgInv'
  BY ZenonT(60), <1>10 DEF AwaitKillDone, StartTeardown
<1>11. ASSUME NEW p \in Thread, NEW t \in Task, CancelTakes(p, t) PROVE ArgInv'
  BY Zenon, <1>11 DEF CancelTakes, CanStep
<1>12. ASSUME NEW p \in Thread, CancelReturns(p) PROVE ArgInv'
  BY ZenonT(60), <1>12 DEF CancelReturns
<1>13. ASSUME NEW p \in Thread, NEW t \in Task, KillSignals(p, t) PROVE ArgInv'
  BY ZenonT(60), <1>13 DEF KillSignals
<1>14. ASSUME NEW p \in Thread, KillJoins(p) PROVE ArgInv'
  BY Zenon, <1>14 DEF KillJoins
<1>15. ASSUME NEW p \in Thread, KillBgDone(p) PROVE ArgInv'
  BY SMTT(60), <1>15 DEF KillBgDone
<1>16. ASSUME NEW t \in Task, Mark(t) PROVE ArgInv'
  BY Zenon, <1>16 DEF Mark
<1>17. ASSUME MarkDone PROVE ArgInv'
  BY Zenon, <1>17 DEF MarkDone
<1>18. ASSUME KillNamedDone PROVE ArgInv'
  BY Zenon, <1>18 DEF KillNamedDone
<1>19. ASSUME NEW p \in Thread, ThreadFails(p) PROVE ArgInv'
  BY ZenonT(60), <1>19 DEF ThreadFails, ThreadEnds
<1>20. ASSUME NEW p \in Thread, ThreadSucceeds(p) PROVE ArgInv'
  BY ZenonT(60), <1>20 DEF ThreadSucceeds, ThreadEnds
<1>21. ASSUME NEW p \in Thread, NEW t \in Task, ReapBg(p, t) PROVE ArgInv'
  BY Zenon, <1>21 DEF ReapBg
<1>22. ASSUME NEW t \in Task, ReapNamed(t) PROVE ArgInv'
  BY Zenon, <1>22 DEF ReapNamed, PollNamed
<1>23. ASSUME NEW t \in Task, ReapNamedFails(t) PROVE ArgInv'
  BY ZenonT(60), <1>23 DEF ReapNamedFails, PollNamed, StartTeardown
<1>24. ASSUME NEW p \in Thread, Return(p) PROVE ArgInv'
  BY Zenon, <1>24 DEF Return, CanStep
<1>25. ASSUME NEW p \in Thread, Dropped(p) PROVE ArgInv'
  BY ZenonT(60), <1>25 DEF Dropped, ThreadEnds
<1>26. CASE UNCHANGED core
  BY Zenon, <1>26 DEF core
<1> QED
  BY ZenonT(60), StepCases,
     <1>1, <1>2, <1>3, <1>4, <1>5, <1>6, <1>7, <1>8, <1>9, <1>10,
     <1>11, <1>12, <1>13, <1>14, <1>15, <1>16, <1>17, <1>18, <1>19, <1>20,
     <1>21, <1>22, <1>23, <1>24, <1>25, <1>26
     DEF Works

-----------------------------------------------------------------------------
(* The inductive invariant, conjunct by conjunct                           *)

\* A fresh ExecState: no task, no entry, no handle.
LEMMA InvInit ==
    Init => FreshInv /\ EntryInv /\ Ownership
  BY SMTT(60), BoundsAreNat DEF Init, FreshInv, UnusedIds, IdleTasks,
     IdleThreads,
     Spawners, SpawnersDiffer, EntryInv, Ownership, HeldInv, HeldOf,
     OwnerInv,
     ChildInv, ChildOf, NoOrphans, Owns, Alive, Finished, Task, Thread, Root,
     None, KillPcs

\* A thread that returned from its closure takes no further step.
LEMMA FinishedStable ==
    TypeOK /\ ArgInv /\ FreshInv /\ [Next]_vars => FinishedStays
<1> SUFFICES ASSUME TypeOK, ArgInv, FreshInv, [Next]_vars PROVE FinishedStays
  BY Zenon
<1> USE BoundsAreNat DEF TypeOK, ArgInv, Task, Thread, Root, None, entryVars, scopeVars, allocVars,
        Finished, FinishedStays
<1>1. ASSUME NEW p \in Thread, Fails(p) PROVE FinishedStays
  BY Zenon, <1>1 DEF Fails, StartTeardown
<1>2. ASSUME NEW p \in Thread, Moves(p) PROVE FinishedStays
  BY Zenon, <1>2 DEF Moves
<1>3. ASSUME NEW p \in Thread, SpawnNamed(p) PROVE FinishedStays
  BY Zenon, <1>3 DEF SpawnNamed, PhaseAfterSweep, HandleAfterSweep, Evicted,
     FreshInv, Spawners
<1>4. ASSUME NEW p \in Thread, SpawnAnonymous(p) PROVE FinishedStays
  BY Zenon, <1>4 DEF SpawnAnonymous, PhaseAfterSweep, HandleAfterSweep,
     Evicted,
     FreshInv, Spawners
<1>5. ASSUME NEW p \in Thread, AllocTaskId(p) PROVE FinishedStays
  BY Zenon, <1>5 DEF AllocTaskId, CanStep
<1>6. ASSUME NEW p \in Thread, NEW t \in Task, AwaitClaims(p, t) PROVE FinishedStays
  BY Zenon, <1>6 DEF AwaitClaims, CanStep
<1>7. ASSUME NEW p \in Thread, AwaitInterrupted(p) PROVE FinishedStays
  BY Zenon, <1>7 DEF AwaitInterrupted
<1>8. ASSUME NEW p \in Thread, AwaitDone(p) PROVE FinishedStays
  BY Zenon, <1>8 DEF AwaitDone, AwaitReaps
<1>9. ASSUME NEW p \in Thread, AwaitFails(p) PROVE FinishedStays
  BY Zenon, <1>9 DEF AwaitFails, AwaitReaps, StartTeardown
<1>10. ASSUME NEW p \in Thread, AwaitKillDone(p) PROVE FinishedStays
  BY Zenon, <1>10 DEF AwaitKillDone, StartTeardown
<1>11. ASSUME NEW p \in Thread, NEW t \in Task, CancelTakes(p, t) PROVE FinishedStays
  BY Zenon, <1>11 DEF CancelTakes, CanStep
<1>12. ASSUME NEW p \in Thread, CancelReturns(p) PROVE FinishedStays
  BY Zenon, <1>12 DEF CancelReturns
<1>13. ASSUME NEW p \in Thread, NEW t \in Task, KillSignals(p, t) PROVE FinishedStays
  BY Zenon, <1>13 DEF KillSignals
<1>14. ASSUME NEW p \in Thread, KillJoins(p) PROVE FinishedStays
  BY Zenon, <1>14 DEF KillJoins
<1>15. ASSUME NEW p \in Thread, KillBgDone(p) PROVE FinishedStays
  BY ZenonT(60), <1>15 DEF KillBgDone
<1>16. ASSUME NEW t \in Task, Mark(t) PROVE FinishedStays
  BY Zenon, <1>16 DEF Mark
<1>17. ASSUME MarkDone PROVE FinishedStays
  BY Zenon, <1>17 DEF MarkDone
<1>18. ASSUME KillNamedDone PROVE FinishedStays
  BY Zenon, <1>18 DEF KillNamedDone
<1>19. ASSUME NEW p \in Thread, ThreadFails(p) PROVE FinishedStays
  BY Zenon, <1>19 DEF ThreadFails, ThreadEnds
<1>20. ASSUME NEW p \in Thread, ThreadSucceeds(p) PROVE FinishedStays
  BY Zenon, <1>20 DEF ThreadSucceeds, ThreadEnds
<1>21. ASSUME NEW p \in Thread, NEW t \in Task, ReapBg(p, t) PROVE FinishedStays
  BY Zenon, <1>21 DEF ReapBg
<1>22. ASSUME NEW t \in Task, ReapNamed(t) PROVE FinishedStays
  BY ZenonT(60), <1>22 DEF ReapNamed, PollNamed
<1>23. ASSUME NEW t \in Task, ReapNamedFails(t) PROVE FinishedStays
  BY ZenonT(60), <1>23 DEF ReapNamedFails, PollNamed, StartTeardown
<1>24. ASSUME NEW p \in Thread, Return(p) PROVE FinishedStays
  BY ZenonT(60), <1>24 DEF Return, CanStep
<1>25. ASSUME NEW p \in Thread, Dropped(p) PROVE FinishedStays
  BY ZenonT(60), <1>25 DEF Dropped, ThreadEnds
<1>26. CASE UNCHANGED core
  BY ZenonT(60), <1>26 DEF core
<1> QED
  BY Zenon, StepCases,
     <1>1, <1>2, <1>3, <1>4, <1>5, <1>6, <1>7, <1>8, <1>9, <1>10,
     <1>11, <1>12, <1>13, <1>14, <1>15, <1>16, <1>17, <1>18, <1>19, <1>20,
     <1>21, <1>22, <1>23, <1>24, <1>25, <1>26
     DEF Works

\* A step that hands out no id and starts no thread.
SameIds ==
    /\ nextId' = nextId
    /\ \A q \in Thread :
          /\ pc'[q] = "idle" <=> pc[q] = "idle"
          /\ pc'[q] = "spawn" => pc[q] = "spawn" /\ arg'[q] = arg[q]
          /\ pc[q] = "idle" =>
                bg'[q] = bg[q] /\ held'[q] = held[q] /\ joining'[q] = joining[q]
    /\ \A u \in Task : pc[u] = "idle" /\ phase[u] = "None" =>
          phase'[u] = phase[u] /\ reaped'[u] = reaped[u]

\* Such a step keeps what is known of ids.
LEMMA IdsKept ==
    ASSUME FreshInv, SameIds
    PROVE  FreshInv'
<1> USE DEF SameIds
<1>r. Root \in Thread /\ Task \subseteq Thread
  BY SMTT(60), BoundsAreNat DEF Root, Thread, Task
<1>1. UnusedIds'
  BY Zenon, <1>r DEF FreshInv, UnusedIds
<1>2. IdleTasks'
  BY ZenonT(60), <1>r DEF FreshInv, IdleTasks
<1>3. IdleThreads'
  BY ZenonT(60) DEF FreshInv, IdleThreads
<1>4. Spawners'
  BY SMTT(60), <1>r DEF FreshInv, Spawners
<1>5. SpawnersDiffer'
  BY ZenonT(60) DEF FreshInv, SpawnersDiffer
<1> QED
  BY ZenonT(60), <1>1, <1>2, <1>3, <1>4, <1>5 DEF FreshInv

\* A spawner publishes its task: the id is used up and its thread starts.
LEMMA IdsPublished ==
    ASSUME TypeOK, FreshInv, NEW p \in Thread, pc[p] = "spawn",
           pc' = [pc EXCEPT ![p] = "run", ![arg[p]] = "run"],
           arg' = [arg EXCEPT ![p] = None],
           nextId' = nextId,
           \A q \in Thread : q # p => bg'[q] = bg[q],
           UNCHANGED <<held, joining>>,
           \A u \in Task : u # arg[p] /\ phase[u] = "None" =>
               phase'[u] = phase[u] /\ reaped'[u] = reaped[u]
    PROVE  FreshInv'
<1>r. Root \in Thread /\ Task \subseteq Thread
  BY SMTT(60), BoundsAreNat DEF Root, Thread, Task
<1>1. /\ arg[p] \in Task /\ arg[p] < nextId /\ pc[arg[p]] = "idle"
      /\ arg[p] # p
  BY Zenon DEF FreshInv, Spawners
<1>2. \A q \in Thread :
         /\ pc'[q] = "idle" <=> pc[q] = "idle" /\ q # arg[p]
         /\ pc'[q] = "spawn" <=> pc[q] = "spawn" /\ q # p
         /\ q # p => arg'[q] = arg[q]
  BY ZenonT(60), <1>r, <1>1 DEF TypeOK
<1>3. UnusedIds'
  BY SMTT(60), <1>r, <1>1, <1>2 DEF FreshInv, UnusedIds, TypeOK, Task, Root
<1>4. IdleTasks'
  BY ZenonT(60), <1>r, <1>1, <1>2 DEF FreshInv, IdleTasks
<1>5. IdleThreads'
  BY ZenonT(60), <1>2 DEF FreshInv, IdleThreads
<1>6. ASSUME NEW q \in Thread, pc'[q] = "spawn"
      PROVE  arg'[q] \in Task /\ arg'[q] < nextId' /\ pc'[arg'[q]] = "idle"
  <2>1. pc[q] = "spawn" /\ q # p /\ arg'[q] = arg[q]
    BY ZenonT(60), <1>2, <1>6
  <2>2. arg[q] \in Task /\ arg[q] < nextId /\ pc[arg[q]] = "idle"
    BY ZenonT(60), <2>1 DEF FreshInv, Spawners
  <2>3. arg[q] # arg[p]
    BY ZenonT(60), <2>1 DEF FreshInv, SpawnersDiffer
  <2>4. arg[q] \in Thread /\ pc'[arg[q]] = "idle"
    BY ZenonT(60), <1>r, <1>2, <2>2, <2>3
  <2> QED
    BY ZenonT(60), <2>1, <2>2, <2>4
<1>7. SpawnersDiffer'
  BY SMTT(60), <1>2 DEF FreshInv, SpawnersDiffer
<1> QED
  BY ZenonT(60), <1>3, <1>4, <1>5, <1>6, <1>7 DEF FreshInv, Spawners

\* next_task_id hands out every id once, also to two threads in ASYNC.
LEMMA FreshStep ==
    TypeOK /\ ArgInv /\ FreshInv /\ EntryInv /\ HeldInv /\ [Next]_vars => FreshInv'
<1> SUFFICES ASSUME TypeOK, ArgInv, FreshInv, EntryInv, HeldInv, [Next]_vars
             PROVE  FreshInv'
  BY Zenon
<1> USE BoundsAreNat DEF TypeOK, Task, Thread, Root, None, entryVars, scopeVars,
                         allocVars, SameIds
<1>1. ASSUME NEW p \in Thread, Fails(p) PROVE FreshInv'
  <2>1. SameIds
    BY ZenonT(60), <1>1 DEF Fails, StartTeardown
  <2> QED
    BY Zenon, <2>1, IdsKept
<1>2. ASSUME NEW p \in Thread, Moves(p) PROVE FreshInv'
  <2>1. SameIds
    BY ZenonT(60), <1>2 DEF Moves
  <2> QED
    BY Zenon, <2>1, IdsKept
<1>3. ASSUME NEW p \in Thread, SpawnNamed(p) PROVE FreshInv'
  BY ZenonT(60), <1>3, IdsPublished DEF SpawnNamed, PhaseAfterSweep, Evicted
<1>4. ASSUME NEW p \in Thread, SpawnAnonymous(p) PROVE FreshInv'
  BY ZenonT(60), <1>4, IdsPublished DEF SpawnAnonymous, PhaseAfterSweep, Evicted
<1>5. ASSUME NEW p \in Thread, AllocTaskId(p) PROVE FreshInv'
  <2>1. /\ nextId \in Task /\ nextId' = nextId + 1
        /\ pc[p] = "run" /\ pc[nextId] = "idle"
    BY SMTT(60), <1>5 DEF AllocTaskId, CanStep, FreshInv, UnusedIds
  <2>2. \A q \in Thread :
           /\ pc'[q] = "idle" <=> pc[q] = "idle"
           /\ pc'[q] = "spawn" <=> pc[q] = "spawn" \/ q = p
           /\ arg'[q] = IF q = p THEN nextId ELSE arg[q]
           /\ q # p => bg'[q] = bg[q]
    BY ZenonT(60), <1>5, <2>1 DEF AllocTaskId
  <2>3. UNCHANGED <<held, joining, phase, reaped>>
    BY Zenon, <1>5 DEF AllocTaskId
  <2>4. UnusedIds'
    <3>r. Root \in Thread /\ Task \subseteq Thread
      BY SMTT(60), BoundsAreNat DEF Root, Thread, Task
    <3>1. pc'[Root] # "idle"
      BY Zenon, <2>2, <3>r DEF FreshInv, UnusedIds
    <3>2. ASSUME NEW t \in Task, t >= nextId' PROVE pc'[t] = "idle"
      <4>1. t >= nextId
        BY SMTT(60), <2>1, <3>2 DEF Task
      <4> QED
        BY Zenon, <2>2, <3>r, <4>1 DEF FreshInv, UnusedIds
    <3> QED
      BY Zenon, <3>1, <3>2 DEF UnusedIds
  <2>5. IdleTasks'
    BY SMTT(60), <2>2, <2>3 DEF FreshInv, IdleTasks
  <2>6. IdleThreads'
    BY ZenonT(60), <2>1, <2>2, <2>3 DEF FreshInv, IdleThreads
  <2>7. Spawners'
    BY SMTT(60), <2>1, <2>2 DEF FreshInv, Spawners
  <2>8. ASSUME NEW q \in Thread, NEW r \in Thread,
               pc'[q] = "spawn", pc'[r] = "spawn", arg'[q] = arg'[r]
        PROVE  q = r
    <3>1. /\ q # p => pc[q] = "spawn" /\ arg'[q] = arg[q] /\ arg[q] < nextId
          /\ r # p => pc[r] = "spawn" /\ arg'[r] = arg[r] /\ arg[r] < nextId
      BY Zenon, <2>2, <2>8 DEF FreshInv, Spawners
    <3>2. arg'[p] = nextId
      BY ZenonT(60), <2>2
    <3> QED
      BY SMTT(60), <2>1, <2>8, <3>1, <3>2 DEF FreshInv, SpawnersDiffer
  <2> QED
    BY ZenonT(60), <2>4, <2>5, <2>6, <2>7, <2>8 DEF FreshInv, SpawnersDiffer
<1>6. ASSUME NEW p \in Thread, NEW t \in Task, AwaitClaims(p, t) PROVE FreshInv'
  <2>1. SameIds
    BY Zenon, <1>6 DEF AwaitClaims, CanStep
  <2> QED
    BY Zenon, <2>1, IdsKept
<1>7. ASSUME NEW p \in Thread, AwaitInterrupted(p) PROVE FreshInv'
  <2>1. SameIds
    BY ZenonT(60), <1>7 DEF AwaitInterrupted, ArgInv, EntryInv
  <2> QED
    BY Zenon, <2>1, IdsKept
<1>8. ASSUME NEW p \in Thread, AwaitDone(p) PROVE FreshInv'
  <2>1. SameIds
    BY ZenonT(60), <1>8 DEF AwaitDone, AwaitReaps, ArgInv
  <2> QED
    BY Zenon, <2>1, IdsKept
<1>9. ASSUME NEW p \in Thread, AwaitFails(p) PROVE FreshInv'
  <2>1. SameIds
    BY ZenonT(60), <1>9 DEF AwaitFails, AwaitReaps, StartTeardown, ArgInv
  <2> QED
    BY Zenon, <2>1, IdsKept
<1>10. ASSUME NEW p \in Thread, AwaitKillDone(p) PROVE FreshInv'
  <2>0. arg[p] \in Task /\ phase[arg[p]] = "Cancelled"
    BY Zenon, <1>10 DEF AwaitKillDone, HeldInv, HeldOf
  <2>1. SameIds
    BY ZenonT(60), <1>10, <2>0 DEF AwaitKillDone, StartTeardown
  <2> QED
    BY Zenon, <2>1, IdsKept
<1>11. ASSUME NEW p \in Thread, NEW t \in Task, CancelTakes(p, t) PROVE FreshInv'
  <2>1. SameIds
    BY ZenonT(60), <1>11 DEF CancelTakes, CanStep
  <2> QED
    BY Zenon, <2>1, IdsKept
<1>12. ASSUME NEW p \in Thread, CancelReturns(p) PROVE FreshInv'
  <2>0. arg[p] \in Task /\ phase[arg[p]] = "Cancelled"
    BY Zenon, <1>12 DEF CancelReturns, HeldInv, HeldOf
  <2>1. SameIds
    BY ZenonT(60), <1>12, <2>0 DEF CancelReturns
  <2> QED
    BY Zenon, <2>1, IdsKept
<1>13. ASSUME NEW p \in Thread, NEW t \in Task, KillSignals(p, t) PROVE FreshInv'
  <2>1. SameIds
    BY ZenonT(60), <1>13 DEF KillSignals
  <2> QED
    BY Zenon, <2>1, IdsKept
<1>14. ASSUME NEW p \in Thread, KillJoins(p) PROVE FreshInv'
  <2>0. /\ pc[joining[p]] # "idle"
        /\ \A u \in Task : u # joining[p] => reaped'[u] = reaped[u]
        /\ UNCHANGED <<nextId, pc, arg, bg, held, phase>>
        /\ pc[p] # "idle" /\ \A q \in Thread : q # p => joining'[q] = joining[q]
    BY ZenonT(60), <1>14 DEF KillJoins, Finished, FreshInv, IdleThreads
  <2>1. SameIds
    BY ZenonT(60), <2>0
  <2> QED
    BY Zenon, <2>1, IdsKept
<1>15. ASSUME NEW p \in Thread, KillBgDone(p) PROVE FreshInv'
  <2>1. SameIds
    BY SMTT(60), <1>15 DEF KillBgDone
  <2> QED
    BY Zenon, <2>1, IdsKept
<1>16. ASSUME NEW t \in Task, Mark(t) PROVE FreshInv'
  <2>1. SameIds
    BY ZenonT(60), <1>16 DEF Mark
  <2> QED
    BY Zenon, <2>1, IdsKept
<1>17. ASSUME MarkDone PROVE FreshInv'
  <2>1. SameIds
    BY Zenon, <1>17 DEF MarkDone
  <2> QED
    BY Zenon, <2>1, IdsKept
<1>18. ASSUME KillNamedDone PROVE FreshInv'
  <2>1. SameIds
    BY Zenon, <1>18 DEF KillNamedDone
  <2> QED
    BY Zenon, <2>1, IdsKept
<1>19. ASSUME NEW p \in Thread, ThreadFails(p) PROVE FreshInv'
  <2>1. SameIds
    BY Zenon, <1>19 DEF ThreadFails, ThreadEnds
  <2> QED
    BY Zenon, <2>1, IdsKept
<1>20. ASSUME NEW p \in Thread, ThreadSucceeds(p) PROVE FreshInv'
  <2>1. SameIds
    BY Zenon, <1>20 DEF ThreadSucceeds, ThreadEnds
  <2> QED
    BY Zenon, <2>1, IdsKept
<1>21. ASSUME NEW p \in Thread, NEW t \in Task, ReapBg(p, t) PROVE FreshInv'
  <2>1. SameIds
    BY Zenon, <1>21 DEF ReapBg
  <2> QED
    BY Zenon, <2>1, IdsKept
<1>22. ASSUME NEW t \in Task, ReapNamed(t) PROVE FreshInv'
  <2>1. SameIds
    BY ZenonT(60), <1>22 DEF ReapNamed, PollNamed
  <2> QED
    BY Zenon, <2>1, IdsKept
<1>23. ASSUME NEW t \in Task, ReapNamedFails(t) PROVE FreshInv'
  <2>1. SameIds
    BY ZenonT(60), <1>23 DEF ReapNamedFails, PollNamed, StartTeardown
  <2> QED
    BY Zenon, <2>1, IdsKept
<1>24. ASSUME NEW p \in Thread, Return(p) PROVE FreshInv'
  <2>1. SameIds
    BY ZenonT(60), <1>24 DEF Return, CanStep
  <2> QED
    BY Zenon, <2>1, IdsKept
<1>25. ASSUME NEW p \in Thread, Dropped(p) PROVE FreshInv'
  <2>1. SameIds
    BY ZenonT(60), <1>25 DEF Dropped, ThreadEnds
  <2> QED
    BY Zenon, <2>1, IdsKept
<1>26. ASSUME UNCHANGED core PROVE FreshInv'
  <2>1. SameIds
    BY Zenon, <1>26 DEF core
  <2> QED
    BY Zenon, <2>1, IdsKept
<1> QED
  BY Zenon, StepCases,
     <1>1, <1>2, <1>3, <1>4, <1>5, <1>6, <1>7, <1>8, <1>9, <1>10,
     <1>11, <1>12, <1>13, <1>14, <1>15, <1>16, <1>17, <1>18, <1>19, <1>20,
     <1>21, <1>22, <1>23, <1>24, <1>25, <1>26
     DEF Works

\* Whoever writes phase, handle or reaped of an entry leaves them in step.
LEMMA EntryStep ==
    TypeOK /\ ArgInv /\ FreshInv /\ EntryInv /\ HeldInv /\ [Next]_vars => EntryInv'
<1> SUFFICES ASSUME TypeOK, ArgInv, FreshInv, EntryInv, HeldInv, [Next]_vars PROVE EntryInv'
  BY ZenonT(60)
<1> USE BoundsAreNat DEF Task, Thread, Root, None
<1>a. \A t \in Task : Finished(t) => Finished(t)'
  BY SMTT(60), FinishedStable DEF Finished, FinishedStays
<1>0. ASSUME UNCHANGED <<phase, handle, reaped>> PROVE EntryInv'
  BY Zenon, <1>a, <1>0 DEF EntryInv, Finished
<1>1. ASSUME NEW p \in Thread, Fails(p) PROVE EntryInv'
  BY Zenon, <1>0, <1>1 DEF Fails, entryVars
<1>2. ASSUME NEW p \in Thread, Moves(p) PROVE EntryInv'
  BY Zenon, <1>0, <1>2 DEF Moves, entryVars
<1>3. ASSUME NEW p \in Thread, SpawnNamed(p) PROVE EntryInv'
  <2>1. arg[p] \in Task /\ phase[arg[p]] = "None" /\ ~reaped[arg[p]]
    BY Zenon, <1>3 DEF SpawnNamed, FreshInv, Spawners, IdleTasks
  <2>2. UNCHANGED reaped
    BY Zenon, <1>3 DEF SpawnNamed
  <2>3. \A u \in Task : u # arg[p] =>
           \/ phase'[u] = phase[u] /\ handle'[u] = handle[u]
           \/ phase[u] = "Running" /\ phase'[u] = "Gone" /\ ~handle'[u]
    BY ZenonT(60), <1>3, <2>1 DEF TypeOK, SpawnNamed, PhaseAfterSweep, HandleAfterSweep,
       Evicted
  <2>4. phase'[arg[p]] = "Running" /\ handle'[arg[p]]
    BY Zenon, <1>3, <2>1 DEF TypeOK, SpawnNamed, PhaseAfterSweep,
       HandleAfterSweep,
       Evicted,
       EntryInv
  <2> QED
    BY ZenonT(60), <1>a, <2>1, <2>2, <2>3, <2>4 DEF EntryInv, Finished
<1>4. ASSUME NEW p \in Thread, SpawnAnonymous(p) PROVE EntryInv'
  <2>1. arg[p] \in Task /\ phase[arg[p]] = "None" /\ ~reaped[arg[p]]
    BY Zenon, <1>4 DEF SpawnAnonymous, FreshInv, Spawners, IdleTasks
  <2>2. UNCHANGED reaped
    BY Zenon, <1>4 DEF SpawnAnonymous
  <2>3. \A u \in Task : u # arg[p] =>
           \/ phase'[u] = phase[u] /\ handle'[u] = handle[u]
           \/ phase[u] = "Running" /\ phase'[u] = "Gone" /\ ~handle'[u]
    BY ZenonT(60), <1>4, <2>1 DEF TypeOK, SpawnAnonymous, PhaseAfterSweep,
       HandleAfterSweep, Evicted
  <2>4. phase'[arg[p]] = "None" /\ ~handle'[arg[p]]
    BY ZenonT(60), <1>4, <2>1 DEF TypeOK, SpawnAnonymous, PhaseAfterSweep,
       HandleAfterSweep, Evicted,
       EntryInv
  <2> QED
    BY ZenonT(60), <1>a, <2>1, <2>2, <2>3, <2>4 DEF EntryInv, Finished
<1>5. ASSUME NEW p \in Thread, AllocTaskId(p) PROVE EntryInv'
  BY Zenon, <1>0, <1>5 DEF AllocTaskId, entryVars
<1>6. ASSUME NEW p \in Thread, NEW t \in Task, AwaitClaims(p, t) PROVE EntryInv'
  BY ZenonT(60), <1>a, <1>6 DEF AwaitClaims, TypeOK, ArgInv, EntryInv, Finished
<1>7. ASSUME NEW p \in Thread, AwaitInterrupted(p) PROVE EntryInv'
  BY ZenonT(60), <1>a, <1>7 DEF AwaitInterrupted, TypeOK, ArgInv, EntryInv,
     Finished
<1>8. ASSUME NEW p \in Thread, AwaitDone(p) PROVE EntryInv'
  BY SMTT(60), <1>a, <1>8 DEF AwaitDone, AwaitReaps, TypeOK, ArgInv, EntryInv,
     Finished
<1>9. ASSUME NEW p \in Thread, AwaitFails(p) PROVE EntryInv'
  BY ZenonT(60), <1>a, <1>9 DEF AwaitFails, AwaitReaps, TypeOK, ArgInv,
     EntryInv, Finished
<1>10. ASSUME NEW p \in Thread, AwaitKillDone(p) PROVE EntryInv'
  <2>1. Finished(arg[p]) /\ phase[arg[p]] = "Cancelled" /\ arg[p] \in Task
    BY SMTT(60), <1>10 DEF AwaitKillDone, StartTeardown, HeldInv, HeldOf,
       Finished
  <2> QED
    BY SMTT(90), <1>10, <1>a, <2>1 DEF TypeOK, EntryInv, Finished,
       AwaitKillDone,
       StartTeardown
<1>11. ASSUME NEW p \in Thread, NEW t \in Task, CancelTakes(p, t) PROVE EntryInv'
  BY ZenonT(60), <1>a, <1>11 DEF CancelTakes, TypeOK, ArgInv, EntryInv, Finished
<1>12. ASSUME NEW p \in Thread, CancelReturns(p) PROVE EntryInv'
  <2>1. Finished(arg[p]) /\ phase[arg[p]] = "Cancelled" /\ arg[p] \in Task
    <3>1. HeldOf(p) /\ pc[p] = "cancel" /\ held[p] = {} /\ joining[p] = None
      BY ZenonT(60), <1>12 DEF CancelReturns, HeldInv
    <3> QED
      BY SMTT(60), <3>1 DEF HeldOf
  <2> QED
    BY SMTT(60), <1>12, <1>a, <2>1 DEF TypeOK, EntryInv, Finished, CancelReturns
<1>13. ASSUME NEW p \in Thread, NEW t \in Task, KillSignals(p, t) PROVE EntryInv'
  BY Zenon, <1>0, <1>13 DEF KillSignals, entryVars
<1>14. ASSUME NEW p \in Thread, KillJoins(p) PROVE EntryInv'
  BY SMTT(60), <1>a, <1>14 DEF KillJoins, HeldInv, HeldOf, TypeOK, ArgInv,
     EntryInv,
     Finished
<1>15. ASSUME NEW p \in Thread, KillBgDone(p) PROVE EntryInv'
  BY Zenon, <1>0, <1>15 DEF KillBgDone, entryVars
<1>16. ASSUME NEW t \in Task, Mark(t) PROVE EntryInv'
  BY ZenonT(60), <1>a, <1>16 DEF Mark, TypeOK, ArgInv, EntryInv, Finished
<1>17. ASSUME MarkDone PROVE EntryInv'
  BY Zenon, <1>0, <1>17 DEF MarkDone, entryVars
<1>18. ASSUME KillNamedDone PROVE EntryInv'
  BY Zenon, <1>0, <1>18 DEF KillNamedDone, entryVars
<1>19. ASSUME NEW p \in Thread, ThreadFails(p) PROVE EntryInv'
  BY Zenon, <1>0, <1>19 DEF ThreadFails, entryVars
<1>20. ASSUME NEW p \in Thread, ThreadSucceeds(p) PROVE EntryInv'
  BY Zenon, <1>0, <1>20 DEF ThreadSucceeds, entryVars
<1>21. ASSUME NEW p \in Thread, NEW t \in Task, ReapBg(p, t) PROVE EntryInv'
  BY Zenon, <1>0, <1>21 DEF ReapBg, entryVars
<1>22. ASSUME NEW t \in Task, ReapNamed(t) PROVE EntryInv'
  BY ZenonT(60), <1>a, <1>22 DEF ReapNamed, PollNamed, TypeOK, ArgInv, EntryInv,
     Finished
<1>23. ASSUME NEW t \in Task, ReapNamedFails(t) PROVE EntryInv'
  BY ZenonT(60), <1>a, <1>23 DEF ReapNamedFails, PollNamed, TypeOK, ArgInv,
     EntryInv,
     Finished
<1>24. ASSUME NEW p \in Thread, Return(p) PROVE EntryInv'
  BY Zenon, <1>0, <1>24 DEF Return, entryVars
<1>25. ASSUME NEW p \in Thread, Dropped(p) PROVE EntryInv'
  BY Zenon, <1>0, <1>25 DEF Dropped, entryVars
<1>26. CASE UNCHANGED core
  BY ZenonT(60), <1>0, <1>26 DEF core
<1> QED
  BY ZenonT(60), StepCases,
     <1>1, <1>2, <1>3, <1>4, <1>5, <1>6, <1>7, <1>8, <1>9, <1>10,
     <1>11, <1>12, <1>13, <1>14, <1>15, <1>16, <1>17, <1>18, <1>19, <1>20,
     <1>21, <1>22, <1>23, <1>24, <1>25, <1>26
     DEF Works

\* No step takes back a terminal phase, the reaped flag or a thread's start.
LEMMA EntryStable ==
    TypeOK /\ ArgInv /\ FreshInv /\ EntryInv /\ [Next]_vars => EntriesStable
<1> SUFFICES ASSUME TypeOK, ArgInv, FreshInv, EntryInv, [Next]_vars PROVE EntriesStable
  BY ZenonT(60)
<1> USE BoundsAreNat DEF Task, Thread, Root, None, StableEntry, EntriesStable
<1>1. ASSUME NEW p \in Thread, Fails(p) PROVE EntriesStable
  BY SMTT(60), <1>1 DEF Fails, StartTeardown, TypeOK, ArgInv
<1>2. ASSUME NEW p \in Thread, Moves(p) PROVE EntriesStable
  BY SMTT(60), <1>2 DEF Moves, TypeOK, ArgInv
<1>3. ASSUME NEW p \in Thread, SpawnNamed(p) PROVE EntriesStable
  BY SMTT(60), <1>3 DEF SpawnNamed, PhaseAfterSweep, HandleAfterSweep, Evicted,
     FreshInv, Spawners, IdleTasks, EntryInv, TypeOK, ArgInv
<1>4. ASSUME NEW p \in Thread, SpawnAnonymous(p) PROVE EntriesStable
  BY SMTT(60), <1>4 DEF SpawnAnonymous, PhaseAfterSweep, HandleAfterSweep,
     Evicted,
     FreshInv, Spawners, IdleTasks, EntryInv, TypeOK, ArgInv
<1>5. ASSUME NEW p \in Thread, AllocTaskId(p) PROVE EntriesStable
  BY SMTT(60), <1>5 DEF AllocTaskId, CanStep, entryVars, TypeOK, ArgInv
<1>6. ASSUME NEW p \in Thread, NEW t \in Task, AwaitClaims(p, t) PROVE EntriesStable
  BY SMTT(60), <1>6 DEF AwaitClaims, CanStep, TypeOK, ArgInv
<1>7. ASSUME NEW p \in Thread, AwaitInterrupted(p) PROVE EntriesStable
  <2>1. arg[p] \in Task /\ phase[arg[p]] \in {"Running", "Awaiting"}
    BY Zenon, <1>7 DEF AwaitInterrupted, ArgInv, EntryInv
  <2> QED
    BY SMTT(60), <1>7, <2>1 DEF AwaitInterrupted, TypeOK
<1>8. ASSUME NEW p \in Thread, AwaitDone(p) PROVE EntriesStable
  <2>1. arg[p] \in Task /\ phase[arg[p]] \in {"Running", "Awaiting"}
    BY Zenon, <1>8 DEF AwaitDone, AwaitReaps, ArgInv, EntryInv
  <2> QED
    BY SMTT(60), <1>8, <2>1 DEF AwaitDone, AwaitReaps, TypeOK
<1>9. ASSUME NEW p \in Thread, AwaitFails(p) PROVE EntriesStable
  <2>1. arg[p] \in Task /\ phase[arg[p]] \in {"Running", "Awaiting"}
    BY Zenon, <1>9 DEF AwaitFails, AwaitReaps, StartTeardown, ArgInv,
       EntryInv
  <2> QED
    BY SMTT(60), <1>9, <2>1 DEF AwaitFails, AwaitReaps, StartTeardown, TypeOK
<1>10. ASSUME NEW p \in Thread, AwaitKillDone(p) PROVE EntriesStable
  BY SMTT(60), <1>10 DEF AwaitKillDone, StartTeardown, TypeOK, ArgInv
<1>11. ASSUME NEW p \in Thread, NEW t \in Task, CancelTakes(p, t) PROVE EntriesStable
  BY SMTT(60), <1>11 DEF CancelTakes, CanStep, FreshInv, IdleTasks, EntryInv,
     TypeOK,
     ArgInv
<1>12. ASSUME NEW p \in Thread, CancelReturns(p) PROVE EntriesStable
  BY SMTT(60), <1>12 DEF CancelReturns, TypeOK, ArgInv
<1>13. ASSUME NEW p \in Thread, NEW t \in Task, KillSignals(p, t) PROVE EntriesStable
  BY Zenon, <1>13 DEF KillSignals, entryVars, TypeOK, ArgInv
<1>14. ASSUME NEW p \in Thread, KillJoins(p) PROVE EntriesStable
  BY Zenon, <1>14 DEF KillJoins, TypeOK, ArgInv
<1>15. ASSUME NEW p \in Thread, KillBgDone(p) PROVE EntriesStable
  BY SMTT(60), <1>15 DEF KillBgDone, entryVars, TypeOK, ArgInv
<1>16. ASSUME NEW t \in Task, Mark(t) PROVE EntriesStable
  BY ZenonT(60), <1>16 DEF Mark, FreshInv, IdleTasks, EntryInv, TypeOK, ArgInv
<1>17. ASSUME MarkDone PROVE EntriesStable
  BY SMTT(60), <1>17 DEF MarkDone, entryVars, TypeOK, ArgInv
<1>18. ASSUME KillNamedDone PROVE EntriesStable
  BY SMTT(60), <1>18 DEF KillNamedDone, entryVars, TypeOK, ArgInv
<1>19. ASSUME NEW p \in Thread, ThreadFails(p) PROVE EntriesStable
  BY SMTT(60), <1>19 DEF ThreadFails, ThreadEnds, entryVars, TypeOK, ArgInv
<1>20. ASSUME NEW p \in Thread, ThreadSucceeds(p) PROVE EntriesStable
  BY SMTT(60), <1>20 DEF ThreadSucceeds, ThreadEnds, entryVars, TypeOK, ArgInv
<1>21. ASSUME NEW p \in Thread, NEW t \in Task, ReapBg(p, t) PROVE EntriesStable
  BY Zenon, <1>21 DEF ReapBg, entryVars, TypeOK, ArgInv
<1>22. ASSUME NEW t \in Task, ReapNamed(t) PROVE EntriesStable
  BY ZenonT(60), <1>22 DEF ReapNamed, PollNamed, FreshInv, IdleTasks,
     EntryInv, TypeOK,
     ArgInv
<1>23. ASSUME NEW t \in Task, ReapNamedFails(t) PROVE EntriesStable
  BY SMTT(60), <1>23 DEF ReapNamedFails, PollNamed, StartTeardown, FreshInv,
     IdleTasks,
     EntryInv,
     TypeOK, ArgInv
<1>24. ASSUME NEW p \in Thread, Return(p) PROVE EntriesStable
  BY SMTT(60), <1>24 DEF Return, CanStep, entryVars, TypeOK, ArgInv
<1>25. ASSUME NEW p \in Thread, Dropped(p) PROVE EntriesStable
  BY SMTT(60), <1>25 DEF Dropped, ThreadEnds, entryVars, TypeOK, ArgInv
<1>26. CASE UNCHANGED core
  BY Zenon, <1>26 DEF core, TypeOK, ArgInv
<1> QED
  BY ZenonT(60), StepCases,
     <1>1, <1>2, <1>3, <1>4, <1>5, <1>6, <1>7, <1>8, <1>9, <1>10,
     <1>11, <1>12, <1>13, <1>14, <1>15, <1>16, <1>17, <1>18, <1>19, <1>20,
     <1>21, <1>22, <1>23, <1>24, <1>25, <1>26
     DEF Works

-----------------------------------------------------------------------------
(* Who owns a join handle                                                  *)

\* What a thread may hold stays true of a thread that the step is not about.
LEMMA HeldOthers ==
    ASSUME TypeOK, FreshInv, HeldInv, NEW q \in Thread, Bystander(q),
           KeepsClaims(q), EntriesStable, FinishedStays
    PROVE  HeldOf(q)'
<1> USE BoundsAreNat DEF Task, Thread, Root, None
<1>1. CASE pc'[q] = pc[q]
  <2>1. HeldOf(q)
    BY Zenon DEF HeldInv
  <2>2. \A t \in Task : t \in held[q] \/ t = joining[q] => t \in Owns(q)
    BY SMTT(60) DEF Owns
  <2>3. pc[q] \in {"cancel", "awaitkill"} => arg[q] \in Owns(q)
    BY Zenon DEF Owns
  <2>4. \A t \in Task : Finished(t) => Finished(t)'
    BY SMTT(60) DEF Finished, FinishedStays, TypeOK
  <2>5. /\ pc'[q] = pc[q] /\ arg'[q] = arg[q] /\ bg'[q] = bg[q]
        /\ held'[q] = held[q] /\ joining'[q] = joining[q]
    BY Zenon, <1>1 DEF Bystander
  <2>6. \A t \in Task : t \in Owns(q) /\ phase[t] = "Cancelled" /\ ~reaped[t] =>
           phase'[t] = "Cancelled" /\ ~reaped'[t]
    BY Zenon DEF KeepsClaims, EntriesStable, StableEntry
  <2>7. \A c \in bg[q] : phase'[c] = "None" /\ pc'[c] # "idle"
    BY ZenonT(60), <2>1 DEF HeldOf, EntriesStable, StableEntry, TypeOK
  <2>8. \A t \in Task : pc[t] # "idle" => pc'[t] # "idle"
    BY Zenon DEF EntriesStable, StableEntry
  <2> QED
    BY SMTT(60), <2>1, <2>2, <2>3, <2>4, <2>5, <2>6, <2>7, <2>8 DEF HeldOf
<1>2. CASE pc[q] = "idle" /\ pc'[q] = "run"
  BY SMTT(60), <1>2 DEF HeldOf, Bystander, FreshInv, IdleThreads, KillPcs
<1> QED
  BY Zenon, <1>1, <1>2 DEF Bystander

\* A thread owns its children and cancelled entries not yet reaped.
LEMMA OwnedPhase ==
    ASSUME TypeOK, HeldInv, NEW p \in Thread, NEW t \in Task, t \in Owns(p)
    PROVE  /\ pc[t] # "idle"
           /\ phase[t] = "None" \/ (phase[t] = "Cancelled" /\ ~reaped[t])
<1> USE DEF Task, Thread
<1>1. HeldOf(p)
  BY Zenon DEF HeldInv
<1>2. CASE t \in held[p] \/ (t = joining[p] /\ joining[p] # None)
  BY ZenonT(60), <1>1, <1>2 DEF HeldOf, KillPcs, TypeOK
<1>3. CASE pc[p] \in {"cancel", "awaitkill"} /\ t = arg[p]
  BY Zenon, <1>1, <1>3 DEF HeldOf, Finished
<1> QED
  BY Zenon, <1>2, <1>3 DEF Owns

\* Ownership is settled by what the step does to the thread it is about.
LEMMA OwnershipFrame ==
    ASSUME TypeOK, FreshInv, HeldInv, OwnerInv, ChildInv, NoOrphans,
           EntriesStable, FinishedStays, NEW p \in Thread,
           \A q \in Thread : q # p => Bystander(q),
           \A q \in Thread : q # p => KeepsClaims(q),
           HeldOf(p)', Hands(p), ChildOf(p)', Cares(p)
    PROVE  Ownership'
<1> USE BoundsAreNat DEF Task, Thread, Root, None
<1>1. HeldInv'
  BY Zenon, HeldOthers DEF HeldInv
<1>2. \A q \in Thread : q # p => Owns(q)' = Owns(q)
  BY ZenonT(60) DEF Bystander, Owns
<1>3. ASSUME NEW t \in Task, phase'[t] # "None", NEW q \in Thread,
             NEW r \in Thread, t \in Owns(q)', t \in Owns(r)'
      PROVE  q = r
  <2>1. \A u \in Thread : t \in Owns(u) => phase[t] = "Cancelled"
    BY Zenon, <1>3, OwnedPhase DEF EntriesStable, StableEntry
  <2>2. \A u, v \in Thread : t \in Owns(u) /\ t \in Owns(v) => u = v
    BY Zenon, <2>1 DEF OwnerInv
  <2>3. \A u \in Thread : u # p /\ t \in Owns(u)' => t \notin Owns(p)'
    BY ZenonT(60), <1>2, <1>3, <2>1, <2>2 DEF Hands
  <2> QED
    BY Zenon, <1>2, <1>3, <2>2, <2>3
<1>4. ASSUME NEW t \in Task, phase'[t] = "Cancelled", ~reaped'[t]
      PROVE  \E q \in Thread : t \in Owns(q)'
  <2>1. CASE phase[t] = "Cancelled"
    <3>1. ~reaped[t]
      BY Zenon, <1>4 DEF EntriesStable, StableEntry
    <3>2. PICK q \in Thread : t \in Owns(q)
      BY Zenon, <2>1, <3>1 DEF OwnerInv
    <3> QED
      BY Zenon, <1>2, <1>4, <3>2 DEF Hands
  <2>2. CASE phase[t] # "Cancelled"
    BY Zenon, <1>4, <2>2 DEF Hands
  <2> QED
    BY Zenon, <2>1, <2>2
<1>5. OwnerInv'
  BY Zenon, <1>3, <1>4 DEF OwnerInv
<1>6. ASSUME NEW q \in Thread, q # p PROVE ChildOf(q)'
  <2>1. \A t \in Task : Finished(t) => Finished(t)'
    BY SMTT(60) DEF Finished, FinishedStays
  <2>2. ChildOf(q) /\ Bystander(q)
    BY Zenon, <1>6 DEF ChildInv
  <2>3. CASE pc'[q] = pc[q]
    BY ZenonT(60), <2>1, <2>2, <2>3 DEF ChildOf, Bystander, TypeOK
  <2>4. CASE pc'[q] = "run"
    BY ZenonT(60), <2>4 DEF ChildOf
  <2> QED
    BY ZenonT(60), <2>2, <2>3, <2>4 DEF Bystander
<1>7. ChildInv'
  BY Zenon, <1>6 DEF ChildInv
<1>8. ASSUME NEW c \in Task, Alive(c)', phase'[c] = "None"
      PROVE  \E q \in Thread : Alive(q)' /\ c \in bg'[q]
  <2>1. CASE c \in bg[p] \/ ~Alive(c)
    BY Zenon, <1>8, <2>1 DEF Cares
  <2>2. CASE c \notin bg[p] /\ Alive(c)
    <3>1. phase[c] = "None"
      BY Zenon, <1>8 DEF EntriesStable, StableEntry
    <3>2. PICK q \in Thread : Alive(q) /\ c \in bg[q]
      BY ZenonT(60), <2>2, <3>1 DEF NoOrphans
    <3>3. q # p /\ Bystander(q)
      BY Zenon, <2>2, <3>2
    <3> QED
      BY Zenon, <3>2, <3>3 DEF Bystander, Alive
  <2> QED
    BY Zenon, <2>1, <2>2
<1>9. NoOrphans'
  BY Zenon, <1>8 DEF NoOrphans
<1> QED
  BY ZenonT(60), <1>1, <1>5, <1>7, <1>9 DEF Ownership

\* A thread that joins nobody and holds at most its children, which it
\* holds only to kill them, satisfies HeldOf.
LEMMA FreeHeld ==
    ASSUME NEW p \in Thread, TypeOK',
           joining'[p] = None, held'[p] \subseteq bg'[p],
           held'[p] # {} => pc'[p] \in {"killbg", "drop"},
           pc'[p] \notin {"cancel", "awaitkill", "mark", "killnamed"},
           \A c \in bg'[p] : phase'[c] = "None" /\ pc'[c] # "idle"
    PROVE  HeldOf(p)'
  BY SMTT(60), BoundsAreNat DEF HeldOf, KillPcs, TypeOK, Task, None

\* A thread that owned nothing, and now owns at most children of its own.
LEMMA FreeThread ==
    ASSUME NEW p \in Thread, TypeOK', Owns(p) = {},
           joining'[p] = None, held'[p] \subseteq bg'[p],
           held'[p] # {} => pc'[p] \in {"killbg", "drop"},
           pc'[p] \notin {"cancel", "awaitkill", "mark", "killnamed"},
           \A c \in bg'[p] : phase'[c] = "None" /\ pc'[c] # "idle",
           \A t \in Task : phase'[t] = "Cancelled" => phase[t] = "Cancelled"
    PROVE  HeldOf(p)' /\ Hands(p)
<1>1. HeldOf(p)'
  BY Zenon, FreeHeld
<1>2. Owns(p)' = held'[p]
  BY Zenon DEF Owns
<1>3. Hands(p)
  BY Zenon, <1>2 DEF Hands
<1> QED
  BY Zenon, <1>1, <1>3

\* A thread that is neither tearing down nor at the end of a TIMEOUT body has
\* nothing to show for its children.
LEMMA PlainChild ==
    ASSUME NEW p \in Thread,
           pc'[p] \notin {"killbg", "drop", "bodyok", "mark", "killnamed", "torn"}
    PROVE  ChildOf(p)'
  BY Zenon DEF ChildOf

\* A teardown starts with every child it must kill in held.
LEMMA TeardownChild ==
    ASSUME TypeOK, NEW p \in Thread, NEW ff \in BOOLEAN, StartTeardown(p, ff),
           bg' = bg, ff => floor' = floor
    PROVE  ChildOf(p)'
<1>1. /\ pc'[p] = "killbg" /\ failFast'[p] = ff
      /\ held'[p] = IF ff THEN InScope(p, bg[p]) ELSE bg[p]
  BY Zenon DEF StartTeardown, TypeOK
<1> QED
  BY Zenon, <1>1 DEF ChildOf, InScope

\* A running thread that only moves on, and keeps its running children,
\* takes care of them.
LEMMA PlainCares ==
    ASSUME TypeOK, NEW p \in Thread, Alive(p),
           NEW x, x \notin {"idle", "ok", "err"}, pc' = [pc EXCEPT ![p] = x],
           \A c \in bg[p] : Alive(c) => c \in bg'[p]
    PROVE  Cares(p)
<1>1. Task \subseteq Thread
  BY SMTT(60), BoundsAreNat DEF Task, Thread
<1>2. Alive(p)' /\ \A c \in Task : Alive(c)' => Alive(c)
  BY ZenonT(60), <1>1 DEF Alive, TypeOK
<1> QED
  BY Zenon, <1>2 DEF Cares

\* A failing step, and every step of ASYNC, AWAIT and CANCEL, keeps one owner
\* per handle and the parents in charge of their bg_children.
LEMMA RequestStep ==
    ASSUME TypeOK, ArgInv, FreshInv, EntryInv, Ownership, [Next]_vars,
           (\E p \in Thread : Fails(p) \/ Moves(p)) \/ Requests
    PROVE  Ownership'
<1> USE BoundsAreNat DEF Task, Thread, Root, None
<1>o. HeldInv /\ OwnerInv /\ ChildInv /\ NoOrphans
  BY Zenon DEF Ownership
<1>a. \A u \in Task : StableEntry(u)
  BY Zenon, EntryStable DEF EntriesStable
<1>b. EntriesStable /\ FinishedStays
  BY Zenon, EntryStable, FinishedStable
<1>c. TypeOK'
  BY Zenon, TypeStep
<1>1. ASSUME NEW p \in Thread, Fails(p) PROVE Ownership'
  <2>1. \A q \in Thread : q # p => Bystander(q)
    BY ZenonT(60), <1>1 DEF Fails, StartTeardown, Bystander, scopeVars, TypeOK
  <2>2. \A q \in Thread : q # p => KeepsClaims(q)
    BY Zenon, <1>1 DEF Fails, StartTeardown, KeepsClaims
  <2>a. joining[p] = None /\ held[p] = {} /\ Owns(p) = {}
    BY ZenonT(60), <1>1, <1>o DEF Fails, StartTeardown, HeldInv, HeldOf, KillPcs, Owns,
       TypeOK
  <2>c. bg'[p] \subseteq bg[p]
    BY Zenon, <1>1 DEF Fails, StartTeardown, TypeOK
  <2>b. \A c \in bg'[p] : phase'[c] = "None" /\ pc'[c] # "idle"
    BY ZenonT(60), <2>c, <1>a, <1>o DEF HeldInv, HeldOf, StableEntry, TypeOK
  <2>e. /\ joining'[p] = None /\ held'[p] \subseteq bg'[p]
        /\ held'[p] # {} => pc'[p] \in {"killbg", "drop"}
        /\ pc'[p] \notin {"cancel", "awaitkill", "mark", "killnamed"}
    BY SMTT(60), <1>1, <2>a DEF Fails, StartTeardown, TypeOK, InScope
  <2>f. \A u \in Task : phase'[u] = "Cancelled" => phase[u] = "Cancelled"
    BY ZenonT(60), <1>1 DEF Fails, StartTeardown, TypeOK
  <2>3. HeldOf(p)' /\ Hands(p)
    BY ZenonT(60), <2>a, <2>b, <2>e, <2>f, <1>c, FreeThread
  <2>p. PICK ff \in BOOLEAN : StartTeardown(p, ff) /\ (ff => floor' = floor)
    BY ZenonT(60), <1>1 DEF Fails
  <2>q. Alive(p) /\ bg' = bg
    BY Zenon, <1>1 DEF Fails, Alive
  <2>5. ChildOf(p)'
    BY ZenonT(60), <2>p, <2>q, TeardownChild
  <2>6. Cares(p)
    BY ZenonT(60), <2>p, <2>q, PlainCares DEF StartTeardown
  <2> QED
    BY Zenon, <2>1, <2>2, <2>3, <2>5, <2>6, <1>b, <1>o, OwnershipFrame
<1>2. ASSUME NEW p \in Thread, Moves(p) PROVE Ownership'
  <2>1. \A q \in Thread : q # p => Bystander(q)
    BY ZenonT(60), <1>2 DEF Moves, Bystander, scopeVars, TypeOK
  <2>2. \A q \in Thread : q # p => KeepsClaims(q)
    BY ZenonT(60), <1>2 DEF Moves, KeepsClaims
  <2>a. joining[p] = None /\ held[p] = {} /\ Owns(p) = {}
    BY ZenonT(60), <1>2, <1>o DEF Moves, HeldInv, HeldOf, KillPcs, Owns, TypeOK
  <2>c. bg'[p] \subseteq bg[p]
    BY Zenon, <1>2 DEF Moves, TypeOK
  <2>b. \A c \in bg'[p] : phase'[c] = "None" /\ pc'[c] # "idle"
    BY ZenonT(60), <2>c, <1>a, <1>o DEF HeldInv, HeldOf, StableEntry, TypeOK
  <2>e. /\ joining'[p] = None /\ held'[p] \subseteq bg'[p]
        /\ held'[p] # {} => pc'[p] \in {"killbg", "drop"}
        /\ pc'[p] \notin {"cancel", "awaitkill", "mark", "killnamed"}
    BY Zenon, <1>2, <2>a DEF Moves, TypeOK, InScope
  <2>f. \A u \in Task : phase'[u] = "Cancelled" => phase[u] = "Cancelled"
    BY Zenon, <1>2 DEF Moves, TypeOK
  <2>3. HeldOf(p)' /\ Hands(p)
    BY Zenon, <2>a, <2>b, <2>e, <2>f, <1>c, FreeThread
  <2>p. PICK next \in {"run", "barrier", "reap", "reapwait", "bodyok"} :
           /\ pc' = [pc EXCEPT ![p] = next]
           /\ next = "bodyok" => /\ \A c \in bg[p] : c < floor[p]
                                 /\ UNCHANGED floor
    BY ZenonT(60), <1>2 DEF Moves
  <2>q. Alive(p) /\ bg' = bg /\ pc'[p] = next
    BY Zenon, <1>2, <2>p DEF Moves, Alive, TypeOK
  <2>5. ChildOf(p)'
    BY Zenon, <2>p, <2>q DEF ChildOf
  <2>6. Cares(p)
    BY ZenonT(60), <2>p, <2>q, PlainCares
  <2> QED
    BY ZenonT(60), <2>1, <2>2, <2>3, <2>5, <2>6, <1>b, <1>o, OwnershipFrame
<1>3. ASSUME NEW p \in Thread, SpawnNamed(p) PROVE Ownership'
  <2>1. \A q \in Thread : q # p => Bystander(q)
    BY ZenonT(60), <1>3 DEF SpawnNamed, PhaseAfterSweep, HandleAfterSweep,
       Evicted,
       Bystander, scopeVars, TypeOK, FreshInv, Spawners, IdleThreads
  <2>2. \A q \in Thread : q # p => KeepsClaims(q)
    BY Zenon, <1>3 DEF SpawnNamed, PhaseAfterSweep, HandleAfterSweep, Evicted,
       KeepsClaims
  <2>a. joining[p] = None /\ held[p] = {} /\ Owns(p) = {}
    BY ZenonT(60), <1>3, <1>o DEF SpawnNamed, PhaseAfterSweep, HandleAfterSweep, Evicted,
       HeldInv, HeldOf, KillPcs, Owns, TypeOK
  <2>c. bg'[p] \subseteq bg[p]
    BY Zenon, <1>3 DEF SpawnNamed, PhaseAfterSweep, HandleAfterSweep,
       Evicted, TypeOK
  <2>b. \A c \in bg'[p] : phase'[c] = "None" /\ pc'[c] # "idle"
    BY ZenonT(60), <2>c, <1>a, <1>o DEF HeldInv, HeldOf, StableEntry, TypeOK
  <2>e. /\ joining'[p] = None /\ held'[p] \subseteq bg'[p]
        /\ held'[p] # {} => pc'[p] \in {"killbg", "drop"}
        /\ pc'[p] \notin {"cancel", "awaitkill", "mark", "killnamed"}
    BY ZenonT(60), <1>3, <2>a DEF SpawnNamed, PhaseAfterSweep, HandleAfterSweep,
       Evicted,
       TypeOK, InScope, FreshInv, Spawners, IdleThreads
  <2>f. \A u \in Task : phase'[u] = "Cancelled" => phase[u] = "Cancelled"
    BY Zenon, <1>3 DEF SpawnNamed, PhaseAfterSweep, HandleAfterSweep,
       Evicted, TypeOK
  <2>3. HeldOf(p)' /\ Hands(p)
    BY Zenon, <2>a, <2>b, <2>e, <2>f, <1>c, FreeThread
  <2>p. /\ arg[p] \in Task /\ pc[arg[p]] = "idle" /\ pc[p] = "spawn"
        /\ pc' = [pc EXCEPT ![p] = "run", ![arg[p]] = "run"]
    BY Zenon, <1>3 DEF SpawnNamed, FreshInv, Spawners
  <2>q. bg[p] \subseteq bg'[p] /\ phase'[arg[p]] # "None"
    BY Zenon, <1>3, <2>p DEF SpawnNamed, PhaseAfterSweep, TypeOK
  <2>r. /\ pc'[p] = "run"
        /\ \A c \in Task : Alive(c)' => Alive(c) \/ c = arg[p]
    BY SMTT(60), <2>p DEF Alive, TypeOK
  <2>5. ChildOf(p)'
    BY Zenon, <2>r, PlainChild
  <2>6. Cares(p)
    BY Zenon, <2>q, <2>r DEF Cares, Alive
  <2> QED
    BY ZenonT(60), <2>1, <2>2, <2>3, <2>5, <2>6, <1>b, <1>o, OwnershipFrame
<1>4. ASSUME NEW p \in Thread, SpawnAnonymous(p) PROVE Ownership'
  <2>1. \A q \in Thread : q # p => Bystander(q)
    BY ZenonT(60), <1>4 DEF SpawnAnonymous, PhaseAfterSweep, HandleAfterSweep,
       Evicted,
       Bystander, scopeVars, TypeOK, FreshInv, Spawners, IdleThreads
  <2>2. \A q \in Thread : q # p => KeepsClaims(q)
    BY Zenon, <1>4 DEF SpawnAnonymous, PhaseAfterSweep, HandleAfterSweep,
       Evicted,
       KeepsClaims
  <2>a. joining[p] = None /\ held[p] = {} /\ Owns(p) = {}
    BY ZenonT(60), <1>4, <1>o DEF SpawnAnonymous, PhaseAfterSweep, HandleAfterSweep,
       Evicted, HeldInv, HeldOf, KillPcs, Owns, TypeOK
  <2>c. arg[p] \in Task /\ phase'[arg[p]] = "None" /\ pc'[arg[p]] # "idle"
    BY SMTT(60), <1>4 DEF SpawnAnonymous, PhaseAfterSweep, Evicted, FreshInv,
       Spawners,
       IdleTasks, TypeOK
  <2>d. bg'[p] = bg[p] \union {arg[p]}
    BY Zenon, <1>4 DEF SpawnAnonymous, TypeOK
  <2>b. \A c \in bg'[p] : phase'[c] = "None" /\ pc'[c] # "idle"
    BY ZenonT(60), <2>c, <2>d, <1>a, <1>o DEF HeldInv, HeldOf, StableEntry,
       TypeOK
  <2>e. /\ joining'[p] = None /\ held'[p] \subseteq bg'[p]
        /\ held'[p] # {} => pc'[p] \in {"killbg", "drop"}
        /\ pc'[p] \notin {"cancel", "awaitkill", "mark", "killnamed"}
    BY ZenonT(60), <1>4, <2>a DEF SpawnAnonymous, PhaseAfterSweep,
       HandleAfterSweep,
       Evicted, TypeOK, InScope, FreshInv, Spawners, IdleThreads
  <2>f. \A u \in Task : phase'[u] = "Cancelled" => phase[u] = "Cancelled"
    BY Zenon, <1>4 DEF SpawnAnonymous, PhaseAfterSweep, HandleAfterSweep,
       Evicted,
       TypeOK
  <2>3. HeldOf(p)' /\ Hands(p)
    BY Zenon, <2>a, <2>b, <2>e, <2>f, <1>c, FreeThread
  <2>p. /\ arg[p] \in Task /\ pc[arg[p]] = "idle" /\ pc[p] = "spawn"
        /\ pc' = [pc EXCEPT ![p] = "run", ![arg[p]] = "run"]
    BY Zenon, <1>4 DEF SpawnAnonymous, FreshInv, Spawners
  <2>q. bg[p] \subseteq bg'[p] /\ arg[p] \in bg'[p]
    BY ZenonT(60), <1>4, <2>p DEF SpawnAnonymous, TypeOK
  <2>r. /\ pc'[p] = "run"
        /\ \A c \in Task : Alive(c)' => Alive(c) \/ c = arg[p]
    BY <2>p DEF Alive, TypeOK
  <2>5. ChildOf(p)'
    BY Zenon, <2>r, PlainChild
  <2>6. Cares(p)
    BY ZenonT(60), <2>q, <2>r DEF Cares, Alive
  <2> QED
    BY Zenon, <2>1, <2>2, <2>3, <2>5, <2>6, <1>b, <1>o, OwnershipFrame
<1>5. ASSUME NEW p \in Thread, AllocTaskId(p) PROVE Ownership'
  <2>1. \A q \in Thread : q # p => Bystander(q)
    BY ZenonT(60), <1>5 DEF AllocTaskId, CanStep, Bystander, scopeVars, TypeOK
  <2>2. \A q \in Thread : q # p => KeepsClaims(q)
    BY ZenonT(60), <1>5 DEF AllocTaskId, CanStep, KeepsClaims, entryVars
  <2>a. joining[p] = None /\ held[p] = {} /\ Owns(p) = {}
    BY ZenonT(60), <1>5, <1>o DEF AllocTaskId, CanStep, HeldInv, HeldOf, KillPcs, Owns,
       TypeOK
  <2>c. bg'[p] \subseteq bg[p]
    BY Zenon, <1>5 DEF AllocTaskId, CanStep, TypeOK
  <2>b. \A c \in bg'[p] : phase'[c] = "None" /\ pc'[c] # "idle"
    BY ZenonT(60), <2>c, <1>a, <1>o DEF HeldInv, HeldOf, StableEntry, TypeOK
  <2>e. /\ joining'[p] = None /\ held'[p] \subseteq bg'[p]
        /\ held'[p] # {} => pc'[p] \in {"killbg", "drop"}
        /\ pc'[p] \notin {"cancel", "awaitkill", "mark", "killnamed"}
    BY Zenon, <1>5, <2>a DEF AllocTaskId, CanStep, TypeOK, InScope
  <2>f. \A u \in Task : phase'[u] = "Cancelled" => phase[u] = "Cancelled"
    BY Zenon, <1>5 DEF AllocTaskId, CanStep, TypeOK, entryVars
  <2>3. HeldOf(p)' /\ Hands(p)
    BY Zenon, <2>a, <2>b, <2>e, <2>f, <1>c, FreeThread
  <2>p. /\ pc' = [pc EXCEPT ![p] = "spawn"] /\ Alive(p)
        /\ \A c \in bg[p] : Alive(c) => c \in bg'[p]
    BY Zenon, <1>5 DEF AllocTaskId, CanStep, TypeOK, Alive
  <2>5. ChildOf(p)'
    BY Zenon, <2>p, PlainChild DEF TypeOK
  <2>6. Cares(p)
    BY ZenonT(60), <2>p, PlainCares
  <2> QED
    BY Zenon, <2>1, <2>2, <2>3, <2>5, <2>6, <1>b, <1>o, OwnershipFrame
<1>6. ASSUME NEW p \in Thread, NEW t \in Task, AwaitClaims(p, t) PROVE Ownership'
  <2>1. \A q \in Thread : q # p => Bystander(q)
    BY ZenonT(60), <1>6 DEF AwaitClaims, CanStep, Bystander, scopeVars, TypeOK
  <2>2. \A q \in Thread : q # p => KeepsClaims(q)
    BY ZenonT(60), <1>6 DEF AwaitClaims, CanStep, KeepsClaims
  <2>a. joining[p] = None /\ held[p] = {} /\ Owns(p) = {}
    BY ZenonT(60), <1>6, <1>o DEF AwaitClaims, CanStep, HeldInv, HeldOf, KillPcs, Owns,
       TypeOK
  <2>c. bg'[p] \subseteq bg[p]
    BY Zenon, <1>6 DEF AwaitClaims, CanStep, TypeOK
  <2>b. \A c \in bg'[p] : phase'[c] = "None" /\ pc'[c] # "idle"
    BY ZenonT(60), <2>c, <1>a, <1>o DEF HeldInv, HeldOf, StableEntry, TypeOK
  <2>e. /\ joining'[p] = None /\ held'[p] \subseteq bg'[p]
        /\ held'[p] # {} => pc'[p] \in {"killbg", "drop"}
        /\ pc'[p] \notin {"cancel", "awaitkill", "mark", "killnamed"}
    BY Zenon, <1>6, <2>a DEF AwaitClaims, CanStep, TypeOK, InScope
  <2>f. \A u \in Task : phase'[u] = "Cancelled" => phase[u] = "Cancelled"
    BY Zenon, <1>6 DEF AwaitClaims, CanStep, TypeOK
  <2>3. HeldOf(p)' /\ Hands(p)
    BY ZenonT(60), <2>a, <2>b, <2>e, <2>f, <1>c, FreeThread
  <2>p. /\ pc' = [pc EXCEPT ![p] = "await"] /\ Alive(p)
        /\ \A c \in bg[p] : Alive(c) => c \in bg'[p]
    BY Zenon, <1>6 DEF AwaitClaims, CanStep, Alive
  <2>5. ChildOf(p)'
    BY ZenonT(60), <2>p, PlainChild DEF TypeOK
  <2>6. Cares(p)
    BY ZenonT(60), <2>p, PlainCares
  <2> QED
    BY ZenonT(60), <2>1, <2>2, <2>3, <2>5, <2>6, <1>b, <1>o, OwnershipFrame
<1>7. ASSUME NEW p \in Thread, AwaitInterrupted(p) PROVE Ownership'
  <2>1. \A q \in Thread : q # p => Bystander(q)
    BY ZenonT(60), <1>7 DEF AwaitInterrupted, Bystander, scopeVars, TypeOK
  <2>2. \A q \in Thread : q # p => KeepsClaims(q)
    BY ZenonT(60), <1>7 DEF AwaitInterrupted, KeepsClaims
  <2>a. joining[p] = None /\ held[p] = {}
    BY ZenonT(60), <1>7, <1>o DEF AwaitInterrupted, HeldInv, HeldOf, KillPcs, TypeOK
  <2>b. \A c \in bg'[p] : phase'[c] = "None" /\ pc'[c] # "idle"
    <3>1. bg'[p] \subseteq bg[p]
      BY ZenonT(60), <1>7 DEF AwaitInterrupted, TypeOK
    <3> QED
      BY ZenonT(60), <3>1, <1>a, <1>o DEF HeldInv, HeldOf, StableEntry, TypeOK
  <2>c. /\ arg[p] \in Task /\ phase[arg[p]] \in {"Running", "Awaiting"}
        /\ handle[arg[p]] /\ ~reaped[arg[p]] /\ pc[arg[p]] # "idle"
    BY Zenon, <1>7 DEF AwaitInterrupted, ArgInv, EntryInv, FreshInv,
       IdleTasks
  <2>d. /\ arg'[p] = arg[p] /\ held'[p] = {arg[p]} /\ joining'[p] = None
        /\ pc'[p] \in {"cancel", "awaitkill"}
    BY ZenonT(60), <1>7, <2>a, <2>c DEF AwaitInterrupted, TypeOK
  <2>e. phase'[arg[p]] = "Cancelled" /\ ~reaped'[arg[p]] /\ pc'[arg[p]] # "idle"
    BY SMTT(60), <1>7, <2>c, <1>a DEF AwaitInterrupted, StableEntry, TypeOK
  <2>3. HeldOf(p)'
    <3>1. arg[p] # None
      BY SMTT(60), <2>c
    <3>2. \A u \in Task : u \in held'[p] \/ u = joining'[p] => u = arg[p]
      BY SMTT(60), <2>d
    <3> HIDE DEF Task, None, Root, Thread
    <3> QED
      BY ZenonT(60), <3>1, <3>2, <2>b, <2>c, <2>d, <2>e DEF HeldOf, KillPcs
  <2>f. Owns(p) = {} /\ Owns(p)' = {arg[p]}
    BY Zenon, <1>7, <2>a, <2>d DEF AwaitInterrupted, Owns
  <2>g. \A u \in Task : phase'[u] = "Cancelled" => phase[u] = "Cancelled" \/ u = arg[p]
    BY Zenon, <1>7 DEF AwaitInterrupted, TypeOK
  <2>4. Hands(p)
    BY ZenonT(60), <2>c, <2>f, <2>g DEF Hands
  <2>p. /\ pc' = [pc EXCEPT ![p] = "awaitkill"] /\ Alive(p)
        /\ \A c \in bg[p] : Alive(c) => c \in bg'[p]
    BY ZenonT(60), <1>7 DEF AwaitInterrupted, Alive
  <2>5. ChildOf(p)'
    BY ZenonT(60), <2>p, PlainChild DEF TypeOK
  <2>6. Cares(p)
    BY ZenonT(60), <2>p, PlainCares
  <2> QED
    BY ZenonT(60), <2>1, <2>2, <2>3, <2>4, <2>5, <2>6, <1>b, <1>o,
       OwnershipFrame
<1>8. ASSUME NEW p \in Thread, AwaitDone(p) PROVE Ownership'
  <2>1. \A q \in Thread : q # p => Bystander(q)
    BY ZenonT(60), <1>8 DEF AwaitDone, AwaitReaps, Bystander, scopeVars, TypeOK
  <2>2. \A q \in Thread : q # p => KeepsClaims(q)
    BY ZenonT(60), <1>8 DEF AwaitDone, AwaitReaps, KeepsClaims, TypeOK
  <2>a. joining[p] = None /\ held[p] = {} /\ Owns(p) = {}
    BY ZenonT(60), <1>8, <1>o DEF AwaitDone, AwaitReaps, HeldInv, HeldOf, KillPcs, Owns,
       TypeOK
  <2>c. bg'[p] \subseteq bg[p]
    BY Zenon, <1>8 DEF AwaitDone, AwaitReaps, TypeOK
  <2>b. \A c \in bg'[p] : phase'[c] = "None" /\ pc'[c] # "idle"
    BY ZenonT(60), <2>c, <1>a, <1>o DEF HeldInv, HeldOf, StableEntry, TypeOK
  <2>e. /\ joining'[p] = None /\ held'[p] \subseteq bg'[p]
        /\ held'[p] # {} => pc'[p] \in {"killbg", "drop"}
        /\ pc'[p] \notin {"cancel", "awaitkill", "mark", "killnamed"}
    BY Zenon, <1>8, <2>a DEF AwaitDone, AwaitReaps, TypeOK, InScope
  <2>f. \A u \in Task : phase'[u] = "Cancelled" => phase[u] = "Cancelled"
    BY ZenonT(60), <1>8 DEF AwaitDone, AwaitReaps, TypeOK
  <2>3. HeldOf(p)' /\ Hands(p)
    BY Zenon, <2>a, <2>b, <2>e, <2>f, <1>c, FreeThread
  <2>p. /\ pc' = [pc EXCEPT ![p] = "run"] /\ Alive(p)
        /\ \A c \in bg[p] : Alive(c) => c \in bg'[p]
    BY Zenon, <1>8 DEF AwaitDone, AwaitReaps, Alive
  <2>5. ChildOf(p)'
    BY Zenon, <2>p, PlainChild DEF TypeOK
  <2>6. Cares(p)
    BY ZenonT(60), <2>p, PlainCares
  <2> QED
    BY Zenon, <2>1, <2>2, <2>3, <2>5, <2>6, <1>b, <1>o, OwnershipFrame
<1>9. ASSUME NEW p \in Thread, AwaitFails(p) PROVE Ownership'
  <2>1. \A q \in Thread : q # p => Bystander(q)
    BY ZenonT(60), <1>9 DEF AwaitFails, AwaitReaps, StartTeardown, Bystander,
       scopeVars,
       TypeOK
  <2>2. \A q \in Thread : q # p => KeepsClaims(q)
    BY ZenonT(60), <1>9 DEF AwaitFails, AwaitReaps, StartTeardown,
       KeepsClaims, TypeOK
  <2>a. joining[p] = None /\ held[p] = {} /\ Owns(p) = {}
    BY ZenonT(60), <1>9, <1>o DEF AwaitFails, AwaitReaps, StartTeardown, HeldInv, HeldOf,
       KillPcs, Owns, TypeOK
  <2>c. bg'[p] \subseteq bg[p]
    BY ZenonT(60), <1>9 DEF AwaitFails, AwaitReaps, StartTeardown, TypeOK
  <2>b. \A c \in bg'[p] : phase'[c] = "None" /\ pc'[c] # "idle"
    BY ZenonT(60), <2>c, <1>a, <1>o DEF HeldInv, HeldOf, StableEntry, TypeOK
  <2>e. /\ joining'[p] = None /\ held'[p] \subseteq bg'[p]
        /\ held'[p] # {} => pc'[p] \in {"killbg", "drop"}
        /\ pc'[p] \notin {"cancel", "awaitkill", "mark", "killnamed"}
    BY ZenonT(60), <1>9, <2>a DEF AwaitFails, AwaitReaps, StartTeardown, TypeOK,
       InScope
  <2>f. \A u \in Task : phase'[u] = "Cancelled" => phase[u] = "Cancelled"
    BY ZenonT(60), <1>9 DEF AwaitFails, AwaitReaps, StartTeardown, TypeOK
  <2>3. HeldOf(p)' /\ Hands(p)
    BY Zenon, <2>a, <2>b, <2>e, <2>f, <1>c, FreeThread
  <2>p. StartTeardown(p, FALSE) /\ Alive(p) /\ bg' = bg
    BY ZenonT(60), <1>9 DEF AwaitFails, AwaitReaps, Alive
  <2>5. ChildOf(p)'
    BY ZenonT(60), <2>p, TeardownChild
  <2>6. Cares(p)
    BY ZenonT(60), <2>p, PlainCares DEF StartTeardown
  <2> QED
    BY Zenon, <2>1, <2>2, <2>3, <2>5, <2>6, <1>b, <1>o, OwnershipFrame
<1>10. ASSUME NEW p \in Thread, AwaitKillDone(p) PROVE Ownership'
  <2>1. \A q \in Thread : q # p => Bystander(q)
    BY ZenonT(60), <1>10 DEF AwaitKillDone, StartTeardown, Bystander,
       scopeVars, TypeOK
  <2>a. arg[p] \in Task /\ phase[arg[p]] = "Cancelled" /\ arg[p] \in Owns(p)
    BY ZenonT(60), <1>10, <1>o DEF AwaitKillDone, HeldInv, HeldOf, Owns
  <2>b. \A q \in Thread : arg[p] \in Owns(q) => q = p
    BY ZenonT(60), <2>a, <1>o DEF OwnerInv
  <2>2. \A q \in Thread : q # p => KeepsClaims(q)
    BY SMTT(60), <1>10, <2>a, <2>b DEF AwaitKillDone, StartTeardown,
       KeepsClaims, TypeOK
  <2>c. bg'[p] \subseteq bg[p]
    BY Zenon, <1>10 DEF AwaitKillDone, StartTeardown, TypeOK
  <2>d. \A c \in bg'[p] : phase'[c] = "None" /\ pc'[c] # "idle"
    BY ZenonT(60), <2>c, <1>a, <1>o DEF HeldInv, HeldOf, StableEntry, TypeOK
  <2>e. /\ joining'[p] = None /\ held'[p] \subseteq bg'[p]
        /\ held'[p] # {} => pc'[p] \in {"killbg", "drop"}
        /\ pc'[p] \notin {"cancel", "awaitkill", "mark", "killnamed"}
    BY ZenonT(60), <1>10 DEF AwaitKillDone, StartTeardown, TypeOK
  <2>f. Owns(p) = {arg[p]} /\ reaped'[arg[p]] /\ phase' = phase
    BY ZenonT(60), <1>10, <2>a DEF AwaitKillDone, StartTeardown, Owns, TypeOK
  <2>g. Owns(p)' = held'[p]
    BY Zenon, <2>e DEF Owns
  <2>3. HeldOf(p)'
    BY Zenon, <2>d, <2>e, <1>c, FreeHeld
  <2>4. Hands(p)
    BY ZenonT(60), <2>d, <2>e, <2>f, <2>g DEF Hands
  <2>p. StartTeardown(p, FALSE) /\ Alive(p) /\ bg' = bg
    BY ZenonT(60), <1>10 DEF AwaitKillDone, Alive
  <2>5. ChildOf(p)'
    BY ZenonT(60), <2>p, TeardownChild
  <2>6. Cares(p)
    BY ZenonT(60), <2>p, PlainCares DEF StartTeardown
  <2> QED
    BY Zenon, <2>1, <2>2, <2>3, <2>4, <2>5, <2>6, <1>b, <1>o, OwnershipFrame
<1>11. ASSUME NEW p \in Thread, NEW t \in Task, CancelTakes(p, t) PROVE Ownership'
  <2>1. \A q \in Thread : q # p => Bystander(q)
    BY Zenon, <1>11 DEF CancelTakes, CanStep, Bystander, scopeVars, TypeOK
  <2>2. \A q \in Thread : q # p => KeepsClaims(q)
    BY ZenonT(60), <1>11 DEF CancelTakes, CanStep, KeepsClaims
  <2>a. joining[p] = None /\ held[p] = {}
    BY ZenonT(60), <1>11, <1>o DEF CancelTakes, CanStep, HeldInv, HeldOf, KillPcs, TypeOK
  <2>b. \A c \in bg'[p] : phase'[c] = "None" /\ pc'[c] # "idle"
    <3>1. bg'[p] \subseteq bg[p]
      BY ZenonT(60), <1>11 DEF CancelTakes, TypeOK
    <3> QED
      BY ZenonT(60), <3>1, <1>a, <1>o DEF HeldInv, HeldOf, StableEntry, TypeOK
  <2>c. /\ t \in Task /\ phase[t] \in {"Running", "Awaiting"}
        /\ handle[t] /\ ~reaped[t] /\ pc[t] # "idle"
    BY ZenonT(60), <1>11 DEF CancelTakes, ArgInv, EntryInv, FreshInv, IdleTasks
  <2>d. /\ arg'[p] = t /\ held'[p] = {t} /\ joining'[p] = None
        /\ pc'[p] \in {"cancel", "awaitkill"}
    BY ZenonT(60), <1>11, <2>a, <2>c DEF CancelTakes, TypeOK
  <2>e. phase'[t] = "Cancelled" /\ ~reaped'[t] /\ pc'[t] # "idle"
    BY SMTT(90), <1>11, <2>c, <1>a DEF CancelTakes, StableEntry, TypeOK
  <2>3. HeldOf(p)'
    <3>1. t # None
      BY SMTT(60), <2>c
    <3>2. \A u \in Task : u \in held'[p] \/ u = joining'[p] => u = t
      BY SMTT(60), <2>d
    <3> HIDE DEF Task, None, Root, Thread
    <3> QED
      BY ZenonT(60), <3>1, <3>2, <2>b, <2>c, <2>d, <2>e DEF HeldOf, KillPcs
  <2>f. Owns(p) = {} /\ Owns(p)' = {t}
    BY ZenonT(60), <1>11, <2>a, <2>d DEF CancelTakes, CanStep, Owns
  <2>g. \A u \in Task : phase'[u] = "Cancelled" => phase[u] = "Cancelled" \/ u = t
    BY ZenonT(60), <1>11 DEF CancelTakes, TypeOK
  <2>4. Hands(p)
    BY Zenon, <2>c, <2>f, <2>g DEF Hands
  <2>p. /\ pc' = [pc EXCEPT ![p] = "cancel"] /\ Alive(p)
        /\ \A c \in bg[p] : Alive(c) => c \in bg'[p]
    BY Zenon, <1>11 DEF CancelTakes, CanStep, Alive
  <2>5. ChildOf(p)'
    BY ZenonT(60), <2>p, PlainChild DEF TypeOK
  <2>6. Cares(p)
    BY ZenonT(60), <2>p, PlainCares
  <2> QED
    BY ZenonT(60), <2>1, <2>2, <2>3, <2>4, <2>5, <2>6, <1>b, <1>o,
       OwnershipFrame
<1>12. ASSUME NEW p \in Thread, CancelReturns(p) PROVE Ownership'
  <2>1. \A q \in Thread : q # p => Bystander(q)
    BY ZenonT(60), <1>12 DEF CancelReturns, Bystander, scopeVars, TypeOK
  <2>a. arg[p] \in Task /\ phase[arg[p]] = "Cancelled" /\ arg[p] \in Owns(p)
    BY ZenonT(60), <1>12, <1>o DEF CancelReturns, HeldInv, HeldOf, Owns
  <2>b. \A q \in Thread : arg[p] \in Owns(q) => q = p
    BY Zenon, <2>a, <1>o DEF OwnerInv
  <2>2. \A q \in Thread : q # p => KeepsClaims(q)
    BY SMTT(90), <1>12, <2>a, <2>b DEF CancelReturns, KeepsClaims, TypeOK
  <2>c. bg'[p] \subseteq bg[p]
    BY Zenon, <1>12 DEF CancelReturns, TypeOK
  <2>d. \A c \in bg'[p] : phase'[c] = "None" /\ pc'[c] # "idle"
    BY ZenonT(60), <2>c, <1>a, <1>o DEF HeldInv, HeldOf, StableEntry, TypeOK
  <2>e. /\ joining'[p] = None /\ held'[p] \subseteq bg'[p]
        /\ held'[p] # {} => pc'[p] \in {"killbg", "drop"}
        /\ pc'[p] \notin {"cancel", "awaitkill", "mark", "killnamed"}
    BY Zenon, <1>12 DEF CancelReturns, TypeOK
  <2>f. Owns(p) = {arg[p]} /\ reaped'[arg[p]] /\ phase' = phase
    BY ZenonT(60), <1>12, <2>a DEF CancelReturns, Owns, TypeOK
  <2>g. Owns(p)' = held'[p]
    BY Zenon, <2>e DEF Owns
  <2>3. HeldOf(p)'
    BY Zenon, <2>d, <2>e, <1>c, FreeHeld
  <2>4. Hands(p)
    BY ZenonT(60), <2>d, <2>e, <2>f, <2>g DEF Hands
  <2>p. /\ pc' = [pc EXCEPT ![p] = "run"] /\ Alive(p)
        /\ \A c \in bg[p] : Alive(c) => c \in bg'[p]
    BY Zenon, <1>12 DEF CancelReturns, Alive
  <2>5. ChildOf(p)'
    BY Zenon, <2>p, PlainChild DEF TypeOK
  <2>6. Cares(p)
    BY ZenonT(60), <2>p, PlainCares
  <2> QED
    BY Zenon, <2>1, <2>2, <2>3, <2>4, <2>5, <2>6, <1>b, <1>o, OwnershipFrame
<1> QED
  BY Zenon, <1>1, <1>2, <1>3, <1>4, <1>5, <1>6, <1>7, <1>8, <1>9, <1>10,
     <1>11, <1>12
     DEF Requests

=============================================================================

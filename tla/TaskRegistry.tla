---------------------------- MODULE TaskRegistry -----------------------------
(***************************************************************************)
(* ASYNC tasks of one script run (crates/oxdock-core/src/exec: state.rs,   *)
(* handlers.rs, steps.rs).  Thread 0 is the root flow; task t runs on the  *)
(* worker thread t.  LET $x = ASYNC puts an entry with the thread's join   *)
(* handle into the registry every thread shares; a bare ASYNC leaves the   *)
(* handle in its parent's bg_children.  Whoever takes the handle of an     *)
(* entry kills and joins the worker and then marks the entry reaped; other *)
(* observers wait for that.                                                *)
(*                                                                         *)
(* A script is any sequence of the steps named by RootOps (root flow) and  *)
(* WorkerOps (task bodies).  One action is one section under a lock, or    *)
(* one atomic access.  TIMEOUT blocks are not nested here.                 *)
(***************************************************************************)
EXTENDS Integers, FiniteSets

CONSTANTS
    MaxTasks,       \* bound of the model: tasks spawned in a behaviour
    MaxRunning,     \* MAX_RUNNING_TASKS
    MaxRetained,    \* MAX_RETAINED_FINISHED
    RootOps,        \* steps the root flow contains
    WorkerOps       \* steps task bodies contain

Steps ==
    {"ASYNC", "LET_ASYNC", "AWAIT", "CANCEL", "TIMEOUT", "RETURN", "FAIL"}

ASSUME TaskAssumption ==
    /\ MaxTasks \in Nat
    /\ MaxRunning \in Nat
    /\ MaxRetained \in Nat
    /\ RootOps \subseteq Steps \ {"RETURN"}
    /\ WorkerOps \subseteq Steps

Root == 0
Task == 1..MaxTasks
Thread == 0..MaxTasks
None == 0           \* no task; task ids start at 1

VARIABLES
    \* per thread
    pc,         \* where the thread is
    arg,        \* the task its current step is about
    token,      \* its cancel token
    floor,      \* reap_floor of the TIMEOUT it is in, None outside
    fired,      \* whether that TIMEOUT's deadline fired
    bg,         \* bg_children
    knows,      \* the task handles in its variable scopes
    held,       \* join handles it took out of entries and has yet to kill
    joining,    \* the worker it is joining
    failFast,   \* TRUE in the first teardown of a failed end-of-pipeline reap
    victims,    \* ids the registry sweep collected for eviction
    \* per task
    phase,      \* TaskPhase of a named task's entry
    handle,     \* whether the entry holds the join handle
    reaped,     \* the entry's reaped flag
    \* shared
    registry,   \* the keys of named_tasks
    snap,       \* entries the root flow snapshotted and still has to visit
    nextId,     \* next_task_id
    live        \* live_tasks

scopeVars == <<floor, fired>>
entryVars == <<phase, handle, reaped>>
allocVars == <<nextId, live, victims>>
vars == <<pc, arg, token, floor, fired, bg, knows, held, joining, failFast,
          victims, phase, handle, reaped, registry, snap, nextId, live>>

Ops(p) == IF p = Root THEN RootOps ELSE WorkerOps

Finished(t) == pc[t] \in {"ok", "err"}

\* in_scope of the end-of-pipeline reap
InScope(p, S) == {t \in S : t >= floor[p]}

\* TaskEntry::is_live: a finished worker counts as finished before anyone
\* joined it, an awaited one as live for as long as its waiter is waiting.
IsLive(t) ==
    \/ phase[t] = "Awaiting"
    \/ phase[t] = "Running" /\ handle[t] /\ ~Finished(t)

-----------------------------------------------------------------------------
Init ==
    /\ pc = [p \in Thread |-> IF p = Root THEN "run" ELSE "idle"]
    /\ arg = [p \in Thread |-> None]
    /\ token = [p \in Thread |-> FALSE]
    /\ floor = [p \in Thread |-> None]
    /\ fired = [p \in Thread |-> FALSE]
    /\ bg = [p \in Thread |-> {}]
    /\ knows = [p \in Thread |-> {}]
    /\ held = [p \in Thread |-> {}]
    /\ joining = [p \in Thread |-> None]
    /\ failFast = [p \in Thread |-> FALSE]
    /\ victims = [p \in Thread |-> {}]
    /\ phase = [t \in Task |-> "None"]
    /\ handle = [t \in Task |-> FALSE]
    /\ reaped = [t \in Task |-> FALSE]
    /\ registry = {}
    /\ snap = {}
    /\ nextId = 1
    /\ live = 0

-----------------------------------------------------------------------------
(* Steps and errors                                                        *)

\* execute_steps_inner looks at the cancel token before every step.
CanStep(p, op) == pc[p] = "run" /\ ~token[p] /\ op \in Ops(p)

\* An error leaves execute_steps through a teardown: first of bg_children.
\* The end-of-pipeline reap has one of its own before, limited to its scope.
StartTeardown(p, ff) ==
    /\ pc' = [pc EXCEPT ![p] = "killbg"]
    /\ held' = [held EXCEPT ![p] = IF ff THEN InScope(p, bg[p]) ELSE bg[p]]
    /\ failFast' = [failFast EXCEPT ![p] = ff]
    /\ arg' = [arg EXCEPT ![p] = None]

StepCancelled(p) ==
    /\ pc[p] = "run"
    /\ token[p]
    /\ StartTeardown(p, FALSE)
    /\ UNCHANGED <<token, scopeVars, bg, knows, joining, entryVars,
                   registry, snap, allocVars>>

\* Any step may fail, EXIT included (it kills bg_children itself first).
StepFails(p) ==
    /\ CanStep(p, "FAIL")
    /\ StartTeardown(p, FALSE)
    /\ UNCHANGED <<token, scopeVars, bg, knows, joining, entryVars,
                   registry, snap, allocVars>>

-----------------------------------------------------------------------------
(* ASYNC and LET $x = ASYNC                                                *)

\* The first half of the sweep: the oldest finished ids above the cap.
SweepCollect ==
    LET fin == {t \in registry : ~IsLive(t)}
        older(t) == {u \in fin : u < t}
    IN  {t \in fin : Cardinality(older(t)) < Cardinality(fin) - MaxRetained}

\* alloc_task_id, up to the point where the sweep releases the map's lock.
AllocTaskId(p) ==
    /\ CanStep(p, "ASYNC") \/ CanStep(p, "LET_ASYNC")
    /\ nextId =< MaxTasks
    /\ live < MaxRunning
    /\ bg' = [bg EXCEPT ![p] = {c \in @ : pc[c] # "ok"}]
    /\ live' = live + 1
    /\ nextId' = nextId + 1
    /\ arg' = [arg EXCEPT ![p] = nextId]
    /\ victims' = [victims EXCEPT ![p] = SweepCollect]
    /\ pc' = [pc EXCEPT ![p] = "spawn"]
    /\ UNCHANGED <<token, scopeVars, knows, held, joining, failFast,
                   entryVars, registry, snap>>

AllocRefused(p) ==
    /\ CanStep(p, "ASYNC") \/ CanStep(p, "LET_ASYNC")
    /\ live >= MaxRunning
    /\ StartTeardown(p, FALSE)
    /\ UNCHANGED <<token, scopeVars, bg, knows, joining, entryVars,
                   registry, snap, allocVars>>

\* The second half of the sweep removes the collected ids, whatever became
\* of them.  An entry nobody else refers to dies with its join handle.
Evicted(p) == {t \in victims[p] : phase[t] = "Running"}

PhaseAfterSweep(p) ==
    [t \in Task |-> IF t \in Evicted(p) THEN "Gone" ELSE phase[t]]

HandleAfterSweep(p) ==
    [t \in Task |-> IF t \in Evicted(p) THEN FALSE ELSE handle[t]]

\* fork, spawn, and publication of the entry under the map's lock; the
\* worker's first act is to wait for the entry.
SpawnNamed(p) ==
    LET t == arg[p]
    IN  /\ pc[p] = "spawn"
        /\ "LET_ASYNC" \in Ops(p)
        /\ registry' = (registry \ victims[p]) \union {t}
        /\ phase' = [PhaseAfterSweep(p) EXCEPT ![t] = "Running"]
        /\ handle' = [HandleAfterSweep(p) EXCEPT ![t] = TRUE]
        /\ pc' = [pc EXCEPT ![p] = "run", ![t] = "run"]
        /\ knows' = [knows EXCEPT ![p] = @ \union {t}, ![t] = knows[p]]
        /\ victims' = [victims EXCEPT ![p] = {}]
        /\ arg' = [arg EXCEPT ![p] = None]
        /\ UNCHANGED <<token, scopeVars, bg, held, joining, failFast,
                       reaped, snap, nextId, live>>

SpawnAnonymous(p) ==
    LET t == arg[p]
    IN  /\ pc[p] = "spawn"
        /\ "ASYNC" \in Ops(p)
        /\ registry' = registry \ victims[p]
        /\ phase' = PhaseAfterSweep(p)
        /\ handle' = HandleAfterSweep(p)
        /\ pc' = [pc EXCEPT ![p] = "run", ![t] = "run"]
        /\ bg' = [bg EXCEPT ![p] = @ \union {t}]
        /\ knows' = [knows EXCEPT ![t] = knows[p]]
        /\ victims' = [victims EXCEPT ![p] = {}]
        /\ arg' = [arg EXCEPT ![p] = None]
        /\ UNCHANGED <<token, scopeVars, held, joining, failFast,
                       reaped, snap, nextId, live>>

-----------------------------------------------------------------------------
(* AWAIT                                                                   *)

AwaitClaims(p, t) ==
    /\ CanStep(p, "AWAIT")
    /\ t \in knows[p] \intersect registry
    /\ phase[t] = "Running"
    /\ phase' = [phase EXCEPT ![t] = "Awaiting"]
    /\ arg' = [arg EXCEPT ![p] = t]
    /\ pc' = [pc EXCEPT ![p] = "await"]
    /\ UNCHANGED <<token, scopeVars, bg, knows, held, joining, failFast,
                   handle, reaped, registry, snap, allocVars>>

AwaitFindsCancelled(p, t) ==
    /\ CanStep(p, "AWAIT")
    /\ t \in knows[p] \intersect registry
    /\ phase[t] = "Cancelled"
    /\ arg' = [arg EXCEPT ![p] = t]
    /\ pc' = [pc EXCEPT ![p] = "barrier"]
    /\ UNCHANGED <<token, scopeVars, bg, knows, held, joining, failFast,
                   entryVars, registry, snap, allocVars>>

\* Evicted, awaited by somebody else, or already joined.
AwaitRefused(p, t) ==
    /\ CanStep(p, "AWAIT")
    /\ t \in knows[p]
    /\ t \notin registry \/ phase[t] \in {"Awaiting", "Completed"}
    /\ StartTeardown(p, FALSE)
    /\ UNCHANGED <<token, scopeVars, bg, knows, joining, entryVars,
                   registry, snap, allocVars>>

\* One turn of the poll loop finds that another thread took the handle.
AwaitObservesTaken(p) ==
    /\ pc[p] = "await"
    /\ phase[arg[p]] = "Cancelled" \/ ~handle[arg[p]]
    /\ pc' = [pc EXCEPT ![p] = "barrier"]
    /\ UNCHANGED <<arg, token, scopeVars, bg, knows, held, joining, failFast,
                   entryVars, registry, snap, allocVars>>

\* Mutated form: the phase is left Awaiting when the handle is taken.
AwaitInterruptedKeepsPhase(p) ==
    LET t == arg[p]
    IN  /\ pc[p] = "await"
        /\ token[p]
        /\ phase[t] # "Cancelled"
        /\ handle[t]
        /\ handle' = [handle EXCEPT ![t] = FALSE]
        /\ held' = [held EXCEPT ![p] = {t}]
        /\ pc' = [pc EXCEPT ![p] = "awaitkill"]
        /\ UNCHANGED <<arg, token, scopeVars, bg, knows, joining, failFast,
                       phase, reaped, registry, snap, allocVars>>

\* The waiter's own token is set: it takes the handle and kills the task.
AwaitInterrupted(p) ==
    LET t == arg[p]
    IN  /\ pc[p] = "await"
        /\ token[p]
        /\ phase[t] # "Cancelled"
        /\ handle[t]
        /\ phase' = [phase EXCEPT ![t] = "Cancelled"]
        /\ handle' = [handle EXCEPT ![t] = FALSE]
        /\ held' = [held EXCEPT ![p] = {t}]
        /\ pc' = [pc EXCEPT ![p] = "awaitkill"]
        /\ UNCHANGED <<arg, token, scopeVars, bg, knows, joining, failFast,
                       reaped, registry, snap, allocVars>>

\* The task ended: Completed, and finish_teardown, in the waiter's hands.
AwaitReaps(p, result) ==
    LET t == arg[p]
    IN  /\ pc[p] = "await"
        /\ ~token[p]
        /\ phase[t] # "Cancelled"
        /\ handle[t]
        /\ pc[t] = result
        /\ phase' = [phase EXCEPT ![t] = "Completed"]
        /\ handle' = [handle EXCEPT ![t] = FALSE]
        /\ reaped' = [reaped EXCEPT ![t] = TRUE]

\* LET $o = AWAIT may bind handles the task returned.
AwaitDone(p) ==
    /\ AwaitReaps(p, "ok")
    /\ pc' = [pc EXCEPT ![p] = "run"]
    /\ \E returned \in {{}, knows[arg[p]]} :
            knows' = [knows EXCEPT ![p] = @ \union returned]
    /\ arg' = [arg EXCEPT ![p] = None]
    /\ UNCHANGED <<token, scopeVars, bg, held, joining, failFast,
                   registry, snap, allocVars>>

AwaitFails(p) ==
    /\ AwaitReaps(p, "err")
    /\ StartTeardown(p, FALSE)
    /\ UNCHANGED <<token, scopeVars, bg, knows, joining, registry, snap,
                   allocVars>>

\* wait_reaped returns and AWAIT reports that the task was cancelled.
BarrierOpens(p) ==
    /\ pc[p] = "barrier"
    /\ reaped[arg[p]]
    /\ StartTeardown(p, FALSE)
    /\ UNCHANGED <<token, scopeVars, bg, knows, joining, entryVars,
                   registry, snap, allocVars>>

\* After the join of AwaitInterrupted: finish_teardown, then the error.
AwaitKillDone(p) ==
    /\ pc[p] = "awaitkill"
    /\ held[p] = {}
    /\ joining[p] = None
    /\ reaped' = [reaped EXCEPT ![arg[p]] = TRUE]
    /\ StartTeardown(p, FALSE)
    /\ UNCHANGED <<token, scopeVars, bg, knows, joining, phase, handle,
                   registry, snap, allocVars>>

-----------------------------------------------------------------------------
(* CANCEL                                                                  *)

CancelTakes(p, t) ==
    /\ CanStep(p, "CANCEL")
    /\ t \in knows[p] \intersect registry
    /\ phase[t] \in {"Running", "Awaiting"}
    /\ phase' = [phase EXCEPT ![t] = "Cancelled"]
    /\ handle' = [handle EXCEPT ![t] = FALSE]
    /\ held' = [held EXCEPT ![p] = IF handle[t] THEN {t} ELSE {}]
    /\ arg' = [arg EXCEPT ![p] = t]
    /\ pc' = [pc EXCEPT ![p] = "cancel"]
    /\ UNCHANGED <<token, scopeVars, bg, knows, joining, failFast, reaped,
                   registry, snap, allocVars>>

CancelRefused(p, t) ==
    /\ CanStep(p, "CANCEL")
    /\ t \in knows[p]
    /\ t \notin registry \/ phase[t] \in {"Cancelled", "Completed"}
    /\ StartTeardown(p, FALSE)
    /\ UNCHANGED <<token, scopeVars, bg, knows, joining, entryVars,
                   registry, snap, allocVars>>

CancelReturns(p) ==
    /\ pc[p] = "cancel"
    /\ held[p] = {}
    /\ joining[p] = None
    /\ reaped' = [reaped EXCEPT ![arg[p]] = TRUE]
    /\ pc' = [pc EXCEPT ![p] = "run"]
    /\ arg' = [arg EXCEPT ![p] = None]
    /\ UNCHANGED <<token, scopeVars, bg, knows, held, joining, failFast,
                   phase, handle, registry, snap, allocVars>>

-----------------------------------------------------------------------------
(* ThreadJoinHandle::kill: signal the worker, then join it                 *)

\* Mutated form: the worker is joined without being told to stop.
KillSignalsNoToken(p, t) ==
    /\ pc[p] \in {"cancel", "awaitkill", "killbg", "killnamed", "drop"}
    /\ joining[p] = None
    /\ t \in held[p]
    /\ joining' = [joining EXCEPT ![p] = t]
    /\ held' = [held EXCEPT ![p] = @ \ {t}]
    /\ UNCHANGED <<pc, arg, token, scopeVars, bg, knows, failFast, entryVars,
                   registry, snap, allocVars>>

KillSignals(p, t) ==
    /\ pc[p] \in {"cancel", "awaitkill", "killbg", "killnamed", "drop"}
    /\ joining[p] = None
    /\ t \in held[p]
    /\ token' = [token EXCEPT ![t] = TRUE]
    /\ joining' = [joining EXCEPT ![p] = t]
    /\ held' = [held EXCEPT ![p] = @ \ {t}]
    /\ UNCHANGED <<pc, arg, scopeVars, bg, knows, failFast, entryVars,
                   registry, snap, allocVars>>

\* Mutated form: the worker is signalled and not joined.
KillJoinsNoWait(p) ==
    LET t == joining[p]
    IN  /\ t # None
        /\ joining' = [joining EXCEPT ![p] = None]
        /\ reaped' = IF pc[p] = "killnamed"
                     THEN [reaped EXCEPT ![t] = TRUE]
                     ELSE reaped
        /\ UNCHANGED <<pc, arg, token, scopeVars, bg, knows, held, failFast,
                       phase, handle, registry, snap, allocVars>>

\* The teardown loops call finish_teardown after each join; CANCEL and
\* AWAIT do it when they are done (CancelReturns, AwaitKillDone).
KillJoins(p) ==
    LET t == joining[p]
    IN  /\ t # None
        /\ Finished(t)
        /\ joining' = [joining EXCEPT ![p] = None]
        /\ reaped' = IF pc[p] = "killnamed"
                     THEN [reaped EXCEPT ![t] = TRUE]
                     ELSE reaped
        /\ UNCHANGED <<pc, arg, token, scopeVars, bg, knows, held, failFast,
                       phase, handle, registry, snap, allocVars>>

-----------------------------------------------------------------------------
(* teardown_tasks_on_error, and the fail-fast teardown of the reap         *)

KillBgDone(p) ==
    /\ pc[p] = "killbg"
    /\ held[p] = {}
    /\ joining[p] = None
    /\ bg' = [bg EXCEPT ![p] = IF failFast[p] THEN @ \ InScope(p, @) ELSE {}]
    /\ IF p = Root
       THEN /\ pc' = [pc EXCEPT ![p] = "mark"]
            /\ snap' = IF failFast[p] THEN InScope(p, registry) ELSE registry
       ELSE /\ pc' = [pc EXCEPT ![p] = "torn"]
            /\ UNCHANGED snap
    /\ UNCHANGED <<arg, token, scopeVars, knows, held, joining, failFast,
                   entryVars, registry, allocVars>>

\* The root flow cancels every live entry of its snapshot, one entry lock
\* at a time, and keeps the handles.
Mark(t) ==
    LET taken == phase[t] \in {"Running", "Awaiting"}
    IN  /\ pc[Root] = "mark"
        /\ t \in snap
        /\ snap' = snap \ {t}
        /\ phase' = [phase EXCEPT ![t] = IF taken THEN "Cancelled" ELSE @]
        /\ handle' = [handle EXCEPT ![t] = IF taken THEN FALSE ELSE @]
        /\ held' = [held EXCEPT ![Root] =
                        IF taken /\ handle[t] THEN @ \union {t} ELSE @]
        /\ UNCHANGED <<pc, arg, token, scopeVars, bg, knows, joining,
                       failFast, reaped, registry, allocVars>>

MarkDone ==
    /\ pc[Root] = "mark"
    /\ snap = {}
    /\ pc' = [pc EXCEPT ![Root] = "killnamed"]
    /\ UNCHANGED <<arg, token, scopeVars, bg, knows, held, joining, failFast,
                   entryVars, registry, snap, allocVars>>

KillNamedDone ==
    /\ pc[Root] = "killnamed"
    /\ held[Root] = {}
    /\ joining[Root] = None
    /\ pc' = [pc EXCEPT ![Root] = "torn"]
    /\ UNCHANGED <<arg, token, scopeVars, bg, knows, held, joining, failFast,
                   entryVars, registry, snap, allocVars>>

\* The reap's error reaches execute_steps, which tears everything down.
FailFastDone(p) ==
    /\ pc[p] = "torn"
    /\ failFast[p]
    /\ StartTeardown(p, FALSE)
    /\ UNCHANGED <<token, scopeVars, bg, knows, joining, entryVars, registry,
                   snap, allocVars>>

\* The error leaves a TIMEOUT block and fails the step around it; the token
\* gets the value it had on entry unless the deadline fired.
TimeoutFails(p) ==
    /\ pc[p] = "torn"
    /\ ~failFast[p]
    /\ floor[p] # None
    /\ floor' = [floor EXCEPT ![p] = None]
    /\ fired' = [fired EXCEPT ![p] = FALSE]
    /\ token' = [token EXCEPT ![p] = @ /\ fired[p]]
    /\ StartTeardown(p, FALSE)
    /\ UNCHANGED <<bg, knows, joining, entryVars, registry, snap, allocVars>>

\* Mutated form: a worker that fails keeps its slot.
ThreadEndsLeaksSlot(p, result) ==
    /\ pc' = [pc EXCEPT ![p] = result]
    /\ live' = IF p = Root \/ result = "err" THEN live ELSE live - 1

\* TaskSlotGuard drops with the worker's closure.
ThreadEnds(p, result) ==
    /\ pc' = [pc EXCEPT ![p] = result]
    /\ live' = IF p = Root THEN live ELSE live - 1

ThreadFails(p) ==
    /\ pc[p] = "torn"
    /\ ~failFast[p]
    /\ floor[p] = None
    /\ ThreadEnds(p, "err")
    /\ UNCHANGED <<arg, token, scopeVars, bg, knows, held, joining, failFast,
                   entryVars, registry, snap, nextId, victims>>

-----------------------------------------------------------------------------
(* TIMEOUT                                                                 *)

EnterTimeout(p) ==
    /\ CanStep(p, "TIMEOUT")
    /\ floor[p] = None
    /\ floor' = [floor EXCEPT ![p] = nextId]
    /\ UNCHANGED <<pc, arg, token, fired, bg, knows, held, joining, failFast,
                   entryVars, registry, snap, allocVars>>

\* The watcher thread.
Deadline(p) ==
    /\ floor[p] # None
    /\ ~fired[p]
    /\ fired' = [fired EXCEPT ![p] = TRUE]
    /\ token' = [token EXCEPT ![p] = TRUE]
    /\ UNCHANGED <<pc, arg, floor, bg, knows, held, joining, failFast,
                   entryVars, registry, snap, allocVars>>

-----------------------------------------------------------------------------
(* The end of a pipeline or of a TIMEOUT body                              *)

\* Mutated form: the root flow leaves named tasks alone, as workers do.
PendingAnonymousOnly(p) == InScope(p, bg[p]) # {}

Pending(p) ==
    \/ InScope(p, bg[p]) # {}
    \/ p = Root /\ \E t \in InScope(p, registry) : ~reaped[t]

EndBody(p) ==
    /\ pc[p] = "run"
    /\ pc' = [pc EXCEPT ![p] = IF Pending(p) THEN "reap" ELSE "bodyok"]
    /\ UNCHANGED <<arg, token, scopeVars, bg, knows, held, joining, failFast,
                   entryVars, registry, snap, allocVars>>

ReapInterrupted(p) ==
    /\ pc[p] = "reap"
    /\ token[p]
    /\ StartTeardown(p, TRUE)
    /\ UNCHANGED <<token, scopeVars, bg, knows, joining, entryVars, registry,
                   snap, allocVars>>

ReapBg(p, c) ==
    /\ pc[p] = "reap"
    /\ c \in InScope(p, bg[p])
    /\ pc[c] = "ok"
    /\ bg' = [bg EXCEPT ![p] = @ \ {c}]
    /\ UNCHANGED <<pc, arg, token, scopeVars, knows, held, joining, failFast,
                   entryVars, registry, snap, allocVars>>

ReapBgFails(p, c) ==
    /\ pc[p] = "reap"
    /\ c \in InScope(p, bg[p])
    /\ pc[c] = "err"
    /\ StartTeardown(p, TRUE)
    /\ UNCHANGED <<token, scopeVars, bg, knows, joining, entryVars, registry,
                   snap, allocVars>>

\* The root flow joins an ended task, awaited by somebody or not.
PollNamed(t, result) ==
    /\ pc[Root] = "reap"
    /\ t \in InScope(Root, registry)
    /\ phase[t] \in {"Running", "Awaiting"}
    /\ handle[t]
    /\ pc[t] = result
    /\ phase' = [phase EXCEPT ![t] = "Completed"]
    /\ handle' = [handle EXCEPT ![t] = FALSE]
    /\ reaped' = [reaped EXCEPT ![t] = TRUE]

ReapNamed(t) ==
    /\ PollNamed(t, "ok")
    /\ UNCHANGED <<pc, arg, token, scopeVars, bg, knows, held, joining,
                   failFast, registry, snap, allocVars>>

ReapNamedFails(t) ==
    /\ PollNamed(t, "err")
    /\ StartTeardown(Root, TRUE)
    /\ UNCHANGED <<token, scopeVars, bg, knows, joining, registry, snap,
                   allocVars>>

\* Entries another thread is tearing down: the root flow waits for each.
Rendezvous ==
    LET unreaped == {t \in InScope(Root, registry) :
                        phase[t] = "Cancelled" /\ ~reaped[t]}
    IN  /\ pc[Root] = "reap"
        /\ unreaped # {}
        /\ snap' = unreaped
        /\ pc' = [pc EXCEPT ![Root] = "reapwait"]
        /\ UNCHANGED <<arg, token, scopeVars, bg, knows, held, joining,
                       failFast, entryVars, registry, allocVars>>

RendezvousDone ==
    /\ pc[Root] = "reapwait"
    /\ \A t \in snap : reaped[t]
    /\ snap' = {}
    /\ pc' = [pc EXCEPT ![Root] = "reap"]
    /\ UNCHANGED <<arg, token, scopeVars, bg, knows, held, joining, failFast,
                   entryVars, registry, allocVars>>

ReapDone(p) ==
    /\ pc[p] = "reap"
    /\ ~Pending(p)
    /\ pc' = [pc EXCEPT ![p] = "bodyok"]
    /\ UNCHANGED <<arg, token, scopeVars, bg, knows, held, joining, failFast,
                   entryVars, registry, snap, allocVars>>

\* The TIMEOUT body succeeded in time.
TimeoutDone(p) ==
    /\ pc[p] = "bodyok"
    /\ floor[p] # None
    /\ ~fired[p]
    /\ floor' = [floor EXCEPT ![p] = None]
    /\ token' = [token EXCEPT ![p] = FALSE]
    /\ pc' = [pc EXCEPT ![p] = "run"]
    /\ UNCHANGED <<arg, fired, bg, knows, held, joining, failFast, entryVars,
                   registry, snap, allocVars>>

\* It succeeded, but after the deadline.
TimeoutExpired(p) ==
    /\ pc[p] = "bodyok"
    /\ floor[p] # None
    /\ fired[p]
    /\ floor' = [floor EXCEPT ![p] = None]
    /\ fired' = [fired EXCEPT ![p] = FALSE]
    /\ StartTeardown(p, FALSE)
    /\ UNCHANGED <<token, bg, knows, joining, entryVars, registry, snap,
                   allocVars>>

ThreadSucceeds(p) ==
    /\ pc[p] = "bodyok"
    /\ floor[p] = None
    /\ ThreadEnds(p, "ok")
    /\ UNCHANGED <<arg, token, scopeVars, bg, knows, held, joining, failFast,
                   entryVars, registry, snap, nextId, victims>>

-----------------------------------------------------------------------------
(* RETURN in a task body skips the reap (as a single-CALL body does): the  *)
(* worker's state drops, and dropping a join handle kills its thread.      *)

\* Mutated form: the handles are dropped without a kill.
ReturnDetaches(p) ==
    /\ p # Root
    /\ CanStep(p, "RETURN")
    /\ pc' = [pc EXCEPT ![p] = "drop"]
    /\ floor' = [floor EXCEPT ![p] = None]
    /\ UNCHANGED <<arg, token, fired, bg, knows, held, joining, failFast,
                   entryVars, registry, snap, allocVars>>

Return(p) ==
    /\ p # Root
    /\ CanStep(p, "RETURN")
    /\ pc' = [pc EXCEPT ![p] = "drop"]
    /\ held' = [held EXCEPT ![p] = bg[p]]
    /\ floor' = [floor EXCEPT ![p] = None]
    /\ UNCHANGED <<arg, token, fired, bg, knows, joining, failFast, entryVars,
                   registry, snap, allocVars>>

\* RETURN leaves a TIMEOUT block whose deadline fires before its watcher is
\* stopped: the deadline error takes the place of the result.
ReturnExpired(p) ==
    /\ p # Root
    /\ CanStep(p, "RETURN")
    /\ floor[p] # None
    /\ floor' = [floor EXCEPT ![p] = None]
    /\ token' = [token EXCEPT ![p] = TRUE]
    /\ StartTeardown(p, FALSE)
    /\ UNCHANGED <<fired, bg, knows, joining, entryVars, registry, snap,
                   allocVars>>

\* A RETURN that would leave an anonymous task is an error.
Dropped(p) ==
    /\ pc[p] = "drop"
    /\ held[p] = {}
    /\ joining[p] = None
    /\ bg' = [bg EXCEPT ![p] = {}]
    /\ ThreadEnds(p, IF phase[p] = "None" THEN "err" ELSE "ok")
    /\ UNCHANGED <<arg, token, scopeVars, knows, held, joining, failFast,
                   entryVars, registry, snap, nextId, victims>>

-----------------------------------------------------------------------------
\* What a thread does by itself once it is past choosing a step.
Proceed(p) ==
    \/ StepCancelled(p)
    \/ SpawnNamed(p) \/ SpawnAnonymous(p)
    \/ AwaitObservesTaken(p) \/ AwaitInterrupted(p) \/ AwaitDone(p)
    \/ AwaitFails(p) \/ BarrierOpens(p) \/ AwaitKillDone(p)
    \/ CancelReturns(p)
    \/ \E t \in Task : KillSignals(p, t)
    \/ KillJoins(p) \/ KillBgDone(p) \/ FailFastDone(p) \/ TimeoutFails(p)
    \/ ThreadFails(p)
    \/ ReapInterrupted(p)
    \/ \E c \in Task : ReapBg(p, c) \/ ReapBgFails(p, c)
    \/ ReapDone(p) \/ TimeoutDone(p) \/ TimeoutExpired(p) \/ ThreadSucceeds(p)
    \/ Dropped(p)

\* What only the root flow does.
RootProceed ==
    \/ \E t \in Task : Mark(t) \/ ReapNamed(t) \/ ReapNamedFails(t)
    \/ MarkDone \/ KillNamedDone \/ Rendezvous \/ RendezvousDone

\* The next step of the script.
Step(p) ==
    \/ StepFails(p)
    \/ AllocTaskId(p) \/ AllocRefused(p)
    \/ \E t \in Task : \/ AwaitClaims(p, t) \/ AwaitFindsCancelled(p, t)
                       \/ AwaitRefused(p, t)
                       \/ CancelTakes(p, t) \/ CancelRefused(p, t)
    \/ EnterTimeout(p) \/ EndBody(p) \/ Return(p) \/ ReturnExpired(p)

Next ==
    \/ \E p \in Thread : Step(p) \/ Proceed(p) \/ Deadline(p)
    \/ RootProceed

Spec == Init /\ [][Next]_vars

\* Every thread is scheduled.  No fairness for Step: a script may run on,
\* and none for Deadline: it may be far away.
FairSpec ==
    /\ Spec
    /\ \A p \in Thread : WF_vars(Proceed(p))
    /\ WF_vars(RootProceed)

-----------------------------------------------------------------------------
(* Properties                                                              *)

Alive(t) == pc[t] \notin {"idle", "ok", "err"}

\* The tasks whose join handle thread p has taken and not yet disposed of.
Owns(p) ==
    held[p] \union (IF joining[p] = None THEN {} ELSE {joining[p]})
            \union (IF pc[p] \in {"cancel", "awaitkill"} THEN {arg[p]} ELSE {})

\* The values of the variables; task ids are never the root flow's own id.
TypeOK ==
    /\ pc \in [Thread -> {"idle", "run", "spawn", "await", "barrier", "cancel",
                          "awaitkill", "killbg", "mark", "killnamed", "torn",
                          "reap", "reapwait", "bodyok", "drop", "ok", "err"}]
    /\ arg \in [Thread -> Task \union {None}]
    /\ token \in [Thread -> BOOLEAN]
    /\ floor \in [Thread -> Nat]
    /\ fired \in [Thread -> BOOLEAN]
    /\ bg \in [Thread -> SUBSET Task]
    /\ knows \in [Thread -> SUBSET Task]
    /\ held \in [Thread -> SUBSET Task]
    /\ joining \in [Thread -> Task \union {None}]
    /\ failFast \in [Thread -> BOOLEAN]
    /\ victims \in [Thread -> SUBSET Task]
    /\ phase \in [Task -> {"None", "Running", "Awaiting", "Cancelled",
                           "Completed", "Gone"}]
    /\ handle \in [Task -> BOOLEAN]
    /\ reaped \in [Task -> BOOLEAN]
    /\ registry \in SUBSET Task
    /\ snap \in SUBSET Task
    /\ nextId \in 1..(MaxTasks + 1)
    /\ live \in Int

\* Nobody who waits for an entry's reaped flag outruns the teardown: the
\* worker thread has ended when the flag is set, whichever of AWAIT, CANCEL,
\* an interrupted AWAIT, the end-of-pipeline reap or an error's teardown set
\* it.  (state.rs on TaskEntryState: "so no caller outruns OS process
\* teardown".)
ReapedMeansJoined == \A t \in Task : reaped[t] => Finished(t)

\* An entry's handle is in the entry exactly while the phase says so; once
\* taken it has one owner, until the entry is reaped.  (state.rs on
\* TaskEntry: "Exactly one thread ever takes the handle and performs
\* teardown; all other observers rendezvous".)
OneOwner ==
    \A t \in Task :
        /\ handle[t] <=> phase[t] \in {"Running", "Awaiting"}
        /\ phase[t] # "None" =>
             \A p, q \in Thread : t \in Owns(p) /\ t \in Owns(q) => p = q
        /\ phase[t] = "Cancelled" /\ ~reaped[t] <=>
             phase[t] # "None" /\ \E p \in Thread : t \in Owns(p)

\* live_tasks counts the threads that exist or are about to: the cap of
\* MAX_RUNNING_TASKS bounds threads, over nested spawns, kills and returns.
LiveCountsThreads ==
    /\ live = Cardinality({t \in Task : Alive(t)})
              + Cardinality({p \in Thread : pc[p] = "spawn"})
    /\ live =< MaxRunning

\* An anonymous task never outlives the thread that spawned it, so a
\* cancelled or failed task leaves no background work of its own behind.
NoOrphans ==
    \A t \in Task :
        Alive(t) /\ phase[t] = "None" => \E p \in Thread : Alive(p) /\ t \in bg[p]

\* When the root flow ends well, no task is running any more: not a task a
\* worker spawned or cancelled meanwhile, nor one evicted from the registry.
RootOkMeansQuiet ==
    pc[Root] = "ok" => \A t \in Task : ~Alive(t)

\* CANCEL returns to the script only after the task's thread has ended, and
\* the task stays cancelled.
CancelIsSynchronous ==
    [][\A p \in Thread : pc[p] = "cancel" /\ pc'[p] # "cancel" =>
           Finished(arg[p]) /\ phase[arg[p]] = "Cancelled"]_vars

\* A terminal phase is final, and reaped is never taken back.
TombstonesAreFinal ==
    [][\A t \in Task :
          /\ phase[t] \in {"Cancelled", "Completed"} => phase'[t] = phase[t]
          /\ reaped[t] => reaped'[t]]_vars

-----------------------------------------------------------------------------
(* Liveness                                                                *)

\* CANCEL returns.
CancelReturnsEventually ==
    \A p \in Thread : pc[p] = "cancel" ~> pc[p] # "cancel"

\* Once an error reached the top of the root flow, the run ends.
TeardownEnds ==
    pc[Root] \in {"killbg", "mark", "killnamed", "torn"} ~> pc[Root] = "err"

-----------------------------------------------------------------------------
(* What comments and documents say                                         *)

\* command_reference.md on AWAIT: "Blocks until the named task completes".
\* AWAIT reports cancellation only of a task that was cancelled.
AwaitReportsCancelledOnly ==
    \A p \in Thread : pc[p] = "barrier" => phase[arg[p]] = "Cancelled"

\* state.rs on sweep_finished_tasks: "`Awaiting` entries always survive".
AwaitingSurvives ==
    \A t \in Task : phase[t] = "Awaiting" => t \in registry

\* exec/tests.rs on TIMEOUT: "a body that still completes must restore the
\* signal, not erase it".  A killed worker keeps its token.
SignalNotErased ==
    \A p \in Thread : joining[p] # None => token[joining[p]] \/ Finished(joining[p])

=============================================================================

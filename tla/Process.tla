------------------------------ MODULE Process ------------------------------
(***************************************************************************)
(* RUN and the processes it starts: the handler of a RUN step              *)
(* (crates/oxdock-core/src/exec/handlers.rs), the process manager          *)
(* (shell_manager.rs) and the shared ChildHandle (child.rs) of             *)
(* crates/sys/oxdock-process/src, with the threads that kill a step: the   *)
(* CANCEL or teardown of its task and the deadline of a TIMEOUT.           *)
(*                                                                         *)
(* A background command leads a process group.  Its leader may fork        *)
(* processes (Kids) that inherit its ends of the output pipes; a leader    *)
(* with a pending SIGKILL may fork once more before it dies.  Once the     *)
(* leader is reaped and the group empty, the system may give the pid to    *)
(* another program.                                                        *)
(***************************************************************************)
EXTENDS Naturals, FiniteSets, FiniteSetsExt

CONSTANTS
    MaxCommands,  \* bound: the RUN steps of a block
    Kids,
    Live,         \* names of live OS pipes
    Setups,       \* how the commands are bound, and bounds: see SetupOK
    None

VARIABLES
    setup,   \* constant
    token,   \* cancel_token
    slot,    \* active_process: the command whose handle it holds, or 0
    slotLock,
    cur, pc, \* the worker that runs the steps
    child,   \* the handle and the processes of each command
    kill,    \* kill() in progress, by thread
    feeder,  \* the thread that copies the script pipe to each command's stdin
    input,   \* chunks: arrived, taken, lost
    live,    \* live OS pipe ends nobody has taken
    foreign  \* another program was signalled

processVars == <<setup, token, slot, slotLock, cur, pc, child, kill, feeder, input, live, foreign>>

Commands == 1..MaxCommands
Streams == {"out", "err"}
Runner == "runner"

\* The threads that kill a step: CANCEL joins the worker's thread after its
\* kill, the deadline watcher does not.
Killers == {"cancel", "watcher"}

SetupOK(s) ==
    /\ s.background \in BOOLEAN           \* inside_async || cancellable
    /\ s.anchored \in BOOLEAN             \* PATH is in the script environment
    /\ s.bare \in BOOLEAN                 \* shell form, or a program without separator
    /\ s.stdin \in {"null", "stream"}
    /\ s.to \in [Streams -> {"inherit", "stream"} \cup Live]
    /\ s.broken \in SUBSET Streams        \* sinks whose writes fail
    /\ s.last \in Nat \ {0}              \* bounds: the last command run,
    /\ 1..s.last \subseteq Commands
    /\ s.killers \in SUBSET Killers      \* who kills (only a cancellable step),
    /\ s.killers # {} => s.background
    /\ s.kids \in SUBSET Kids            \* forks,
    /\ s.input \in Nat /\ s.output \in Nat \* chunks fed in, and written to a stream

Piped == {s \in Streams : setup.to[s] = "stream"}

ProcessInit ==
    /\ setup \in Setups /\ SetupOK(setup)
    /\ token = FALSE /\ slot = 0 /\ slotLock = None
    /\ cur = 1 /\ pc = "start"
    /\ child = [i \in Commands |->
                  [leader |-> "none", code |-> 0, kids |-> {}, forked |-> {}, taken |-> FALSE,
                   lock |-> None, killed |-> FALSE, reaped |-> FALSE, pid |-> FALSE,
                   pumps |-> {}, written |-> [s \in Streams |-> 0],
                   sunk |-> [s \in Streams |-> 0], reused |-> FALSE]]
    /\ kill = [a \in Killers \cup {Runner} |-> [pc |-> "idle", on |-> None]]
    /\ feeder = [i \in Commands |-> "off"]
    /\ input = [arrived |-> 0, taken |-> 0, lost |-> 0]
    /\ live = Live
    /\ foreign = FALSE

Alive(i) == child[i].leader \in {"running", "dying"}
TreeAlive(i) == Alive(i) \/ child[i].kids # {}
Free(i) == child[i].lock = None

-----------------------------------------------------------------------------
(* RUN *)

RefuseWhenCancelled ==
    /\ pc = "start"
    /\ pc' = IF token THEN "interrupted" ELSE "checked"
    /\ UNCHANGED <<setup, token, slot, slotLock, cur, child, kill, feeder, input, live, foreign>>

\* The live OS pipe ends a spawn takes, the one of stdout first.
LiveEnds == {setup.to[s] : s \in Streams} \cap Live
Taken == IF setup.to["out"] \in Live /\ setup.to["out"] \notin live THEN {} ELSE LiveEnds
CanTake == /\ LiveEnds \subseteq live
           /\ setup.to["out"] \in Live => setup.to["out"] # setup.to["err"]

SpawnFails ==
    /\ pc = "checked"
    /\ pc' = "failed"
    /\ \/ setup.bare /\ ~setup.anchored /\ live' = live
       \/ ~CanTake /\ live' = live \ Taken
    /\ UNCHANGED <<setup, token, slot, slotLock, cur, child, kill, feeder, input, foreign>>

Spawn ==
    /\ pc = "checked"
    /\ setup.bare => setup.anchored
    /\ CanTake
    /\ live' = live \ LiveEnds
    /\ child' = [child EXCEPT ![cur].leader = "running", ![cur].pid = TRUE,
                              ![cur].pumps = Piped]
    /\ feeder' = [feeder EXCEPT ![cur] = IF setup.stdin = "stream" THEN "reading" ELSE "off"]
    /\ pc' = IF setup.background THEN "spawned" ELSE "wait"
    /\ UNCHANGED <<setup, token, slot, slotLock, cur, kill, input, foreign>>

Register ==
    /\ pc = "spawned" /\ slotLock = None
    /\ slot' = cur
    /\ pc' = "registered"
    /\ UNCHANGED <<setup, token, slotLock, cur, child, kill, feeder, input, live, foreign>>

\* Mutant: no second look at the token.
RecheckNothing ==
    /\ pc = "registered"
    /\ pc' = "wait"
    /\ UNCHANGED <<setup, token, slot, slotLock, cur, child, kill, feeder, input, live, foreign>>

Recheck ==
    /\ pc = "registered"
    /\ IF token THEN /\ pc' = "selfkill"
                     /\ kill' = [kill EXCEPT ![Runner] = [pc |-> "load", on |-> cur]]
                ELSE pc' = "wait" /\ UNCHANGED kill
    /\ UNCHANGED <<setup, token, slot, slotLock, cur, child, feeder, input, live, foreign>>

SelfKilled ==
    /\ pc = "selfkill" /\ kill[Runner].pc = "end"
    /\ kill' = [kill EXCEPT ![Runner].pc = "idle"]
    /\ pc' = "interrupted"
    /\ UNCHANGED <<setup, token, slot, slotLock, cur, child, feeder, input, live, foreign>>

ClearRegistration ==
    /\ pc = "clear" /\ slotLock = None
    /\ slot' = 0
    /\ pc' = "return"
    /\ UNCHANGED <<setup, token, slotLock, cur, child, kill, feeder, input, live, foreign>>

Return ==
    /\ pc = "return"
    /\ IF child[cur].code # 0 THEN pc' = "failed" /\ UNCHANGED cur
       ELSE IF cur < setup.last THEN pc' = "start" /\ cur' = cur + 1
       ELSE pc' = "ok" /\ UNCHANGED cur
    /\ UNCHANGED <<setup, token, slot, slotLock, child, kill, feeder, input, live, foreign>>

-----------------------------------------------------------------------------
(* ChildHandle *)

\* kill(-pid, SIGKILL): the group of command i, or whoever has its pid now.
KillTree(i) ==
    [child EXCEPT ![i].leader = IF @ = "running" THEN "dying" ELSE @, ![i].kids = {}]

\* Mutant: the group is signalled once only.
SweepNothing(c) == c

\* sweep_process_group, after the leader is reaped.
Sweep(c) == IF c.killed /\ c.pid THEN [c EXCEPT !.kids = {}] ELSE c

Hits(i) == child[i].reused

WaitTakes ==
    /\ pc = "wait" /\ Free(cur)
    /\ child' = [child EXCEPT ![cur].taken = TRUE]
    /\ pc' = "oswait"
    /\ UNCHANGED <<setup, token, slot, slotLock, cur, kill, feeder, input, live, foreign>>

WaitReaps ==
    /\ pc = "oswait" /\ child[cur].leader = "zombie"
    /\ child' = [child EXCEPT ![cur].leader = "reaped"]
    /\ pc' = "relock"
    /\ UNCHANGED <<setup, token, slot, slotLock, cur, kill, feeder, input, live, foreign>>

\* Under the lock: the sweep, then the pid is zeroed.
WaitSweeps ==
    /\ pc = "relock" /\ Free(cur)
    /\ child' = [child EXCEPT ![cur] = [Sweep(@) EXCEPT !.lock = Runner, !.pid = FALSE]]
    /\ foreign' = (foreign \/ (child[cur].killed /\ Hits(cur)))
    /\ pc' = "join"
    /\ UNCHANGED <<setup, token, slot, slotLock, cur, kill, feeder, input, live>>

\* Still under the lock: the output pumps, never the stdin feeder.
WaitJoins ==
    /\ pc = "join" /\ child[cur].pumps = {}
    /\ child' = [child EXCEPT ![cur].reaped = TRUE, ![cur].lock = None]
    /\ pc' = IF setup.background THEN "clear" ELSE "return"
    /\ UNCHANGED <<setup, token, slot, slotLock, cur, kill, feeder, input, live, foreign>>

KillLoads(a) ==
    /\ kill[a].pc = "load"
    /\ kill' = [kill EXCEPT ![a].pc = IF child[kill[a].on].pid THEN "flag" ELSE "end"]
    /\ UNCHANGED <<setup, token, slot, slotLock, cur, pc, child, feeder, input, live, foreign>>

KillFlags(a) ==
    /\ kill[a].pc = "flag" /\ Free(kill[a].on)
    /\ child' = [child EXCEPT ![kill[a].on].killed = TRUE]
    /\ kill' = [kill EXCEPT ![a].pc = "signal"]
    /\ UNCHANGED <<setup, token, slot, slotLock, cur, pc, feeder, input, live, foreign>>

KillSignals(a) ==
    /\ kill[a].pc = "signal"
    /\ child' = KillTree(kill[a].on)
    /\ foreign' = (foreign \/ Hits(kill[a].on))
    /\ kill' = [kill EXCEPT ![a].pc = "end"]
    /\ UNCHANGED <<setup, token, slot, slotLock, cur, pc, feeder, input, live>>

\* Drop of the last clone, left in active_process by an interrupted RUN: the
\* worker's state and its task are gone.  try_wait reaps a leader that ended;
\* a running one is killed and waited for.  The pumps are not joined.
DropStarts ==
    /\ pc = "interrupted" /\ slot = cur
    /\ \A k \in Killers : kill[k].pc \in {"idle", "done"}
    /\ Free(cur) /\ ~child[cur].reaped
    /\ child' = IF child[cur].leader = "zombie"
                THEN [child EXCEPT ![cur].lock = Runner, ![cur].leader = "reaped"]
                ELSE [KillTree(cur) EXCEPT ![cur].lock = Runner, ![cur].killed = TRUE]
    /\ pc' = "drop"
    /\ UNCHANGED <<setup, token, slot, slotLock, cur, kill, feeder, input, live, foreign>>

DropEnds ==
    /\ pc = "drop" /\ child[cur].leader \in {"zombie", "reaped"}
    /\ child' = [child EXCEPT ![cur] = [Sweep(@) EXCEPT !.leader = "reaped", !.lock = None,
                                                        !.reaped = TRUE]]
    /\ foreign' = (foreign \/ Hits(cur))
    /\ slot' = 0
    /\ pc' = "dropped"
    /\ UNCHANGED <<setup, token, slotLock, cur, kill, feeder, input, live>>

-----------------------------------------------------------------------------
(* ThreadJoinHandle::kill and the deadline watcher of TIMEOUT *)

KillerFires(k) ==
    /\ kill[k].pc = "idle" /\ k \in setup.killers
    /\ pc \notin {"ok", "failed", "interrupted", "drop", "dropped"}
    /\ token' = TRUE
    /\ kill' = [kill EXCEPT ![k].pc = "slot"]
    /\ UNCHANGED <<setup, slot, slotLock, cur, pc, child, feeder, input, live, foreign>>

Ended == pc \in {"ok", "failed", "interrupted", "dropped"}
Joins(k) == IF k = "cancel" THEN "join" ELSE "done"

\* The lock on active_process is held while the handle's kill runs.
KillerLooks(k) ==
    /\ kill[k].pc = "slot" /\ slotLock = None
    /\ IF slot = 0
       THEN kill' = [kill EXCEPT ![k].pc = Joins(k)] /\ UNCHANGED slotLock
       ELSE kill' = [kill EXCEPT ![k] = [pc |-> "load", on |-> slot]] /\ slotLock' = k
    /\ UNCHANGED <<setup, token, slot, cur, pc, child, feeder, input, live, foreign>>

KillerReleases(k) ==
    /\ kill[k].pc = "end"
    /\ kill' = [kill EXCEPT ![k].pc = Joins(k)]
    /\ slotLock' = None
    /\ UNCHANGED <<setup, token, slot, cur, pc, child, feeder, input, live, foreign>>

KillerJoins(k) ==
    /\ kill[k].pc = "join" /\ Ended
    /\ kill' = [kill EXCEPT ![k].pc = "done"]
    /\ UNCHANGED <<setup, token, slot, slotLock, cur, pc, child, feeder, input, live, foreign>>

-----------------------------------------------------------------------------
(* Pumps and the stdin feeder *)

InPipe(i, s) == child[i].written[s] - child[i].sunk[s]

\* Mutant: the pump stops once the leader has exited.
PumpEofOnExit(i, s) ==
    /\ s \in child[i].pumps
    /\ child[i].leader \in {"zombie", "reaped"}
    /\ child' = [child EXCEPT ![i].pumps = @ \ {s}]
    /\ UNCHANGED <<setup, token, slot, slotLock, cur, pc, kill, feeder, input, live, foreign>>

\* End of file: every write end is closed and the pipe is empty.
PumpEof(i, s) ==
    /\ s \in child[i].pumps
    /\ InPipe(i, s) = 0 /\ ~TreeAlive(i)
    /\ child' = [child EXCEPT ![i].pumps = @ \ {s}]
    /\ UNCHANGED <<setup, token, slot, slotLock, cur, pc, kill, feeder, input, live, foreign>>

\* A chunk is forwarded, or the sink refuses it and the pump stops.
PumpCopies(i, s) ==
    /\ s \in child[i].pumps /\ InPipe(i, s) > 0
    /\ child' = IF s \in setup.broken THEN [child EXCEPT ![i].pumps = @ \ {s}]
                                      ELSE [child EXCEPT ![i].sunk[s] = @ + 1]
    /\ UNCHANGED <<setup, token, slot, slotLock, cur, pc, kill, feeder, input, live, foreign>>

FeederReads(i) ==
    /\ feeder[i] = "reading" /\ input.arrived > input.taken
    /\ input' = [input EXCEPT !.taken = @ + 1]
    /\ feeder' = [feeder EXCEPT ![i] = "holding"]
    /\ UNCHANGED <<setup, token, slot, slotLock, cur, pc, child, kill, live, foreign>>

\* The write fails once no process reads the child's stdin.
FeederWrites(i) ==
    /\ feeder[i] = "holding"
    /\ IF TreeAlive(i) THEN feeder' = [feeder EXCEPT ![i] = "reading"] /\ UNCHANGED input
       ELSE /\ feeder' = [feeder EXCEPT ![i] = "off"]
            /\ input' = [input EXCEPT !.lost = @ + 1]
    /\ UNCHANGED <<setup, token, slot, slotLock, cur, pc, child, kill, live, foreign>>

InputArrives ==
    /\ input.arrived < setup.input /\ setup.stdin = "stream"
    /\ input' = [input EXCEPT !.arrived = @ + 1]
    /\ UNCHANGED <<setup, token, slot, slotLock, cur, pc, child, kill, feeder, live, foreign>>

-----------------------------------------------------------------------------
(* The processes, outside the program *)

LeaderForks(i, k) ==
    /\ Alive(i) /\ k \in setup.kids
    /\ \A j \in Commands : k \notin child[j].forked
    /\ child' = [child EXCEPT ![i].kids = @ \cup {k}, ![i].forked = @ \cup {k}]
    /\ UNCHANGED <<setup, token, slot, slotLock, cur, pc, kill, feeder, input, live, foreign>>

LeaderExits(i, code) ==
    /\ child[i].leader = "running"
    /\ child' = [child EXCEPT ![i].leader = "zombie", ![i].code = code]
    /\ UNCHANGED <<setup, token, slot, slotLock, cur, pc, kill, feeder, input, live, foreign>>

LeaderDies(i) ==
    /\ child[i].leader = "dying"
    /\ child' = [child EXCEPT ![i].leader = "zombie", ![i].code = 1]
    /\ UNCHANGED <<setup, token, slot, slotLock, cur, pc, kill, feeder, input, live, foreign>>

KidExits(i, k) ==
    /\ k \in child[i].kids
    /\ child' = [child EXCEPT ![i].kids = @ \ {k}]
    /\ UNCHANGED <<setup, token, slot, slotLock, cur, pc, kill, feeder, input, live, foreign>>

ProcessWrites(i, s) ==
    /\ TreeAlive(i) /\ s \in child[i].pumps /\ child[i].written[s] < setup.output
    /\ child' = [child EXCEPT ![i].written[s] = @ + 1]
    /\ UNCHANGED <<setup, token, slot, slotLock, cur, pc, kill, feeder, input, live, foreign>>

PidReused(i) ==
    /\ child[i].leader = "reaped" /\ child[i].kids = {} /\ ~child[i].reused
    /\ child' = [child EXCEPT ![i].reused = TRUE]
    /\ UNCHANGED <<setup, token, slot, slotLock, cur, pc, kill, feeder, input, live, foreign>>

-----------------------------------------------------------------------------
RunnerStep == \/ RefuseWhenCancelled \/ SpawnFails \/ Spawn \/ Register \/ Recheck
              \/ SelfKilled \/ ClearRegistration \/ Return
              \/ WaitTakes \/ WaitReaps \/ WaitSweeps \/ WaitJoins
              \/ DropStarts \/ DropEnds
KillStep(a) == KillLoads(a) \/ KillFlags(a) \/ KillSignals(a)
KillerStep(k) == KillerLooks(k) \/ KillerReleases(k) \/ KillerJoins(k)
PumpStep(i) == \E s \in Streams : PumpEof(i, s) \/ PumpCopies(i, s)
FeederStep(i) == FeederReads(i) \/ FeederWrites(i)
SystemStep == \/ InputArrives
              \/ \E i \in Commands : \/ \E k \in Kids : LeaderForks(i, k) \/ KidExits(i, k)
                                     \/ \E code \in {0, 1} : LeaderExits(i, code)
                                     \/ LeaderDies(i) \/ PidReused(i)
                                     \/ \E s \in Streams : ProcessWrites(i, s)

ProcessNext ==
    \/ RunnerStep
    \/ \E a \in Killers \cup {Runner} : KillStep(a)
    \/ \E k \in Killers : KillerFires(k) \/ KillerStep(k)
    \/ \E i \in Commands : PumpStep(i) \/ FeederStep(i)
    \/ SystemStep

\* The threads of the program run, and a killed leader dies.  Nothing makes a
\* process end by itself.
ProcessFairness ==
    /\ WF_processVars(RunnerStep)
    /\ \A a \in Killers \cup {Runner} : WF_processVars(KillStep(a))
    /\ \A k \in Killers : WF_processVars(KillerStep(k))
    /\ \A i \in Commands : WF_processVars(PumpStep(i)) /\ WF_processVars(LeaderDies(i))

ProcessSpec == ProcessInit /\ [][ProcessNext]_processVars /\ ProcessFairness

-----------------------------------------------------------------------------
(* Properties *)

\* A kill that has run reaches every process the step starts: no worker waits
\* for a leader that was never signalled.  ("spawning now would create an
\* unkillable-by-teardown child", handlers.rs:191; "Cancellation landing
\* between spawn and registration would miss this handle", handlers.rs:225.)
KillReachesChild ==
    \A k \in Killers :
        kill[k].pc \in {"join", "done"} /\ pc \in {"wait", "oswait"}
            => child[cur].leader # "running"

\* A RUN that has returned has forwarded every byte its whole process tree
\* wrote, except to a sink that fails (shell_manager.rs pumps, child.rs wait).
OutputComplete ==
    \A i \in Commands : (i < cur \/ pc \in {"clear", "return", "ok"}) /\ child[i].reaped =>
        \A s \in Piped \ setup.broken :
            /\ ~TreeAlive(i)
            /\ child[i].sunk[s] = child[i].written[s]

\* A feeder that outlives its command swallows at most one chunk of the input
\* of the commands after it (child.rs:42).
FeederStops ==
    input.lost <= Cardinality({i \in 1..setup.last : feeder[i] = "off" /\ child[i].leader # "none"})

StreamsIntact == OutputComplete /\ FeederStops

\* Once the handle is marked killed the RUN ends, even if the leader forked
\* while it was dying ("the pump join below stalls on the escapee's inherited
\* pipe write ends", child.rs:133).
KilledRunEnds == \A i \in Commands : child[i].killed ~> Ended

\* "killing a background step now takes its whole process tree with it, so
\* orphaned grandchildren holding the output pipes open can no longer delay
\* AWAIT/CANCEL/step completion" (CHANGELOG.md:247).
CancelNotDelayed == \A k \in Killers : kill[k].pc = "slot" ~> kill[k].pc = "done"

\* "Zero PID to prevent killing recycled PIDs" (child.rs:93, 143).
NoForeignSignal == ~foreign

=============================================================================

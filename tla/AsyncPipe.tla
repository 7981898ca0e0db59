----------------------------- MODULE AsyncPipe ------------------------------
(***************************************************************************)
(* One script pipe shared by the root flow and an ASYNC task.  The root    *)
(* flow may write to it first, spawns the task and then reads the pipe to  *)
(* its end.  The task's body is a sequence of steps; a step is a sequence  *)
(* of commands, and a step with several commands is a block (FOR, IF,      *)
(* TIMEOUT ...) whose commands run through the same step loop as a slice   *)
(* of their own.  A command writes to the pipe, reads it to its end, or    *)
(* does not touch it.                                                      *)
(*                                                                         *)
(* Every writing command attaches a writer of its own and detaches it, so  *)
(* between two of them the pipe has no writer.  What keeps readers from    *)
(* taking such a gap for the end of the stream is the keeper pinned by the *)
(* spawner (pin_async_keepers) and dropped by the worker's step loop after *)
(* the last step that writes (KeeperExpiry).                               *)
(***************************************************************************)
EXTENDS ScriptPipe, Sequences, FiniteSetsExt

CONSTANTS
    Bodies,    \* the task bodies considered
    Main,      \* the root flow as a reader
    Worker,    \* the task as a reader
    EarlyOut,  \* the writer handle of the root flow's own writing command
    Pin        \* the keeper guard

ASSUME AsyncAssumption ==
    /\ Reader = {Main, Worker} /\ Main # Worker
    /\ EarlyOut \in Writer /\ Pin \in Keeper
    /\ MaxPush >= 1
    /\ Bodies \subseteq Seq(Seq({"produce", "consume", "other"}))
    /\ \A b \in Bodies : b # <<>> /\ \A i \in DOMAIN b : b[i] # <<>>

VARIABLES
    body,      \* the task's body
    mpc,       \* where the root flow is
    wpc,       \* where the task's thread is
    at,        \* the worker's step and its command in it
    out,       \* the writer handle of the worker's current command
    expiry,    \* the step at which the keeper expires, 0 without a keeper
    wasClosed  \* history: the pipe was closed when the keeper was pinned

taskVars == <<body, mpc, wpc, at, out, expiry, wasClosed>>
allVars == <<vars, taskVars>>

\* Steps of a body that write to the pipe, blocks included.
Produces(b) == {i \in DOMAIN b : \E j \in DOMAIN b[i] : b[i][j] = "produce"}

LastProducer(b) == IF Produces(b) = {} THEN 0 ELSE Max(Produces(b))

AsyncInit ==
    /\ Init
    /\ body \in Bodies
    /\ mpc = "start" /\ wpc = "unborn"
    /\ at = [step |-> 1, cmd |-> 1]
    /\ out = EarlyOut
    /\ expiry = 0
    /\ wasClosed = FALSE

-----------------------------------------------------------------------------
(* The root flow *)

\* A thread that has yet to notify takes no other step.
Idle(handles) == notifying \cap handles = {}

RootAttaches ==
    /\ mpc = "start"
    /\ AttachWriter(EarlyOut)
    /\ mpc' = "early"
    /\ UNCHANGED <<body, wpc, at, out, expiry, wasClosed>>

RootWrites ==
    /\ mpc = "early"
    /\ PushBytes(EarlyOut, 1)
    /\ UNCHANGED taskVars

RootDetaches ==
    /\ mpc = "early"
    /\ DetachWriter(EarlyOut)
    /\ mpc' = "ready"
    /\ UNCHANGED <<body, wpc, at, out, expiry, wasClosed>>

\* The spawner pins the keeper before the thread exists, and only for a
\* body that writes; the pin never touches the closed latch.
Spawn ==
    /\ mpc \in {"start", "ready"} /\ Idle({EarlyOut})
    /\ IF Produces(body) # {} THEN PinKeeper(Pin) ELSE UNCHANGED vars
    /\ expiry' = LastProducer(body)
    /\ wasClosed' = closed
    /\ mpc' = "consume" /\ wpc' = "step"
    /\ UNCHANGED <<body, at, out>>

\* A command that reads the pipe to its end: read until Ok(0) or an error.
RootReads ==
    /\ mpc = "consume" /\ got[Main] \notin {"eof", "error"}
    /\ CallRead(Main)
    /\ UNCHANGED taskVars

RootReadDone ==
    /\ mpc = "consume" /\ rpc[Main] = "out" /\ got[Main] \in {"eof", "error"}
    /\ mpc' = "done"
    /\ UNCHANGED <<vars, body, wpc, at, out, expiry, wasClosed>>

-----------------------------------------------------------------------------
(* The worker *)

Command == body[at.step][at.cmd]
WorkerIdle == Idle(Handle \ {EarlyOut})

\* Drop of the worker's state: the guards still in the expiry map go.
DropState ==
    /\ IF expiry # 0 THEN UnpinKeeper(Pin) ELSE UNCHANGED vars
    /\ expiry' = 0
    /\ wpc' = "end"
    /\ UNCHANGED <<body, mpc, at, out, wasClosed>>

\* The token is set: the loop leaves before the step.
WorkerCancelled == wpc = "step" /\ WorkerIdle /\ DropState

WorkerSkips ==
    /\ wpc = "step" /\ WorkerIdle
    /\ Command = "other"
    /\ wpc' = "stepped"
    /\ UNCHANGED <<vars, body, mpc, at, out, expiry, wasClosed>>

WorkerAttaches(w) ==
    /\ wpc = "step" /\ WorkerIdle
    /\ Command = "produce"
    /\ w # EarlyOut
    /\ AttachWriter(w)
    /\ out' = w
    /\ wpc' = "write"
    /\ UNCHANGED <<body, mpc, at, expiry, wasClosed>>

\* One write; a refused one fails the command.
WorkerWrites ==
    /\ wpc = "write"
    /\ PushBytes(out, 1)
    /\ wpc' = IF buffered' > buffered THEN "wrote" ELSE "refused"
    /\ UNCHANGED <<body, mpc, at, out, expiry, wasClosed>>

WorkerDetaches ==
    /\ wpc \in {"wrote", "refused"}
    /\ DetachWriter(out)
    /\ wpc' = IF wpc = "wrote" THEN "stepped" ELSE "failed"
    /\ UNCHANGED <<body, mpc, at, out, expiry, wasClosed>>

WorkerReads ==
    /\ wpc \in {"step", "read"} /\ WorkerIdle
    /\ Command = "consume"
    /\ wpc = "read" => got[Worker] \notin {"eof", "error"}
    /\ CallRead(Worker)
    /\ wpc' = "read"
    /\ UNCHANGED <<body, mpc, at, out, expiry, wasClosed>>

WorkerReadDone ==
    /\ wpc = "read" /\ rpc[Worker] = "out" /\ got[Worker] \in {"eof", "error"}
    /\ wpc' = IF got[Worker] = "eof" THEN "stepped" ELSE "failed"
    /\ UNCHANGED <<vars, body, mpc, at, out, expiry, wasClosed>>

InBlock == Len(body[at.step]) > 1
EndsStep == at.cmd = Len(body[at.step])

\* expire_step: a block's loop runs with another slice and leaves the map
\* alone; the worker's own loop drops the guards of the step it finished.
Expires == EndsStep /\ expiry = at.step

NextPosition ==
    IF EndsStep THEN [step |-> at.step + 1, cmd |-> 1] ELSE [at EXCEPT !.cmd = @ + 1]

\* The end of a command: expiry, then the next command or the end.
WorkerAdvances ==
    /\ wpc = "stepped" /\ WorkerIdle
    /\ IF Expires THEN UnpinKeeper(Pin) ELSE UNCHANGED vars
    /\ expiry' = IF Expires THEN 0 ELSE expiry
    /\ at' = NextPosition
    /\ wpc' = IF at'.step > Len(body) THEN "last" ELSE "step"
    /\ UNCHANGED <<body, mpc, out, wasClosed>>

\* A failed command: the step loop's expiry and the drop of the state release
\* the keeper, and the thread does nothing to the pipe in between.
WorkerFails == wpc = "failed" /\ WorkerIdle /\ DropState

WorkerEnds == wpc = "last" /\ WorkerIdle /\ DropState

-----------------------------------------------------------------------------
\* The scheduler's part: pending notifications and woken readers.
Background ==
    /\ \/ \E c \in Caller : NotifyAll(c)
       \/ \E r \in Reader : ReadProceeds(r) \/ SpuriousWake(r)
    /\ UNCHANGED taskVars

RootStep ==
    \/ RootAttaches \/ RootWrites \/ RootDetaches
    \/ Spawn \/ RootReads \/ RootReadDone

WorkerStep ==
    \/ WorkerSkips \/ \E w \in Writer : WorkerAttaches(w)
    \/ WorkerWrites \/ WorkerDetaches
    \/ WorkerReads \/ WorkerReadDone
    \/ WorkerAdvances \/ WorkerFails \/ WorkerEnds

\* Both threads are through.
Done == mpc = "done" /\ wpc = "end" /\ UNCHANGED allVars

AsyncNext ==
    \/ RootStep
    \/ WorkerStep
    \/ WorkerCancelled
    \/ Background
    \/ Done

AsyncSpec == AsyncInit /\ [][AsyncNext]_allVars

\* Every thread is scheduled; the root flow is not obliged to write first.
AsyncFairSpec ==
    /\ AsyncSpec
    /\ WF_allVars(RootReads \/ RootReadDone)
    /\ WF_allVars(RootDetaches) /\ WF_allVars(Spawn)
    /\ WF_allVars(WorkerStep)
    /\ \A c \in Caller : WF_allVars(NotifyAll(c) /\ UNCHANGED taskVars)
    /\ \A r \in Reader : WF_allVars(ReadProceeds(r) /\ UNCHANGED taskVars)

-----------------------------------------------------------------------------
(* Properties *)

\* Steps the worker has yet to finish that write to the pipe.
Remaining ==
    IF wpc = "end" THEN {} ELSE {i \in Produces(body) : i >= at.step}

\* The positions stay inside the body and the keeper's step is one of it.
AsyncTypeOK ==
    /\ TypeOK
    /\ body \in Bodies
    /\ mpc \in {"start", "early", "ready", "consume", "done"}
    /\ wpc \in {"unborn", "step", "write", "wrote", "refused", "read", "stepped",
                "failed", "last", "end"}
    /\ at.step \in 1..Len(body) + 1
    /\ expiry \in 0..Len(body)
    /\ out \in Writer /\ wasClosed \in BOOLEAN

\* A reader outside the task that reads to the end of the pipe gets all that
\* the task writes: it sees Ok(0) only when no step of the task will write
\* any more, however many gaps without a writer there were.  (A pipe that
\* had already ended when the task was spawned is not reopened by the pin.)
StreamIsComplete ==
    mpc = "consume" /\ got[Main] = "eof" /\ ~wasClosed => Remaining = {}

\* The keeper is held exactly while a writing step lies ahead, so that the
\* pipe can neither end early nor stay open after the last writing step.
KeeperWhileProducing ==
    wpc # "unborn" =>
        /\ (expiry # 0) = (hand[Pin] = "held")
        /\ (expiry # 0) = (Remaining # {})

\* The worker comes to its end: a step that reads the pipe after the last
\* step that writes to it sees Ok(0), because the keeper has expired.
WorkerTerminates == wpc = "step" ~> wpc = "end"

\* The outside reader comes to its end once the task was spawned.
RootTerminates == mpc = "consume" ~> mpc = "done"

\* Both flows come to their end: the keeper never leaves a reader waiting.
BothTerminate == WorkerTerminates /\ RootTerminates
=============================================================================

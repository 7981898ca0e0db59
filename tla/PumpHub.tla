------------------------------ MODULE PumpHub -------------------------------
(***************************************************************************)
(* The cancellation hub of a task (CancelHub, one per task) and the calls  *)
(* that wait on it:                                                        *)
(*   - a pump session (pump_session of the SSH plugin, pump_stream of the  *)
(*     network plugin): one detached worker per direction and a supervisor *)
(*     that drains completions and waits on the hub;                       *)
(*   - a guarded copy (pump_pipe_to_pipe): one blocking loop and a waiter  *)
(*     thread (CancelGuard) that turns a cancelled hub into the end of the *)
(*     source pipe;                                                        *)
(*   - a dequeue (dequeue_session): a consumer of the server's session     *)
(*     queue and a bridge thread that turns a cancelled hub into a wakeup  *)
(*     of the queue.                                                       *)
(* The waiter of a copy and the bridge of a dequeue run the same protocol  *)
(* and are one thread here, the guard.                                     *)
(*                                                                         *)
(* Mutex sections are one step.  The exception is the queue's wait_while,  *)
(* which evaluates its predicate and goes to sleep in two steps with the   *)
(* queue's mutex held, because the bridge notifies without that mutex.     *)
(* Payloads, results and the worker telemetry are left out.                *)
(***************************************************************************)
EXTENDS Naturals, Sequences, FiniteSets

CONSTANTS
    Task,       \* the tasks, each with its own thread, hub and token
    Scenarios   \* bound: the calls each task makes in order, the sessions that
                \* arrive at the queue and whether the server closes

Dir == {"in", "out"}

\* SSH server legs end when their input ends (break_on_peer_done), client
\* legs and sockets do not.
Session == {"server", "client", "net"}
Guarded == {"copy", "dequeue"}

VARIABLES
    token,     \* cancel_token of the task
    flag,      \* CancelHub.state
    seq,       \* CancelHub.sequence
    pc,        \* where the task's thread is
    kind,      \* the call it is in, or made last
    script,    \* the calls it has yet to make
    seen,      \* the sequence the supervisor waits past
    worker,    \* the two workers of the session
    late,      \* workers of earlier sessions that have sent and not poked
    sent,      \* completions in the supervisor's queue
    done,      \* completions it has drained
    peerDone,  \* the input worker ended well
    wakes,     \* the wake queue of the output worker
    stop,      \* the workers' copy of the cancellation, input pipe cancelled
    guard,     \* the guard thread of a copy or dequeue
    gseen,     \* the sequence the guard waits past
    source,    \* the copy's source pipe
    pending,   \* sessions in the queue
    arrivals,  \* sessions that will still arrive
    closes,    \* the server will close
    shutdown,  \* QueueState.shutdown
    qlock      \* the task, if any, that holds the queue's mutex across its sleep

hubVars == <<flag, seq>>
workVars == <<worker, late, sent, peerDone>>
supVars == <<seen, done, wakes, stop>>
guardVars == <<guard, gseen, source>>
queueVars == <<pending, arrivals, closes, shutdown, qlock>>
callVars == <<kind, script>>
vars == <<token, hubVars, pc, callVars, workVars, supVars, guardVars, queueVars>>

InSession(t) == pc[t] \in {"drain", "test", "wait", "parked"}
InCopy(t) == kind[t] = "copy" /\ pc[t] \in {"check", "read"}
InDequeue(t) == kind[t] = "dequeue" /\ pc[t] \in {"check", "pop", "queue", "asleep", "queued"}

Init ==
    /\ token = [t \in Task |-> FALSE]
    /\ flag = [t \in Task |-> FALSE] /\ seq = [t \in Task |-> 0]
    /\ pc = [t \in Task |-> "idle"]
    /\ kind = [t \in Task |-> "none"]
    /\ \E s \in Scenarios :
          script = s.calls /\ arrivals = s.arrivals /\ closes = s.closes
    /\ worker = [t \in Task |-> [d \in Dir |-> "none"]]
    /\ late = [t \in Task |-> 0]
    /\ sent = [t \in Task |-> {}] /\ peerDone = [t \in Task |-> FALSE]
    /\ seen = [t \in Task |-> 0] /\ done = [t \in Task |-> {}]
    /\ wakes = [t \in Task |-> 0] /\ stop = [t \in Task |-> FALSE]
    /\ guard = [t \in Task |-> "none"] /\ gseen = [t \in Task |-> 0]
    /\ source = [t \in Task |-> "open"]
    /\ pending = 0 /\ shutdown = FALSE /\ qlock = {}

-----------------------------------------------------------------------------
(* CancelHub *)

Cancelled(t) == flag[t] \/ token[t]

\* The predicate of CancelHub::wait.
Passed(t, past) == flag[t] \/ seq[t] # past

\* notify_all on the hub of t: the supervisor and the guard look again.
NotifyPc(t) == IF pc[t] = "parked" THEN "wait" ELSE pc[t]
NotifyGuard(t) == IF guard[t] = "parked" THEN "wait" ELSE guard[t]

\* CancelHub::poke.  The thread of the task goes to p.
Poke(t, p) ==
    /\ seq' = [seq EXCEPT ![t] = @ + 1]
    /\ pc' = [pc EXCEPT ![t] = p]
    /\ guard' = [guard EXCEPT ![t] = NotifyGuard(t)]
    /\ UNCHANGED flag

\* Whoever cancels a running task (ThreadJoinHandle::kill, the TIMEOUT
\* watcher) stores the token and then marks the hub.
StoreToken(t) ==
    /\ ~token[t] /\ (pc[t] # "idle" \/ script[t] # <<>>)
    /\ token' = [token EXCEPT ![t] = TRUE]
    /\ UNCHANGED <<hubVars, pc, callVars, workVars, supVars, guardVars, queueVars>>

MarkCancelled(t) ==
    /\ token[t] /\ ~flag[t]
    /\ flag' = [flag EXCEPT ![t] = TRUE]
    /\ seq' = [seq EXCEPT ![t] = @ + 1]
    /\ pc' = [pc EXCEPT ![t] = NotifyPc(t)]
    /\ guard' = [guard EXCEPT ![t] = NotifyGuard(t)]
    /\ UNCHANGED <<token, callVars, workVars, supVars, gseen, source, queueVars>>

-----------------------------------------------------------------------------
(* Starting a call.  The step loop starts no step once the token is set.   *)

MayCall(t, k) ==
    /\ pc[t] = "idle" /\ ~token[t]
    /\ script[t] # <<>> /\ k = Head(script[t])
    /\ script' = [script EXCEPT ![t] = Tail(@)]
    /\ kind' = [kind EXCEPT ![t] = k]

\* Both workers are spawned before the supervisor reads the sequence.
StartSession(t, k) ==
    /\ MayCall(t, k)
    /\ late' = [late EXCEPT ![t] = @ + Cardinality({d \in Dir : worker[t][d] = "poke"})]
    /\ worker' = [worker EXCEPT ![t] = [d \in Dir |-> "body"]]
    /\ sent' = [sent EXCEPT ![t] = {}] /\ done' = [done EXCEPT ![t] = {}]
    /\ peerDone' = [peerDone EXCEPT ![t] = FALSE]
    /\ wakes' = [wakes EXCEPT ![t] = 0] /\ stop' = [stop EXCEPT ![t] = FALSE]
    /\ pc' = [pc EXCEPT ![t] = "start"]
    /\ UNCHANGED <<token, hubVars, seen, guardVars, queueVars>>

StartGuarded(t, k) ==
    /\ MayCall(t, k)
    /\ guard' = [guard EXCEPT ![t] = "new"]
    /\ source' = [source EXCEPT ![t] = "open"]
    /\ pc' = [pc EXCEPT ![t] = "check"]
    /\ UNCHANGED <<token, hubVars, workVars, supVars, gseen, queueVars>>

-----------------------------------------------------------------------------
(* The supervisor of a session *)

ReadSequence(t) ==
    /\ pc[t] = "start"
    /\ seen' = [seen EXCEPT ![t] = seq[t]]
    /\ pc' = [pc EXCEPT ![t] = "drain"]
    /\ UNCHANGED <<token, hubVars, callVars, workVars, done, wakes, stop, guardVars, queueVars>>

\* try_iter: one completion at a time until the queue is empty.  A finished
\* input wakes the output worker of a server leg.
Drain(t) ==
    /\ pc[t] = "drain"
    /\ IF sent[t] = {}
       THEN /\ pc' = [pc EXCEPT ![t] = "test"]
            /\ UNCHANGED <<sent, done, wakes>>
       ELSE \E d \in sent[t] :
                /\ sent' = [sent EXCEPT ![t] = @ \ {d}]
                /\ done' = [done EXCEPT ![t] = @ \cup {d}]
                /\ wakes' = IF d = "in" /\ kind[t] = "server"
                            THEN [wakes EXCEPT ![t] = @ + 1] ELSE wakes
                /\ UNCHANGED pc
    /\ UNCHANGED <<token, hubVars, callVars, worker, late, peerDone, seen, stop, guardVars, queueVars>>

\* Mutant: a cancelled supervisor tears down and waits for its workers.
TestJoinsWorkers(t) ==
    /\ pc[t] = "test"
    /\ pc' = [pc EXCEPT ![t] = IF done[t] = Dir THEN "idle" ELSE "wait"]
    /\ stop' = [stop EXCEPT ![t] = done[t] # Dir /\ Cancelled(t)]
    /\ UNCHANGED <<token, hubVars, callVars, workVars, seen, done, wakes, guardVars, queueVars>>

\* Both ends reported, or cancelled: the supervisor tears down and returns
\* without waiting for its workers.  Otherwise it waits.
Test(t) ==
    /\ pc[t] = "test"
    /\ LET over == done[t] = Dir
       IN /\ pc' = [pc EXCEPT ![t] = IF over \/ Cancelled(t) THEN "idle" ELSE "wait"]
          /\ stop' = [stop EXCEPT ![t] = ~over /\ Cancelled(t)]
    /\ UNCHANGED <<token, hubVars, callVars, workVars, seen, done, wakes, guardVars, queueVars>>

HubWait(t) ==
    /\ pc[t] = "wait"
    /\ IF Passed(t, seen[t])
       THEN /\ seen' = [seen EXCEPT ![t] = seq[t]]
            /\ pc' = [pc EXCEPT ![t] = "drain"]
       ELSE /\ pc' = [pc EXCEPT ![t] = "parked"]
            /\ UNCHANGED seen
    /\ UNCHANGED <<token, hubVars, callVars, workVars, done, wakes, stop, guardVars, queueVars>>

-----------------------------------------------------------------------------
(* Workers (run_guarded) *)

EndBody(t, d) == worker' = [worker EXCEPT ![t][d] = "send"]

\* The input pipe ends, or fails: only a good end is published to the peer.
InputEnds(t, good) ==
    /\ worker[t]["in"] = "body"
    /\ EndBody(t, "in")
    /\ peerDone' = [peerDone EXCEPT ![t] = good]
    /\ UNCHANGED <<token, hubVars, pc, callVars, late, sent, supVars, guardVars, queueVars>>

\* The teardown cancelled the input pipe.
InputReleased(t) == stop[t] /\ InputEnds(t, TRUE)

OutputEnds(t) ==
    /\ worker[t]["out"] = "body"
    /\ EndBody(t, "out")
    /\ UNCHANGED <<token, hubVars, pc, callVars, late, sent, peerDone, supVars, guardVars, queueVars>>

\* The teardown woke the worker, closed its wake queue, or shut the socket.
OutputReleased(t) == stop[t] /\ OutputEnds(t)

\* A wake of the supervisor: the output worker of a server leg ends when its
\* peer is done, any other goes back to its wait.
OutputWoken(t) ==
    /\ worker[t]["out"] = "body" /\ wakes[t] > 0
    /\ wakes' = [wakes EXCEPT ![t] = @ - 1]
    /\ IF kind[t] = "server" /\ peerDone[t] THEN EndBody(t, "out") ELSE UNCHANGED worker
    /\ UNCHANGED <<token, hubVars, pc, callVars, late, sent, peerDone, seen, done, stop, guardVars, queueVars>>

\* Mutant: poke first, then send.
DeliverPokesFirst(t, d) ==
    /\ \/ /\ worker[t][d] = "send"
          /\ worker' = [worker EXCEPT ![t][d] = "poke"]
          /\ Poke(t, NotifyPc(t))
          /\ UNCHANGED sent
       \/ /\ worker[t][d] = "poke"
          /\ worker' = [worker EXCEPT ![t][d] = "none"]
          /\ sent' = [sent EXCEPT ![t] = @ \cup {d}]
          /\ UNCHANGED <<hubVars, pc, guard>>
    /\ UNCHANGED <<token, callVars, late, peerDone, supVars, gseen, source, queueVars>>

\* Send the completion, then poke the hub.
Deliver(t, d) ==
    /\ \/ /\ worker[t][d] = "send"
          /\ worker' = [worker EXCEPT ![t][d] = "poke"]
          /\ sent' = [sent EXCEPT ![t] = @ \cup {d}]
          /\ UNCHANGED <<hubVars, pc, guard>>
       \/ /\ worker[t][d] = "poke"
          /\ worker' = [worker EXCEPT ![t][d] = "none"]
          /\ Poke(t, NotifyPc(t))
          /\ UNCHANGED sent
    /\ UNCHANGED <<token, callVars, late, peerDone, supVars, gseen, source, queueVars>>

\* The poke of a worker whose session already returned.
LatePoke(t) ==
    /\ late[t] > 0
    /\ late' = [late EXCEPT ![t] = @ - 1]
    /\ Poke(t, NotifyPc(t))
    /\ UNCHANGED <<token, callVars, worker, sent, peerDone, supVars, gseen, source, queueVars>>

-----------------------------------------------------------------------------
(* The guard thread: CancelGuard's waiter, the bridge of a dequeue *)

\* Read the sequence, then tell the owner (the rendezvous).
GuardStarts(t) ==
    /\ guard[t] = "new"
    /\ gseen' = [gseen EXCEPT ![t] = seq[t]]
    /\ guard' = [guard EXCEPT ![t] = "wait"]
    /\ UNCHANGED <<token, hubVars, pc, callVars, workVars, supVars, source, queueVars>>

\* One wait.  A wake without cancellation ends the guard.
GuardWaits(t) ==
    /\ guard[t] = "wait"
    /\ guard' = [guard EXCEPT ![t] = CASE ~Passed(t, gseen[t]) -> "parked"
                                       [] Passed(t, gseen[t]) /\ flag[t] -> "fire"
                                       [] OTHER -> "gone"]
    /\ UNCHANGED <<token, hubVars, pc, callVars, workVars, supVars, gseen, source, queueVars>>

\* CancelGuard cancels the source pipe.  The bridge notifies every consumer
\* of the queue, without the queue's mutex.
GuardFires(t) ==
    /\ guard[t] = "fire"
    /\ guard' = [guard EXCEPT ![t] = "gone"]
    /\ IF kind[t] = "copy"
       THEN source' = [source EXCEPT ![t] = "cancelled"] /\ UNCHANGED pc
       ELSE /\ pc' = [u \in Task |-> IF pc[u] = "queued" THEN "queue" ELSE pc[u]]
            /\ UNCHANGED source
    /\ UNCHANGED <<token, hubVars, callVars, workVars, supVars, gseen, queueVars>>

\* Mutant: poke without the rendezvous.
ReleaseAtOnce(t) ==
    /\ pc[t] = "release"
    /\ Poke(t, "join")
    /\ UNCHANGED <<token, callVars, workVars, supVars, gseen, source, queueVars>>

\* Release the guard: rendezvous, poke, join.
Release(t) ==
    /\ pc[t] = "release" /\ guard[t] # "new"
    /\ Poke(t, "join")
    /\ UNCHANGED <<token, callVars, workVars, supVars, gseen, source, queueVars>>

\* Mutant: the guard thread is left to itself.
JoinDetaches(t) ==
    /\ pc[t] = "join"
    /\ pc' = [pc EXCEPT ![t] = "idle"]
    /\ UNCHANGED <<token, hubVars, callVars, workVars, supVars, guardVars, queueVars>>

Join(t) ==
    /\ pc[t] = "join" /\ guard[t] = "gone"
    /\ guard' = [guard EXCEPT ![t] = "none"]
    /\ pc' = [pc EXCEPT ![t] = "idle"]
    /\ UNCHANGED <<token, hubVars, callVars, workVars, supVars, gseen, source, queueVars>>

-----------------------------------------------------------------------------
(* A guarded copy and a dequeue *)

Goto(t, p) ==
    /\ pc' = [pc EXCEPT ![t] = p]
    /\ UNCHANGED <<token, hubVars, callVars, workVars, supVars, guardVars>>

Check(t) ==
    /\ pc[t] = "check"
    /\ Goto(t, CASE Cancelled(t) -> "release"
                 [] ~Cancelled(t) /\ kind[t] = "copy" -> "read"
                 [] OTHER -> "pop")
    /\ UNCHANGED queueVars

\* A chunk was read and written.
ReadChunk(t) == pc[t] = "read" /\ Goto(t, "check") /\ UNCHANGED queueVars

\* The read or the write failed: the error drops the guard on its way out.
CopyFails(t) == pc[t] = "read" /\ Goto(t, "release") /\ UNCHANGED queueVars

ReadEnd(t) ==
    /\ pc[t] = "read" /\ source[t] # "open"
    /\ Goto(t, "release")
    /\ UNCHANGED queueVars

\* The writers of the source pipe are gone.
SourceEnds(t) ==
    /\ InCopy(t) /\ source[t] = "open"
    /\ source' = [source EXCEPT ![t] = "eof"]
    /\ UNCHANGED <<token, hubVars, pc, callVars, workVars, supVars, guard, gseen, queueVars>>

\* Take the first session, or leave with the reason.
PopOr(t, other) ==
    IF pending > 0
    THEN /\ pending' = pending - 1
         /\ Goto(t, "release")
    ELSE /\ Goto(t, other)
         /\ UNCHANGED pending

TryPop(t) ==
    /\ pc[t] = "pop" /\ qlock = {}
    /\ PopOr(t, IF shutdown THEN "release" ELSE "queue")
    /\ UNCHANGED <<arrivals, closes, shutdown, qlock>>

\* Mutant: a cancelled consumer leaves before it looks for a session.
WaitBlockingCancelledFirst(t) ==
    /\ pc[t] = "queue" /\ qlock = {}
    /\ IF pending = 0 /\ ~shutdown /\ ~flag[t]
       THEN qlock' = {t} /\ Goto(t, "asleep") /\ UNCHANGED pending
       ELSE /\ IF flag[t] THEN Goto(t, "check") /\ UNCHANGED pending ELSE PopOr(t, "release")
            /\ UNCHANGED qlock
    /\ UNCHANGED <<arrivals, closes, shutdown>>

\* wait_blocking under the queue's mutex: sleep while there is no session, no
\* shutdown and no cancellation.
WaitBlocking(t) ==
    /\ pc[t] = "queue" /\ qlock = {}
    /\ IF pending = 0 /\ ~shutdown /\ ~flag[t]
       THEN qlock' = {t} /\ Goto(t, "asleep") /\ UNCHANGED pending
       ELSE PopOr(t, IF flag[t] THEN "check" ELSE "release") /\ UNCHANGED qlock
    /\ UNCHANGED <<arrivals, closes, shutdown>>

\* The condition variable registers the sleeper and frees the mutex.
Sleep(t) ==
    /\ pc[t] = "asleep"
    /\ qlock' = {}
    /\ Goto(t, "queued")
    /\ UNCHANGED <<pending, arrivals, closes, shutdown>>

-----------------------------------------------------------------------------
(* The server side of the queue *)

Sleepers == {t \in Task : pc[t] = "queued"}

\* push after shutdown does nothing; otherwise it wakes one consumer.
Push ==
    /\ arrivals > 0 /\ ~shutdown /\ qlock = {}
    /\ arrivals' = arrivals - 1 /\ pending' = pending + 1
    /\ IF Sleepers = {} THEN UNCHANGED pc
       ELSE \E t \in Sleepers : pc' = [pc EXCEPT ![t] = "queue"]
    /\ UNCHANGED <<token, hubVars, callVars, workVars, supVars, guardVars, closes, shutdown, qlock>>

SignalShutdown ==
    /\ closes /\ ~shutdown /\ qlock = {}
    /\ shutdown' = TRUE
    /\ pc' = [t \in Task |-> IF pc[t] = "queued" THEN "queue" ELSE pc[t]]
    /\ UNCHANGED <<token, hubVars, callVars, workVars, supVars, guardVars, pending, arrivals, closes, qlock>>

-----------------------------------------------------------------------------
\* The task's own thread, once in a call.
ThreadStep(t) ==
    \/ ReadSequence(t) \/ Drain(t) \/ Test(t) \/ HubWait(t)
    \/ Release(t) \/ Join(t)
    \/ Check(t) \/ ReadEnd(t) \/ TryPop(t) \/ WaitBlocking(t) \/ Sleep(t)

GuardStep(t) == GuardStarts(t) \/ GuardWaits(t) \/ GuardFires(t)

Released(t) == InputReleased(t) \/ OutputReleased(t) \/ OutputWoken(t)

\* What peers, pipes and callers do, with no promise that they do it.
Environment(t) ==
    \/ StoreToken(t)
    \/ (\E k \in Session : StartSession(t, k)) \/ (\E k \in Guarded : StartGuarded(t, k))
    \/ \E good \in BOOLEAN : InputEnds(t, good)
    \/ OutputEnds(t) \/ ReadChunk(t) \/ CopyFails(t) \/ SourceEnds(t)

Next ==
    \/ \E t \in Task :
          \/ Environment(t)
          \/ MarkCancelled(t) \/ ThreadStep(t) \/ GuardStep(t) \/ Released(t) \/ LatePoke(t)
          \/ \E d \in Dir : Deliver(t, d)
    \/ Push \/ SignalShutdown

Spec == Init /\ [][Next]_vars

\* Threads of the program run.  The environment may stop, and a worker may
\* stay in its read although the teardown asked it to leave.
FairSpec ==
    /\ Spec
    /\ \A t \in Task :
          /\ WF_vars(MarkCancelled(t)) /\ WF_vars(ThreadStep(t)) /\ WF_vars(GuardStep(t))
          /\ WF_vars(OutputWoken(t)) /\ WF_vars(LatePoke(t))
          /\ \A d \in Dir : WF_vars(Deliver(t, d))

-----------------------------------------------------------------------------
(* Safety *)

\* pump.rs: queue the message first, then poke, and no wakeup is ever lost.  A
\* supervisor sleeps on a completion it has not drained only while the worker
\* that sent it is about to poke, and never on a cancelled hub.
NoStrandedCompletion ==
    \A t \in Task : pc[t] = "parked" =>
        /\ \A d \in sent[t] : worker[t][d] = "poke"
        /\ ~flag[t]

\* wait_blocking and push: while a consumer sleeps, every queued session has a
\* consumer that is awake and on its way to it.
NoStrandedSession ==
    Sleepers # {} => pending =< Cardinality({t \in Task : pc[t] = "queue"})

\* A call that returns leaves no guard thread behind.
NoGuardOutlivesCall ==
    \A t \in Task : pc[t] \in {"idle", "start"} \/ InSession(t) => guard[t] = "none"

\* No thread waits on a hub or a queue for something that has already happened,
\* and the guard of a call is gone when the call is.
NothingStranded == NoStrandedCompletion /\ NoStrandedSession /\ NoGuardOutlivesCall

-----------------------------------------------------------------------------
(* Liveness *)

\* What ends a supervised call: its task is cancelled; the input of a server
\* session ended well (break_on_peer_done), although its wire stays silent; the
\* server of a dequeue closes; the guard of a call is released.
CalledOff(t) ==
    \/ InSession(t) /\ (flag[t] \/ (kind[t] = "server" /\ peerDone[t]))
    \/ InDequeue(t) /\ shutdown
    \/ pc[t] = "release"

\* bridge.rs, pump.rs: a call that is called off returns, whatever its workers
\* are blocked in; no wakeup, poke or release is lost on the way.
CallsEnd == \A t \in Task : CalledOff(t) ~> pc[t] = "idle"

-----------------------------------------------------------------------------
(* What comments and documents say *)

\* pump.rs on CancelGuard: "Arms a waiter that cancels each pipe when the hub
\* fires".  A cancelled copy ends.
CancelEndsCopy ==
    \A t \in Task : (flag[t] /\ InCopy(t)) ~> ~InCopy(t)

\* funcs.rs on dequeue_session: "on hub fire the bridge pokes the queue awake
\* and the waiter ends with `Cancelled`".
CancelEndsDequeue ==
    \A t \in Task : (flag[t] /\ InDequeue(t)) ~> ~InDequeue(t)

=============================================================================

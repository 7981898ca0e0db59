----------------------------- MODULE McpServer -----------------------------
(***************************************************************************)
(* The MCP host (crates/oxdock-mcp/src/server.rs, lib.rs): requests are    *)
(* handled on one reactor thread, tool calls and their stream forwarders   *)
(* on blocking threads, all sharing the live session behind one mutex, and *)
(* a watcher on the reactor swaps the session when the script changes.     *)
(*                                                                         *)
(* A handler that meets a locked mutex blocks the reactor: nothing else,   *)
(* the delivery of notifications included, happens until it gets the lock. *)
(***************************************************************************)
EXTENDS Naturals, Sequences, FiniteSets

CONSTANTS
    Requests,   \* requests of the client, each served once
    Kind,       \* request -> "list", "status" or "call"
    Scenarios,  \* bounds: records of the requests made, the edits of the file
                \* and the writes of one call's script and its ASYNC tasks
    Broken,     \* the versions of the script that do not build
    EarlyEdits, \* may the file change before the watcher has read it?
    Capacity,   \* of the stream channel, in chunks
    StageCap,   \* COALESCE_CAP, in chunks
    Absent

VARIABLES
    file,    \* the version of the script on disk
    inner,   \* HandlerInner: session, tool table, status, poison flag
    lock,    \* who holds the mutex
    reactor, \* the handler the reactor thread is blocked in, if any
    req,     \* the requests
    fwd,     \* the stream of each call: channel, forwarder, notifications
    watch,   \* the reload task
    limit    \* the scenario, constant

serverVars == <<file, inner, lock, reactor, req, fwd, watch, limit>>

Reload == "reload"
Calls == {r \in Requests : Kind[r] = "call"}
Streams == {"out", "err"}

ServerInit ==
    /\ file = 0
    /\ inner = [session |-> 0, tools |-> 0, generation |-> 1, hash |-> 0, ok |-> TRUE,
                poisoned |-> FALSE]
    /\ lock = Absent /\ reactor = Absent
    /\ req = [r \in Requests |-> [pc |-> "new", answer |-> Absent, ran |-> Absent,
                                  status |-> Absent, since |-> 0, until |-> 0]]
    /\ fwd = [r \in Calls |->
                [pc |-> "off", chan |-> <<>>, out |-> <<>>, err |-> <<>>, ready |-> <<>>,
                 sent |-> <<>>, done |-> FALSE, senders |-> 0, accepted |-> <<>>,
                 dropped |-> 0, atEnd |-> 0]]
    /\ watch = [pc |-> "seed", last |-> Absent, text |-> Absent]
    /\ limit \in Scenarios

\* Arrivals and answers so far, which order the requests.
Clock == Cardinality({r \in Requests : req[r].pc # "new"})
         + Cardinality({r \in Requests : req[r].pc = "answered"})

Answered(r, a, fields) ==
    [fields EXCEPT !.pc = "answered", !.answer = a, !.until = Clock]

-----------------------------------------------------------------------------
(* Requests on the reactor *)

\* `call_tool', `list_tools': the handler starts and takes the mutex, or
\* blocks the reactor until it can.
Arrive(r) ==
    /\ reactor = Absent /\ req[r].pc = "new" /\ r \in limit.requests
    /\ req' = [req EXCEPT ![r].pc = "lookup", ![r].since = Clock]
    /\ reactor' = r
    /\ UNCHANGED <<file, inner, lock, fwd, watch, limit>>

\* `list_tools' and `status_payload' under the mutex.
Report(r) ==
    /\ reactor = r /\ req[r].pc = "lookup" /\ Kind[r] # "call"
    /\ lock = Absent
    /\ req' = [req EXCEPT ![r] =
                 Answered(r, IF inner.poisoned THEN "error" ELSE "ok",
                          [@ EXCEPT !.status = [generation |-> inner.generation,
                                                hash |-> inner.hash]])]
    /\ reactor' = Absent
    /\ UNCHANGED <<file, inner, lock, fwd, watch, limit>>

\* `find' and `map_json_args' refuse, or the call and its forwarder start.
Find(r) ==
    /\ reactor = r /\ req[r].pc = "lookup" /\ Kind[r] = "call"
    /\ lock = Absent
    /\ reactor' = Absent
    /\ \/ /\ ~inner.poisoned
          /\ req' = [req EXCEPT ![r].pc = "spawned"]
          /\ fwd' = [fwd EXCEPT ![r].pc = "run", ![r].senders = 1]
       \/ req' = [req EXCEPT ![r] = Answered(r, "error", @)] /\ UNCHANGED fwd
    /\ UNCHANGED <<file, inner, lock, watch, limit>>

-----------------------------------------------------------------------------
(* The call on its blocking thread *)

LockSession(r) ==
    /\ req[r].pc = "spawned" /\ lock = Absent
    /\ IF inner.poisoned
       THEN /\ req' = [req EXCEPT ![r].pc = "failed"]
            /\ fwd' = [fwd EXCEPT ![r].senders = 0]
            /\ UNCHANGED lock
       ELSE /\ req' = [req EXCEPT ![r].pc = "running", ![r].ran = inner.session]
            /\ lock' = r
            /\ UNCHANGED fwd
    /\ UNCHANGED <<file, inner, reactor, watch, limit>>

\* `TeeWriter': a write is offered to the channel, and counted if it is full
\* or its receiver is gone.
TrySend(r, kind) ==
    LET f == fwd[r]
        chunk == <<kind, Len(f.accepted) + f.dropped>>
    IN  IF f.pc = "end" \/ Len(f.chan) = Capacity
        THEN [f EXCEPT !.dropped = @ + 1]
        ELSE [f EXCEPT !.chan = Append(@, chunk), !.accepted = Append(@, chunk)]

\* The script, or an ASYNC task it left behind, writes.
Write(r) ==
    /\ fwd[r].senders > 0
    /\ req[r].pc \notin {"new", "lookup", "spawned"}
    /\ Len(fwd[r].accepted) + fwd[r].dropped < limit.chunks
    /\ \E kind \in Streams : fwd' = [fwd EXCEPT ![r] = TrySend(r, kind)]
    /\ UNCHANGED <<file, inner, lock, reactor, req, watch, limit>>

\* The call returns: the hook is cleared, the forwarder told to stop and the
\* mutex released.  A detached task keeps its sender.
ToolReturns(r) ==
    /\ req[r].pc = "running" /\ lock = r
    /\ lock' = Absent
    /\ \E ok \in BOOLEAN, detached \in {0, 1} :
          /\ req' = [req EXCEPT ![r].pc = IF ok THEN "returned" ELSE "failed"]
          /\ fwd' = [fwd EXCEPT ![r].done = TRUE, ![r].senders = detached,
                                ![r].atEnd = Len(fwd[r].accepted)]
    /\ UNCHANGED <<file, inner, reactor, watch, limit>>

\* A panic under the mutex poisons it; the hook stays in the session.
ToolPanics(r) ==
    /\ req[r].pc = "running" /\ lock = r
    /\ lock' = Absent
    /\ inner' = [inner EXCEPT !.poisoned = TRUE]
    /\ req' = [req EXCEPT ![r].pc = "failed"]
    /\ UNCHANGED <<file, reactor, fwd, watch, limit>>

DetachedEnds(r) ==
    /\ req[r].pc \in {"returned", "failed", "answered"}
    /\ fwd[r].done /\ fwd[r].senders > 0
    /\ fwd' = [fwd EXCEPT ![r].senders = 0]
    /\ UNCHANGED <<file, inner, lock, reactor, req, watch, limit>>

\* Back on the reactor: an error is answered at once, a value after the
\* forwarder has ended.
AnswerCall(r) ==
    /\ reactor = Absent
    /\ \/ req[r].pc = "failed" /\ req' = [req EXCEPT ![r] = Answered(r, "error", @)]
       \/ /\ req[r].pc = "returned" /\ fwd[r].pc = "end"
          /\ req' = [req EXCEPT ![r] = Answered(r, "ok", @)]
    /\ UNCHANGED <<file, inner, lock, reactor, fwd, watch, limit>>

-----------------------------------------------------------------------------
(* The forwarder *)

Batch(stage) == IF stage = <<>> THEN <<>> ELSE <<stage>>

\* `Coalescer::push': a switch flushes the other stream's stage, a full stage
\* is flushed before it is extended.
PushKeepsOther(f, chunk) ==
    LET own == f[chunk[1]]
        full == Len(own) + 1 > StageCap
    IN  [f EXCEPT !.ready = @ \o (IF full THEN Batch(own) ELSE <<>>),
                  ![chunk[1]] = IF full THEN <<chunk>> ELSE Append(@, chunk)]
Push(f, chunk) ==
    LET kind == chunk[1]
        other == IF kind = "out" THEN "err" ELSE "out"
        full == Len(f[kind]) + 1 > StageCap
    IN  [f EXCEPT !.ready = @ \o Batch(f[other]) \o (IF full THEN Batch(f[kind]) ELSE <<>>),
                  ![other] = <<>>,
                  ![kind] = IF full THEN <<chunk>> ELSE Append(@, chunk)]

\* `Coalescer::flush'
Flush(f) ==
    [f EXCEPT !.ready = @ \o Batch(f.out) \o Batch(f.err), !.out = <<>>, !.err = <<>>]

\* `recv_timeout' yields a chunk, times out, or finds every sender gone.
Receive(r) ==
    /\ fwd[r].pc = "run" /\ fwd[r].ready = <<>> /\ ~fwd[r].done
    /\ \/ /\ fwd[r].chan # <<>>
          /\ fwd' = [fwd EXCEPT ![r] = [Push(fwd[r], Head(fwd[r].chan))
                                          EXCEPT !.chan = Tail(@)]]
       \/ /\ fwd[r].chan = <<>> /\ fwd[r].senders > 0
          /\ fwd[r].out \o fwd[r].err # <<>>
          /\ fwd' = [fwd EXCEPT ![r] = Flush(fwd[r])]
       \/ /\ fwd[r].chan = <<>> /\ fwd[r].senders = 0
          /\ fwd' = [fwd EXCEPT ![r] = [Flush(fwd[r]) EXCEPT !.pc = "last"]]
    /\ UNCHANGED <<file, inner, lock, reactor, req, watch, limit>>

\* The call is done: what is queued is received, chunk by chunk, until the
\* channel is found empty; then the stages are flushed and the loop left.
DrainNothing(r) ==
    /\ fwd[r].pc = "run" /\ fwd[r].ready = <<>> /\ fwd[r].done
    /\ fwd' = [fwd EXCEPT ![r] = [Flush(fwd[r]) EXCEPT !.pc = "last"]]
    /\ UNCHANGED <<file, inner, lock, reactor, req, watch, limit>>
DrainWhenAlone(r) ==
    /\ fwd[r].pc = "run" /\ fwd[r].ready = <<>> /\ fwd[r].done
    /\ \/ /\ fwd[r].chan # <<>>
          /\ fwd' = [fwd EXCEPT ![r] = [Push(fwd[r], Head(fwd[r].chan))
                                          EXCEPT !.chan = Tail(@)]]
       \/ /\ fwd[r].chan = <<>> /\ fwd[r].senders = 0
          /\ fwd' = [fwd EXCEPT ![r] = [Flush(fwd[r]) EXCEPT !.pc = "last"]]
    /\ UNCHANGED <<file, inner, lock, reactor, req, watch, limit>>
Drain(r) ==
    /\ fwd[r].pc = "run" /\ fwd[r].ready = <<>> /\ fwd[r].done
    /\ \/ /\ fwd[r].chan # <<>>
          /\ fwd' = [fwd EXCEPT ![r] = [Push(fwd[r], Head(fwd[r].chan))
                                          EXCEPT !.chan = Tail(@)]]
       \/ /\ fwd[r].chan = <<>>
          /\ fwd' = [fwd EXCEPT ![r] = [Flush(fwd[r]) EXCEPT !.pc = "last"]]
    /\ UNCHANGED <<file, inner, lock, reactor, req, watch, limit>>

\* `block_on(send_notification)' needs the reactor to write it.
Emit(r) ==
    /\ fwd[r].ready # <<>> /\ reactor = Absent
    /\ fwd' = [fwd EXCEPT ![r].ready = Tail(@), ![r].sent = Append(@, Head(fwd[r].ready))]
    /\ UNCHANGED <<file, inner, lock, reactor, req, watch, limit>>

ForwarderEnds(r) ==
    /\ fwd[r].pc = "last" /\ fwd[r].ready = <<>>
    /\ fwd' = [fwd EXCEPT ![r].pc = "end"]
    /\ UNCHANGED <<file, inner, lock, reactor, req, watch, limit>>

-----------------------------------------------------------------------------
(* Hot reload *)

Edit ==
    /\ file < limit.edits
    /\ EarlyEdits \/ watch.pc # "seed"
    /\ file' = file + 1
    /\ UNCHANGED <<inner, lock, reactor, req, fwd, watch, limit>>

\* `spawn_reloader' reads the text it takes to be the live one.
SeedStamp ==
    /\ reactor = Absent /\ watch.pc = "seed"
    /\ watch' = [watch EXCEPT !.pc = "idle", !.last = file]
    /\ UNCHANGED <<file, inner, lock, reactor, req, fwd, limit>>

\* A tick reads the script; a changed text is built on the reactor.
PollWhileOk ==
    /\ reactor = Absent /\ watch.pc = "idle" /\ file # watch.last /\ inner.ok
    /\ watch' = [pc |-> "reload", last |-> file, text |-> file]
    /\ reactor' = Reload
    /\ UNCHANGED <<file, inner, lock, req, fwd, limit>>
Poll ==
    /\ reactor = Absent /\ watch.pc = "idle" /\ file # watch.last
    /\ watch' = [pc |-> "reload", last |-> file, text |-> file]
    /\ reactor' = Reload
    /\ UNCHANGED <<file, inner, lock, req, fwd, limit>>

\* `build_inner': parse, run the script once, derive the table of its exports.
Builds(text) == text \notin Broken

\* `reload': a build that fails leaves the session, a good one replaces it
\* and its tools under the mutex.
SwapUncounted ==
    /\ reactor = Reload
    /\ lock = Absent
    /\ inner' = IF inner.poisoned THEN inner
                ELSE IF ~Builds(watch.text) THEN [inner EXCEPT !.ok = FALSE]
                ELSE [inner EXCEPT !.session = watch.text, !.tools = watch.text,
                                   !.hash = watch.text, !.ok = TRUE]
    /\ watch' = [watch EXCEPT !.pc = "idle"]
    /\ reactor' = Absent
    /\ UNCHANGED <<file, lock, req, fwd, limit>>
Swap ==
    /\ reactor = Reload
    /\ lock = Absent
    /\ inner' = IF inner.poisoned THEN inner
                ELSE IF ~Builds(watch.text) THEN [inner EXCEPT !.ok = FALSE]
                ELSE [inner EXCEPT !.session = watch.text, !.tools = watch.text,
                                   !.generation = @ + 1, !.hash = watch.text, !.ok = TRUE]
    /\ watch' = [watch EXCEPT !.pc = "idle"]
    /\ reactor' = Absent
    /\ UNCHANGED <<file, lock, req, fwd, limit>>

-----------------------------------------------------------------------------

Serve(r) ==
    \/ Arrive(r) \/ Report(r) \/ Find(r)
    \/ r \in Calls /\ (LockSession(r) \/ ToolReturns(r) \/ ToolPanics(r) \/ AnswerCall(r))

Forward(r) == Receive(r) \/ Drain(r) \/ Emit(r) \/ ForwarderEnds(r)

Watcher == SeedStamp \/ Poll \/ Swap

Idle ==
    /\ \A r \in limit.requests : req[r].pc = "answered"
    /\ UNCHANGED serverVars

ServerNext ==
    \/ \E r \in Requests : Serve(r)
    \/ \E r \in Calls : Forward(r) \/ Write(r) \/ DetachedEnds(r)
    \/ Watcher \/ Edit \/ Idle

\* Handlers, blocking threads and the ticker are scheduled and a tool's script
\* ends; the client, an editor and detached tasks owe nothing.
ServerFairness ==
    /\ \A r \in Requests : WF_serverVars(Report(r) \/ Find(r))
    /\ \A r \in Calls : /\ WF_serverVars(LockSession(r)) /\ WF_serverVars(ToolReturns(r))
                        /\ WF_serverVars(AnswerCall(r)) /\ WF_serverVars(Forward(r))
    /\ WF_serverVars(Watcher)

ServerSpec == ServerInit /\ [][ServerNext]_serverVars /\ ServerFairness

-----------------------------------------------------------------------------
(* Properties *)

\* The writes in a sequence of batches.
Flat(batches) ==
    LET flat[i \in 0..Len(batches)] == IF i = 0 THEN <<>> ELSE flat[i - 1] \o batches[i]
    IN  flat[Len(batches)]

\* The mutex holder is a call on its blocking thread, a blocked reactor
\* belongs to a handler that waits for it, and a stage never overflows.
ServerTypeOK ==
    /\ lock # Absent => lock \in Calls /\ req[lock].pc = "running"
    /\ reactor \in {Absent, Reload} \cup {r \in Requests : req[r].pc = "lookup"}
    /\ \A r \in Calls :
          /\ Len(fwd[r].chan) <= Capacity
          /\ \A i \in 1..Len(fwd[r].sent) : Len(fwd[r].sent[i]) \in 1..StageCap

\* "Same bytes, fewer envelopes": at every moment the notifications sent, the
\* batches, the stages and the channel are together exactly the writes the
\* channel accepted, in the order they were made, whatever the interleaving
\* of the two streams (`Coalescer', `run_forwarder').
NothingLostOrReordered ==
    \A r \in Calls :
        LET f == fwd[r]
        IN  Flat(f.sent) \o Flat(f.ready) \o f.out \o f.err \o f.chan = f.accepted

\* "join so every streamed byte precedes the final result" (server.rs:481):
\* when a value is answered, every accepted write of the call has been sent.
StreamPrecedesResult ==
    \A r \in Calls : req[r].answer = "ok" =>
        LET sent == Flat(fwd[r].sent)
        IN  /\ fwd[r].atEnd <= Len(sent)
            /\ SubSeq(sent, 1, fwd[r].atEnd) = SubSeq(fwd[r].accepted, 1, fwd[r].atEnd)

\* What a tool call writes reaches its client whole, in order and before the
\* result of the call.
CallStreamIntact == NothingLostOrReordered /\ StreamPrecedesResult

\* "compare it across calls to detect tools changing underneath you"
\* (MCP_STATUS): a call between two status probes that report the same
\* generation ran the script that both name.
GenerationDetectsSwap ==
    \A s1, s2 \in Requests \ Calls, c \in Calls :
        /\ req[s1].answer = "ok" /\ req[s2].answer = "ok" /\ req[c].ran # Absent
        /\ req[s1].until < req[c].since
        /\ req[c].pc = "answered" /\ req[c].until < req[s2].since
        /\ req[s1].status.generation = req[s2].status.generation
        => req[s1].status.hash = req[c].ran /\ req[s2].status.hash = req[c].ran

\* Every request that arrived is answered, although handlers block the only
\* reactor thread on the mutex of a running call, and although a detached
\* task keeps its sender forever.
EveryRequestAnswered ==
    \A r \in Requests : req[r].pc # "new" ~> req[r].pc = "answered"

\* "only a good edit swaps": the script that is served follows the file, once
\* the file is left alone with a text that builds.
EditIsServed ==
    []<>(file \in Broken \/ inner.poisoned \/ inner.session = file)
=============================================================================

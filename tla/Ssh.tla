-------------------------------- MODULE Ssh ---------------------------------
(***************************************************************************)
(* One SSH session from end to end.  A client (SSH_EXEC, or SSH_CONNECT    *)
(* with its own pump) talks over a connection to the server's handler; the *)
(* server script dequeues the session, pumps it with SSH_PUMP_CHANNEL and  *)
(* runs a child for it with SSH_RUN, the child's stdout being the pump's   *)
(* input pipe and the pump's output pipe the child's stdin.  The handler   *)
(* and the pump are joined by two bounded queues, the pump and the run by  *)
(* two unbounded pipes.                                                    *)
(*                                                                         *)
(* A direction of the connection and the client's own queue behind it are  *)
(* one first-in first-out link.  How a supervisor waits on its hub, and    *)
(* how a session is dequeued, are PumpHub's.  russh is external: a handler *)
(* that returns an error ends its connection.                              *)
(***************************************************************************)
EXTENDS Naturals, Sequences

CONSTANTS
    Setups,    \* the client, the child and what goes wrong
    Capacity,  \* CHANNEL_CAPACITY, in messages
    LinkCap    \* bound: messages the connection holds in one direction

Stream == {"out", "err"}
NoCode == 0 - 1   \* killed by a signal, or no status received

VARIABLES
    setup,
    cli,    \* the client call
    c2s,    \* the connection, client to server
    s2c,    \* the connection, server to client
    conn,   \* "up" or "dead"
    up,     \* handler to pump: queue, sender alive, receiver alive
    down,   \* pump to wire writer: queue, senders alive, receiver alive
    wire,   \* the wire-writer task
    pump,   \* SSH_PUMP_CHANNEL: two workers and a supervisor
    inp,    \* the pipe from the run to the pump
    outp,   \* the pipe from the pump to the run
    child,  \* the child of SSH_RUN
    run     \* SSH_RUN: three workers, a reaper and a supervisor

server == <<up, down, wire, pump>>
leg == <<inp, outp, child, run>>
link == <<c2s, s2c, conn>>
vars == <<setup, cli, c2s, s2c, conn, up, down, wire, pump, inp, outp, child, run>>

Data(n) == [k |-> "data", v |-> n]
Status(n) == [k |-> "status", v |-> n]
Eof == [k |-> "eof", v |-> 0]
Close == [k |-> "close", v |-> 0]
Gone == [k |-> "gone", v |-> 0]
Exec == setup.client = "exec"

----------------------------------------------------------------------------
(* The server's handler and session *)

\* auth_password.
Authenticate ==
    /\ cli.pc = "auth"
    /\ cli' = [cli EXCEPT !.pc = IF setup.password THEN "request" ELSE "failed"]
    /\ UNCHANGED <<setup, link, server, leg>>

\* channel_open_session makes the two queues; the shell or exec request
\* announces the channel: its wire writer starts and the session is queued.
Announce ==
    /\ cli.pc = "request"
    /\ cli' = [cli EXCEPT !.pc = "run"]
    /\ wire' = "run"
    /\ UNCHANGED <<setup, link, up, down, pump, leg>>

\* SSH_DEQUEUE builds the session value, with a second, control sender; the
\* script starts the pump, which takes the ends, and the run.
Dequeue ==
    /\ wire = "run" /\ pump.state = "off"
    /\ down' = [down EXCEPT !.senders = {"frame", "worker", "control"}]
    /\ pump' = [pump EXCEPT !.state = "run", !.in = "run", !.out = "run"]
    /\ run' = [run EXCEPT !.state = "run", !.in = "run", !.outs = [s \in Stream |-> "run"]]
    /\ child' = [child EXCEPT !.alive = TRUE]
    /\ UNCHANGED <<setup, cli, link, up, wire, inp, outp>>

\* The handler takes one message.  Data waits for room in the pump's queue and
\* is an error when the pump has gone; an end of file then closes the channel.
\* A connection that fails loses what it had not sent yet.
HandlerTakes ==
    /\ conn = "up" /\ c2s # <<>>
    /\ c2s' = Tail(c2s)
    /\ LET m == Head(c2s)
       IN  CASE m.k \in {"data", "eof"} /\ up.rx ->
                  /\ Len(up.q) < Capacity
                  /\ up' = [up EXCEPT !.q = Append(@, m)]
                  /\ UNCHANGED <<s2c, conn>>
             [] m.k = "data" /\ ~up.rx ->
                  /\ conn' = "dead"
                  /\ up' = [up EXCEPT !.tx = FALSE]
                  /\ \E n \in 0..Len(s2c) : s2c' = SubSeq(s2c, 1, n)
             [] m.k = "eof" /\ ~up.rx ->
                  /\ s2c' = Append(s2c, Close)
                  /\ up' = [up EXCEPT !.tx = FALSE]
                  /\ conn' = conn
             [] m.k = "close" ->
                  up' = [up EXCEPT !.tx = FALSE] /\ UNCHANGED <<s2c, conn>>
             [] m.k = "gone" ->
                  up' = [up EXCEPT !.tx = FALSE] /\ conn' = "dead" /\ UNCHANGED s2c
    /\ UNCHANGED <<setup, cli, down, wire, pump, leg>>

\* drive_wire forwards one message, and closes the channel when every sender
\* has gone and the queue is drained.  A failed send ends it.
WireWrites ==
    /\ wire = "run" /\ down.q # <<>> /\ conn = "up" /\ Len(s2c) < LinkCap
    /\ s2c' = Append(s2c, Head(down.q))
    /\ down' = [down EXCEPT !.q = Tail(@)]
    /\ UNCHANGED <<setup, cli, c2s, conn, up, wire, pump, leg>>

WireEnds ==
    /\ wire = "run" /\ pump.state # "off"
    /\ \/ conn = "dead" /\ down.q # <<>>
       \/ down.senders = {} /\ down.q = <<>>
    /\ wire' = "done"
    /\ down' = [down EXCEPT !.rx = FALSE, !.q = <<>>]
    /\ s2c' = IF conn = "up" THEN Append(s2c, Close) ELSE s2c
    /\ UNCHANGED <<setup, cli, c2s, conn, up, pump, leg>>

\* SshSessionTag::send_exit_status: refused once the pump has released the
\* control sender, when the writer has gone, and when the queue is full.
SendExitStatus(code) ==
    IF "control" \in down.senders /\ down.rx /\ Len(down.q) < Capacity
    THEN down' = [down EXCEPT !.q = Append(@, Status(code))]
    ELSE down' = down

----------------------------------------------------------------------------
(* SSH_PUMP_CHANNEL *)

\* pump_in moves a chunk, or ends with the pipe and says so on the wire.  A
\* send waits for room, and ends the worker when the writer has gone.
PumpInMoves ==
    /\ pump.in = "run" /\ ~pump.cancel /\ inp.data # <<>> /\ ~inp.cancelled
    /\ inp' = [inp EXCEPT !.data = Tail(@)]
    /\ IF down.rx
       THEN /\ Len(down.q) < Capacity
            /\ down' = [down EXCEPT !.q = Append(@, Head(inp.data))]
            /\ pump' = pump
       ELSE /\ down' = [down EXCEPT !.senders = @ \ {"worker"}]
            /\ pump' = [pump EXCEPT !.in = "done", !.peerDone = TRUE]
    /\ UNCHANGED <<setup, cli, link, up, wire, outp, child, run>>

\* Mutant: the end of the pipe is taken before its bytes.
PumpInEndsEarly ==
    /\ pump.in = "run"
    /\ pump.cancel \/ inp.cancelled \/ inp.closed
    /\ IF pump.cancel \/ ~down.rx
       THEN down' = [down EXCEPT !.senders = @ \ {"worker"}]
       ELSE /\ Len(down.q) < Capacity
            /\ down' = [down EXCEPT !.q = Append(@, Eof), !.senders = @ \ {"worker"}]
    /\ pump' = [pump EXCEPT !.in = "done", !.peerDone = TRUE]
    /\ UNCHANGED <<setup, cli, link, up, wire, leg>>

PumpInEnds ==
    /\ pump.in = "run"
    /\ pump.cancel \/ inp.cancelled \/ (inp.data = <<>> /\ inp.closed)
    /\ IF pump.cancel \/ ~down.rx
       THEN down' = [down EXCEPT !.senders = @ \ {"worker"}]
       ELSE /\ Len(down.q) < Capacity
            /\ down' = [down EXCEPT !.q = Append(@, Eof), !.senders = @ \ {"worker"}]
    /\ pump' = [pump EXCEPT !.in = "done", !.peerDone = TRUE]
    /\ UNCHANGED <<setup, cli, link, up, wire, leg>>

\* pump_out takes a message before a wake.
PumpOut ==
    LET ends == /\ pump' = [pump EXCEPT !.out = "done"]
                /\ up' = [up EXCEPT !.rx = FALSE, !.q = <<>>]
                /\ outp' = outp
    IN  /\ pump.out = "run"
        /\ \/ pump.cancel /\ ends
           \/ /\ ~pump.cancel /\ up.q # <<>> /\ Head(up.q).k = "data"
              /\ outp' = IF outp.closed THEN outp ELSE [outp EXCEPT !.data = Append(@, Head(up.q))]
              /\ up' = [up EXCEPT !.q = Tail(@)]
              /\ pump' = pump
           \/ ~pump.cancel /\ up.q # <<>> /\ Head(up.q).k = "eof" /\ ends
           \/ ~pump.cancel /\ up.q = <<>> /\ ~up.tx /\ ends
           \/ ~pump.cancel /\ up.q = <<>> /\ up.tx /\ pump.wake
              /\ IF pump.peerDone THEN ends
                 ELSE pump' = [pump EXCEPT !.wake = FALSE] /\ UNCHANGED <<up, outp>>
        /\ UNCHANGED <<setup, cli, link, down, wire, inp, child, run>>

\* Mutant: finish_pump is forgotten, and the control sender lives as long as the
\* session value.
PumpSupervisesKeepsControl ==
    /\ pump.state = "run"
    /\ pump.in # pump.seenIn \/ pump.out # pump.seenOut
    /\ LET both == pump.in = "done" /\ pump.out = "done"
       IN  /\ pump' = [pump EXCEPT !.seenIn = pump.in, !.seenOut = pump.out,
                                   !.wake = @ \/ pump.in # pump.seenIn,
                                   !.state = IF both THEN "done" ELSE "run"]
           /\ down' = IF both THEN [down EXCEPT !.senders = @ \ {"frame"}] ELSE down
           /\ outp' = [outp EXCEPT !.closed = @ \/ pump.out = "done"]
    /\ UNCHANGED <<setup, cli, link, up, wire, inp, child, run>>

\* The supervisor notes finished workers: the input's end wakes the output
\* worker, the output's end closes the script's pipe.  When both are done it
\* returns, dropping its sender, and finish_pump drops the control sender.
PumpSupervises ==
    /\ pump.state = "run"
    /\ pump.in # pump.seenIn \/ pump.out # pump.seenOut
    /\ LET both == pump.in = "done" /\ pump.out = "done"
       IN  /\ pump' = [pump EXCEPT !.seenIn = pump.in, !.seenOut = pump.out,
                                   !.wake = @ \/ pump.in # pump.seenIn,
                                   !.state = IF both THEN "done" ELSE "run"]
           /\ down' = IF both THEN [down EXCEPT !.senders = @ \ {"frame", "control"}] ELSE down
           /\ outp' = [outp EXCEPT !.closed = @ \/ pump.out = "done"]
    /\ UNCHANGED <<setup, cli, link, up, wire, inp, child, run>>

PumpCancelled ==
    /\ setup.cancel = "pump" /\ pump.state = "run"
    /\ pump' = [pump EXCEPT !.state = "cancelled", !.cancel = TRUE, !.wake = TRUE]
    /\ inp' = [inp EXCEPT !.closed = TRUE, !.cancelled = TRUE]
    /\ outp' = [outp EXCEPT !.closed = TRUE]
    /\ down' = [down EXCEPT !.senders = @ \ {"frame", "control"}]
    /\ UNCHANGED <<setup, cli, link, up, wire, child, run>>

----------------------------------------------------------------------------
(* SSH_RUN *)

ChildWrites(s) ==
    /\ child.alive /\ child.open[s] /\ child.wrote[s] < setup.chunks[s]
    /\ child' = [child EXCEPT !.wrote[s] = @ + 1, !.pipe[s] = Append(@, Data(child.wrote[s] + 1))]
    /\ UNCHANGED <<setup, cli, link, server, inp, outp, run>>

\* A child may close its stdout and run on.
ChildCloses ==
    /\ setup.closesEarly /\ child.alive /\ child.open["out"]
    /\ child.wrote["out"] = setup.chunks["out"]
    /\ child' = [child EXCEPT !.open["out"] = FALSE]
    /\ UNCHANGED <<setup, cli, link, server, inp, outp, run>>

\* A child that reads its input exits at its end.
ChildExits ==
    /\ child.alive /\ \A s \in Stream : child.wrote[s] = setup.chunks[s]
    /\ setup.reads => run.in = "done"
    /\ child' = [child EXCEPT !.alive = FALSE, !.open = [s \in Stream |-> FALSE],
                              !.code = setup.code]
    /\ UNCHANGED <<setup, cli, link, server, inp, outp, run>>

\* pump_pipe_to_sink: bytes from the pipe to the child's stdin.
RunIn ==
    /\ run.in = "run"
    /\ IF run.cancel \/ run.peerDone \/ outp.cancelled \/ (outp.data = <<>> /\ outp.closed)
       THEN run' = [run EXCEPT !.in = "done"] /\ outp' = outp
       ELSE /\ outp.data # <<>>
            /\ outp' = [outp EXCEPT !.data = Tail(@)]
            /\ run' = [run EXCEPT !.in = IF child.alive THEN "run" ELSE "done"]
    /\ UNCHANGED <<setup, cli, link, server, inp, child>>

\* pump_fd_to_pipe for one stream; nobody reads the diagnostics.
RunOut(s) ==
    /\ run.outs[s] = "run"
    /\ IF child.pipe[s] # <<>>
       THEN /\ child' = [child EXCEPT !.pipe[s] = Tail(@)]
            /\ inp' = IF s = "err" \/ inp.closed THEN inp
                      ELSE [inp EXCEPT !.data = Append(@, Head(child.pipe[s]))]
            /\ run' = run
       ELSE /\ ~child.open[s]
            /\ run' = [run EXCEPT !.outs[s] = "done"]
            /\ UNCHANGED <<child, inp>>
    /\ UNCHANGED <<setup, cli, link, server, outp>>

\* The reaper: a plain exit is reported inside wait_exit, before the exit is
\* known to the supervisor.
ReaperReports ==
    /\ run.reaper = "wait" /\ run.state # "off" /\ ~child.alive
    /\ IF child.code = NoCode THEN down' = down ELSE SendExitStatus(child.code)
    /\ run' = [run EXCEPT !.reaper = "report", !.peerDone = TRUE,
                          !.lost = child.code # NoCode /\ down' = down]
    /\ UNCHANGED <<setup, cli, link, up, wire, pump, inp, outp, child>>

ReaperSends ==
    /\ run.reaper = "report"
    /\ run' = [run EXCEPT !.reaper = "done"]
    /\ UNCHANGED <<setup, cli, link, server, inp, outp, child>>

\* Mutant: a finished stream's pipe closes at once.
DrainedPipeAtOnce(exited) == [inp EXCEPT !.closed = @ \/ run.outs["out"] = "done"]

\* close_drained_outputs: a finished stream's pipe closes once the exit is
\* observed.
DrainedPipe(exited) == [inp EXCEPT !.closed = @ \/ (run.outs["out"] = "done" /\ exited)]

\* The exit is observed: a worker parked in its pipe read is released.
ExitObserved ==
    /\ run.state = "run" /\ run.reaper = "done" /\ ~run.exited
    /\ run' = [run EXCEPT !.exited = TRUE]
    /\ outp' = [outp EXCEPT !.cancelled = TRUE]
    /\ inp' = DrainedPipe(TRUE)
    /\ UNCHANGED <<setup, cli, link, server, child>>

WorkersObserved ==
    /\ run.state = "run" /\ DrainedPipe(run.exited) # inp
    /\ inp' = DrainedPipe(run.exited)
    /\ UNCHANGED <<setup, cli, link, server, outp, child, run>>

RunReturns ==
    /\ run.state = "run" /\ run.exited /\ run.in = "done" /\ DrainedPipe(TRUE) = inp
    /\ \A s \in Stream : run.outs[s] = "done"
    /\ run' = [run EXCEPT !.state = "done"]
    /\ UNCHANGED <<setup, cli, link, server, inp, outp, child>>

RunCancelled ==
    /\ setup.cancel = "run" /\ run.state = "run"
    /\ run' = [run EXCEPT !.state = "cancelled", !.cancel = TRUE]
    /\ outp' = [outp EXCEPT !.closed = TRUE, !.cancelled = TRUE]
    /\ inp' = [inp EXCEPT !.closed = TRUE]
    /\ child' = IF child.alive
                THEN [child EXCEPT !.alive = FALSE, !.open = [s \in Stream |-> FALSE]]
                ELSE child
    /\ UNCHANGED <<setup, cli, link, server>>

----------------------------------------------------------------------------
(* The client *)

\* Past max_bytes the buffer stops growing and the drain goes on.
Collect(n) ==
    IF Exec /\ Len(cli.got) >= setup.maxBytes THEN [cli EXCEPT !.truncated = TRUE]
    ELSE IF cli.out = "done" THEN cli ELSE [cli EXCEPT !.got = Append(@, n)]

FirstStatus(code) == IF cli.status = NoCode THEN [cli EXCEPT !.status = code] ELSE cli

\* One message for the client: run_remote_exec's loop, or the wire task of an
\* SSH_CONNECT and its output worker.
ClientReads ==
    /\ cli.pc = "run" /\ s2c # <<>>
    /\ s2c' = Tail(s2c)
    /\ LET m == Head(s2c)
           next == CASE m.k = "data" -> Collect(m.v)
                     [] m.k = "status" -> FirstStatus(m.v)
                     [] m.k = "eof" -> [cli EXCEPT !.eof = TRUE, !.out = "done"]
                     [] m.k = "close" -> [cli EXCEPT !.closed = TRUE, !.out = "done"]
       IN  cli' = next
    /\ UNCHANGED <<setup, c2s, conn, server, leg>>

\* The connection is gone and everything it carried has been read.
ClientLosesWire ==
    /\ cli.pc = "run" /\ conn = "dead" /\ s2c = <<>> /\ ~cli.closed
    /\ cli' = [cli EXCEPT !.closed = TRUE, !.out = "done"]
    /\ UNCHANGED <<setup, link, server, leg>>

\* The input worker of SSH_CONNECT.
ClientSends ==
    /\ ~Exec /\ cli.pc = "run" /\ cli.in = "run" /\ cli.sent < setup.sends
    /\ Len(c2s) < LinkCap
    /\ c2s' = IF conn = "up" THEN Append(c2s, Data(cli.sent + 1)) ELSE c2s
    /\ cli' = [cli EXCEPT !.sent = @ + 1]
    /\ UNCHANGED <<setup, s2c, conn, server, leg>>

ClientInputEnds ==
    /\ ~Exec /\ cli.pc = "run" /\ cli.in = "run"
    /\ setup.ends /\ cli.sent = setup.sends /\ Len(c2s) < LinkCap
    /\ c2s' = IF conn = "up" THEN Append(c2s, Eof) ELSE c2s
    /\ cli' = [cli EXCEPT !.in = "done"]
    /\ UNCHANGED <<setup, s2c, conn, server, leg>>

\* SSH_EXEC has a status and an end of file, or the channel closed, or time is
\* up; SSH_CONNECT returns when both its workers are done.  The call
\* disconnects.
ClientReturns ==
    /\ cli.pc = "run"
    /\ \/ Exec /\ (cli.closed \/ (cli.eof /\ cli.status # NoCode) \/ setup.timeout)
       \/ ~Exec /\ cli.in = "done" /\ cli.out = "done"
    /\ cli' = [cli EXCEPT !.pc = "done"]
    /\ c2s' = IF conn = "up" THEN Append(c2s, Gone) ELSE c2s
    /\ UNCHANGED <<setup, s2c, conn, server, leg>>

----------------------------------------------------------------------------

Init ==
    /\ setup \in Setups
    /\ cli = [pc |-> "auth", in |-> "run", out |-> "run", sent |-> 0, got |-> <<>>,
              status |-> NoCode, eof |-> FALSE, closed |-> FALSE, truncated |-> FALSE]
    /\ c2s = <<>> /\ s2c = <<>> /\ conn = "up"
    /\ up = [q |-> <<>>, tx |-> TRUE, rx |-> TRUE]
    /\ down = [q |-> <<>>, senders |-> {"frame"}, rx |-> TRUE]
    /\ wire = "off"
    /\ pump = [state |-> "off", in |-> "off", out |-> "off", seenIn |-> "run", seenOut |-> "run",
               wake |-> FALSE, peerDone |-> FALSE, cancel |-> FALSE]
    /\ inp = [data |-> <<>>, closed |-> FALSE, cancelled |-> FALSE]
    /\ outp = [data |-> <<>>, closed |-> FALSE, cancelled |-> FALSE]
    /\ child = [alive |-> FALSE, open |-> [s \in Stream |-> TRUE], wrote |-> [s \in Stream |-> 0],
                pipe |-> [s \in Stream |-> <<>>], code |-> NoCode]
    /\ run = [state |-> "off", in |-> "off", outs |-> [s \in Stream |-> "off"], reaper |-> "wait",
              peerDone |-> FALSE, exited |-> FALSE, cancel |-> FALSE, lost |-> FALSE]

Server == Announce \/ Dequeue \/ HandlerTakes \/ WireWrites \/ WireEnds
PumpIn == PumpInMoves \/ PumpInEnds
Pump == PumpIn \/ PumpOut \/ PumpSupervises
Reaper == ReaperReports \/ ReaperSends
RunSupervises == ExitObserved \/ WorkersObserved \/ RunReturns
Client == Authenticate \/ ClientReads \/ ClientLosesWire \/ ClientSends \/ ClientInputEnds \/ ClientReturns
Child == ChildCloses \/ ChildExits \/ \E s \in Stream : ChildWrites(s)

Next ==
    \/ Server \/ Pump \/ Reaper \/ RunSupervises \/ Client \/ Child
    \/ RunIn \/ \E s \in Stream : RunOut(s)
    \/ PumpCancelled \/ RunCancelled

\* Every thread and task keeps running, the client reads, and the child comes
\* to its end.
Fairness ==
    /\ WF_vars(Announce) /\ WF_vars(Dequeue) /\ WF_vars(HandlerTakes)
    /\ WF_vars(WireWrites) /\ WF_vars(WireEnds)
    /\ WF_vars(PumpIn) /\ WF_vars(PumpOut) /\ WF_vars(PumpSupervises)
    /\ WF_vars(Reaper) /\ WF_vars(RunSupervises) /\ WF_vars(RunIn)
    /\ \A s \in Stream : WF_vars(RunOut(s)) /\ WF_vars(ChildWrites(s))
    /\ WF_vars(ChildExits)
    /\ WF_vars(Authenticate) /\ WF_vars(ClientReads) /\ WF_vars(ClientLosesWire)
    /\ WF_vars(ClientSends) /\ WF_vars(ClientInputEnds) /\ WF_vars(ClientReturns)

Spec == Init /\ [][Next]_vars /\ Fairness

----------------------------------------------------------------------------
(* Properties *)

Undisturbed == conn = "up" /\ setup.cancel = "none" /\ ~setup.timeout

\* What the client has is the child's output in order from its beginning, and
\* all of it (up to the cap) once it has read the end of file.
OutputReachesClient ==
    /\ cli.got = [i \in 1..Len(cli.got) |-> i]
    /\ Undisturbed /\ cli.eof /\ ~cli.truncated => Len(cli.got) = setup.chunks["out"]

\* The report of a plain exit precedes the end of file: a client that has read
\* the end of file has read the status before, unless the report was refused.
StatusPrecedesEof ==
    Undisturbed /\ cli.eof /\ child.code # NoCode /\ ~run.lost => cli.status = child.code

ChildGone == cli.pc = "run" /\ run.reaper # "wait" /\ (Exec \/ setup.ends)
ClientDone == cli.pc = "done"

\* A client call ends once the child has: the run closes its pipe, the pump
\* lets go of an idle client, the writer drains and closes the channel.
SessionCloses == ChildGone ~> ClientDone

\* "The code reports as the wire `exit-status` at child exit, so stock clients
\* see the real code instead of 255."
StatusDelivered ==
    (cli.pc = "done" /\ setup.cancel = "none" /\ ~setup.timeout /\ child.code # NoCode
        /\ run.reaper # "wait") => cli.status = child.code

\* "pump its shell channel through explicit pipes until it closes".
ClientEndsOnClose == (cli.pc = "run" /\ cli.closed) ~> cli.pc = "done"
============================================================================

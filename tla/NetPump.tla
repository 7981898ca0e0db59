------------------------------ MODULE NetPump -------------------------------
(***************************************************************************)
(* The two ends of one NET session: a NET_ACCEPT and a NET_CONNECT call,   *)
(* joined by a socket (pump_stream) or by a pair of in-process pipes       *)
(* (pump_memory).  Each call runs two detached workers, one from the       *)
(* script's input pipe to the wire and one from the wire to the script's   *)
(* output pipe, and a supervisor that waits for both or for cancellation.  *)
(* How the supervisor waits is PumpHub's; here it sees a completion when   *)
(* it looks.  Bytes are numbered chunks.                                   *)
(***************************************************************************)
EXTENDS Naturals, Sequences

CONSTANT Talks

Side == {"accept", "connect"}
Peer(a) == IF a = "accept" THEN "connect" ELSE "accept"

VARIABLES
    talk,   \* transport, and per side: half-close, chunks, whether the script
             \* closes its input, whether its output pipe breaks, whether it is
             \* cancelled
    fed,     \* per side: chunks its script has written, and whether it closed
    wire,    \* per side: chunks sent and not read by the other side
    writer,  \* per side: the outgoing direction is open
    in,      \* per side: the input worker
    out,     \* per side: the output worker
    got,     \* per side: chunks in its output pipe, and whether that is closed
    super     \* per side: the supervisor

netVars == <<talk, fed, wire, writer, in, out, got, super>>

Memory == talk.memory

Running(a) == super[a].state = "running"

\* A worker that sees the local flag, or an input pipe that was cancelled or
\* closed and is drained, comes to its end.
InputDrained(a) == fed[a].n = fed[a].read /\ (fed[a].closed \/ super[a].cancel)

----------------------------------------------------------------------------

ScriptWrites(a) ==
    /\ fed[a].n < talk[a].chunks /\ ~fed[a].closed
    /\ fed' = [fed EXCEPT ![a].n = @ + 1]
    /\ UNCHANGED <<talk, wire, writer, in, out, got, super>>

ScriptCloses(a) ==
    /\ talk[a].closes /\ fed[a].n = talk[a].chunks /\ ~fed[a].closed
    /\ fed' = [fed EXCEPT ![a].closed = TRUE]
    /\ UNCHANGED <<talk, wire, writer, in, out, got, super>>

\* pump_in and memory_pump_in move one chunk.  A force-closed memory pipe takes
\* the bytes and forgets them; a socket whose peer is gone fails the write.
InputMoves(a) ==
    /\ in[a] = "run" /\ ~super[a].cancel /\ fed[a].read < fed[a].n
    /\ fed' = [fed EXCEPT ![a].read = @ + 1]
    /\ IF Memory
       THEN /\ wire' = IF writer[a] = "open" THEN [wire EXCEPT ![a] = Append(@, fed[a].read + 1)]
                       ELSE wire
            /\ in' = in
       ELSE IF writer[a] = "open" /\ ~super[Peer(a)].socketGone
       THEN wire' = [wire EXCEPT ![a] = Append(@, fed[a].read + 1)] /\ in' = in
       ELSE wire' = wire /\ in' = [in EXCEPT ![a] = "failed"]
    /\ UNCHANGED <<talk, writer, out, got, super>>

\* Mutant: the outgoing direction stays open after the end of the input.
InputFinishesQuietly(a) ==
    /\ in[a] = "run" /\ (super[a].cancel \/ InputDrained(a))
    /\ in' = [in EXCEPT ![a] = "done"]
    /\ UNCHANGED <<talk, fed, wire, writer, out, got, super>>

\* The end of the script's input: with half-close the outgoing direction ends
\* too; without it a memory writer is handed to the supervisor to linger and a
\* socket stays as it is.
InputFinishes(a) ==
    /\ in[a] = "run" /\ (super[a].cancel \/ InputDrained(a))
    /\ in' = [in EXCEPT ![a] = "done"]
    /\ writer' = IF talk[a].half \/ (Memory /\ super[a].cancel)
                 THEN [writer EXCEPT ![a] = "closed"] ELSE writer
    /\ UNCHANGED <<talk, fed, wire, out, got, super>>

\* Mutant: the peer's end is taken before the bytes that precede it.
WireEndedEarly(a) == writer[Peer(a)] = "closed" \/ super[Peer(a)].socketGone

\* The incoming direction has ended and is drained.  A socket also ends for a
\* reader when its own side has shut it down.
WireEnded(a) == \/ wire[Peer(a)] = <<>> /\ (writer[Peer(a)] = "closed" \/ super[Peer(a)].socketGone)
                \/ ~Memory /\ super[a].shut

OutputMoves(a) ==
    /\ out[a] = "run" /\ ~super[a].cancel /\ wire[Peer(a)] # <<>>
    /\ wire' = [wire EXCEPT ![Peer(a)] = Tail(@)]
    /\ IF talk[a].breaks
       THEN /\ out' = [out EXCEPT ![a] = "failed"]
            /\ got' = [got EXCEPT ![a].closed = @ \/ ~Memory]
       ELSE /\ got' = [got EXCEPT ![a].data = Append(@, Head(wire[Peer(a)]))]
            /\ out' = out
    /\ UNCHANGED <<talk, fed, writer, in, super>>

\* pump_out closes the script's pipe however its loop ended, memory_pump_out
\* only at the peer's end of file.
OutputFinishes(a) ==
    /\ out[a] = "run" /\ (super[a].cancel \/ WireEnded(a))
    /\ out' = [out EXCEPT ![a] = "done"]
    /\ got' = [got EXCEPT ![a].closed = @ \/ ~Memory \/ ~super[a].cancel]
    /\ UNCHANGED <<talk, fed, wire, writer, in, super>>

\* Both workers have reported: the call returns the first error or success.
\* A lingering writer is dropped, and so is the frame's socket.
Returns(a) ==
    /\ Running(a) /\ in[a] # "run" /\ out[a] # "run"
    /\ super' = [super EXCEPT ![a].state = IF "failed" \in {in[a], out[a]} THEN "failed" ELSE "ok",
                            ![a].socketGone = ~Memory]
    /\ writer' = [writer EXCEPT ![a] = "closed"]
    /\ UNCHANGED <<talk, fed, wire, in, out, got>>

\* The task is cancelled: raise the local flag, cancel the input pipe, shut the
\* socket or force-close both memory pipes, close the script's pipes, return.
SessionCancelled(a) ==
    /\ talk[a].cancels /\ Running(a)
    /\ super' = [super EXCEPT ![a].state = "cancelled", ![a].cancel = TRUE, ![a].shut = ~Memory]
    /\ writer' = IF Memory THEN [b \in Side |-> "closed"] ELSE [writer EXCEPT ![a] = "closed"]
    /\ got' = [got EXCEPT ![a].closed = TRUE]
    /\ fed' = [fed EXCEPT ![a].closed = TRUE]
    /\ UNCHANGED <<talk, wire, in, out>>

NetInit ==
    /\ talk \in Talks
    /\ fed = [a \in Side |-> [n |-> 0, read |-> 0, closed |-> FALSE]]
    /\ wire = [a \in Side |-> <<>>]
    /\ writer = [a \in Side |-> "open"]
    /\ in = [a \in Side |-> "run"] /\ out = [a \in Side |-> "run"]
    /\ got = [a \in Side |-> [data |-> <<>>, closed |-> FALSE]]
    /\ super = [a \in Side |-> [state |-> "running", cancel |-> FALSE, shut |-> FALSE,
                               socketGone |-> FALSE]]

NetNext ==
    \E a \in Side : \/ ScriptWrites(a) \/ ScriptCloses(a)
                    \/ InputMoves(a) \/ InputFinishes(a) \/ OutputMoves(a) \/ OutputFinishes(a)
                    \/ Returns(a) \/ SessionCancelled(a)

\* Every thread keeps running; a script that closes its input does so.
NetFairness ==
    \A a \in Side : /\ WF_netVars(ScriptWrites(a)) /\ WF_netVars(ScriptCloses(a))
                    /\ WF_netVars(InputMoves(a)) /\ WF_netVars(InputFinishes(a))
                    /\ WF_netVars(OutputMoves(a)) /\ WF_netVars(OutputFinishes(a))
                    /\ WF_netVars(Returns(a))

NetSpec == NetInit /\ [][NetNext]_netVars /\ NetFairness

----------------------------------------------------------------------------

Chunks(n) == [i \in 1..n |-> i]

\* What a script reads is a prefix of what the other script wrote, and a call
\* that returned success on both sides has moved all of it.
SessionsIntact ==
    \A a \in Side :
        /\ \E n \in 0..fed[Peer(a)].n : got[a].data = Chunks(n)
        /\ (super[a].state = "ok" /\ super[Peer(a)].state = "ok")
              => got[a].data = Chunks(talk[Peer(a)].chunks)

BothClosed == (\E a \in Side : talk[a].half) /\ (\A a \in Side : fed[a].closed)
BothReturned == \A a \in Side : ~Running(a)

\* When both scripts close their inputs and at least one side half-closes, both
\* calls return.
SessionEnds == BothClosed ~> BothReturned

\* "Worker errors cascade through a local token so siblings release promptly":
\* a call with a failed worker returns.
ErrorsCascade ==
    \A a \in Side : "failed" \in {in[a], out[a]} ~> ~Running(a)
============================================================================

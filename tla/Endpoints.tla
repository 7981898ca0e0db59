----------------------------- MODULE Endpoints ------------------------------
(***************************************************************************)
(* The endpoint registry of a run, and the script calls that go through    *)
(* it.  The runner maps service names to bindings and opens the sockets    *)
(* before the script starts; a script claims a service (NET_LISTEN,        *)
(* SSH_SERVE), accepts on the handle it got, dials a service (NET_CONNECT, *)
(* SSH_CONNECT, SSH_EXEC) and closes handles.  A handle's state is shared  *)
(* by reference counting: its Drop runs when the script's value and the    *)
(* last accept call on it are gone.                                        *)
(*                                                                         *)
(* The registry's mutex sections are one step each, and so is one turn of  *)
(* an accept loop's check and one of its poll.  Addresses, result maps and *)
(* error texts are left out; the bytes of a session are NetPump's.         *)
(***************************************************************************)
EXTENDS Naturals, Sequences, FiniteSets

CONSTANTS
    Services,  \* the service names the script may use
    Handles,   \* bound: the listeners and servers it may open, one each
    Callers,   \* bound: the accept and dial calls it may make, one task each
    Setups,    \* what the runner mapped and what the script does
    MemoryCap, \* MEMORY_QUEUE_CAP
    None

Specs == {"exposed", "unbound", "dialonly", "memory", "offline"}

\* The runner maps services to specs, and the script names services only.
SetupOK(u) ==
    /\ \A s \in DOMAIN u.specs : u.specs[s] \in Specs
    /\ \A n \in u.names : n[2] \in Services

\* The function a call names; SSH needs a socket (SocketRequirement).
Serves == {"NET_LISTEN", "SSH_SERVE"}
Dials == {"NET_CONNECT", "SSH_CONNECT"}
SocketRequired(func) == func \in {"SSH_SERVE", "SSH_CONNECT"}

VARIABLES
    setup,    \* the chosen member of Setups
    phase,    \* "check", then "run" or "refused"
    slots,    \* the registry: one ListenerSlot per mapped service
    backlog,  \* the connections the kernel holds for a bound socket
    handle,   \* ListenerState or ServerState behind a handle value
    call,     \* the accept and dial tasks
    accepted  \* the dials that an accept took, in order, by service

endpointsVars == <<setup, phase, slots, backlog, handle, call, accepted>>

NoSlot == [spec |-> "none", persistent |-> FALSE, claimed |-> FALSE, queue |-> <<>>]
Closed == [state |-> "unused", func |-> None, svc |-> None, kind |-> None, held |-> FALSE,
           serving |-> FALSE]
Idle == [pc |-> "idle", func |-> None, on |-> None, svc |-> None, cancelled |-> FALSE]

----------------------------------------------------------------------------
(* The registry *)

\* add_mapping for every flag, then bind_all: exposed slots get their socket
\* and become persistent.  "unbound" is a TCP mapping whose runner skipped
\* bind_all.
Mapped(specs) ==
    [s \in Services |->
        IF s \in DOMAIN specs
        THEN [NoSlot EXCEPT !.spec = specs[s], !.persistent = specs[s] = "exposed"]
        ELSE NoSlot]

\* EndpointRegistry::slot_kind.
SlotKind(s) ==
    CASE slots[s].spec = "none" -> "Unmapped"
      [] slots[s].spec \in {"exposed", "dialonly"} -> "TcpBound"
      [] slots[s].spec = "unbound" -> "TcpUnbound"
      [] slots[s].spec = "memory" -> "Memory"
      [] slots[s].spec = "offline" -> "Offline"

\* check_service_bound: a socket, an offline designation, or memory where no
\* socket is needed.
ServiceBound(func, s) ==
    \/ SlotKind(s) \in {"TcpBound", "Offline"}
    \/ SlotKind(s) = "Memory" /\ ~SocketRequired(func)

\* assert_services_bound: the run starts only when every service a step names
\* is bound; --offline passes every script.
PreRunCheck ==
    /\ phase = "check"
    /\ phase' = IF setup.offline \/ \A n \in setup.names : ServiceBound(n[1], n[2])
                THEN "run" ELSE "refused"
    /\ UNCHANGED <<setup, slots, backlog, handle, call, accepted>>

\* claim succeeds on a free slot that has a socket or needs none; the
\* dial-only and never-bound arms give the claim back.
Claimable(s) == slots[s].spec \in {"exposed", "memory", "offline"} /\ ~slots[s].claimed

\* EndpointRegistry::release, on behalf of a handle for service s: a slot with
\* no socket vanishes with its queue, a bound one is free again.  The slot does
\* not know who holds the claim.
ReleaseService(s) ==
    [slots EXCEPT ![s] = IF @.persistent THEN [@ EXCEPT !.claimed = FALSE] ELSE NoSlot]

----------------------------------------------------------------------------
(* Handles *)

Uses(h) == {c \in Callers : call[c].on = h}

Kind(s) ==
    IF setup.offline \/ slots[s].spec = "offline" THEN "offline"
    ELSE IF slots[s].spec = "memory" THEN "memory" ELSE "tcp"

\* net_listen and ssh_serve through acquire_listener.  The handle keeps a clone
\* of the slot's socket.
Serve(h, func, s) ==
    /\ phase = "run" /\ handle[h].state = "unused" /\ <<func, s>> \in setup.names
    /\ setup.offline \/ Claimable(s)
    /\ setup.offline \/ ~(SocketRequired(func) /\ slots[s].spec = "memory")
    /\ slots' = IF setup.offline THEN slots ELSE [slots EXCEPT ![s].claimed = TRUE]
    /\ handle' = [handle EXCEPT ![h] = [state |-> "open", func |-> func, svc |-> s,
                                        kind |-> Kind(s), held |-> TRUE,
                                        serving |-> func = "SSH_SERVE" /\ Kind(s) = "tcp"]]
    /\ UNCHANGED <<setup, phase, backlog, call, accepted>>

\* The calls that fail: an unmapped, claimed, dial-only or unbound service.
ServeRefused(h, func, s) ==
    /\ phase = "run" /\ handle[h].state = "unused" /\ <<func, s>> \in setup.names
    /\ ~setup.offline /\ ~Claimable(s)
    /\ handle' = [handle EXCEPT ![h].state = "failed"]
    /\ UNCHANGED <<setup, phase, slots, backlog, call, accepted>>

\* A failure after the claim and before a state owns it: SSH_SERVE cannot load
\* its host key, the listener cannot be cloned, the thread cannot be spawned.
\* Nothing gives the claim back.
ServeFails(h, func, s) ==
    /\ setup.faults /\ phase = "run" /\ handle[h].state = "unused"
    /\ <<func, s>> \in setup.names /\ ~setup.offline /\ Claimable(s)
    /\ func = "SSH_SERVE" \/ slots[s].spec = "exposed"
    /\ slots' = [slots EXCEPT ![s].claimed = TRUE]
    /\ handle' = [handle EXCEPT ![h].state = "failed"]
    /\ UNCHANGED <<setup, phase, backlog, call, accepted>>

\* ListenerState and ServerState request_shutdown, from NET_CLOSE and
\* SSH_CLOSE: raise the flag, drop the socket, release the slot.  The script
\* may close a handle it has closed before.
Close(h) ==
    /\ handle[h].held
    /\ handle' = [handle EXCEPT ![h].state = "closed"]
    /\ slots' = ReleaseService(handle[h].svc)
    /\ UNCHANGED <<setup, phase, backlog, call, accepted>>

\* The script's last value of the handle goes.  Drop calls request_shutdown
\* once more when no accept call holds the state either.
DropValue(h) ==
    /\ handle[h].held
    /\ IF Uses(h) = {}
       THEN /\ handle' = [handle EXCEPT ![h].held = FALSE, ![h].state = "gone"]
            /\ slots' = ReleaseService(handle[h].svc)
       ELSE /\ handle' = [handle EXCEPT ![h].held = FALSE]
            /\ slots' = slots
    /\ UNCHANGED <<setup, phase, backlog, call, accepted>>

\* Mutant: the last accept call does not release what the dropped value left.
EndsQuietly(c, how) ==
    LET h == call[c].on
        last == h # None /\ ~handle[h].held /\ Uses(h) = {c}
    IN  /\ call' = [call EXCEPT ![c].pc = how, ![c].on = None]
        /\ handle' = IF last THEN [handle EXCEPT ![h].state = "gone"] ELSE handle
        /\ UNCHANGED slots

\* A call c ends and lets go of the handle it used.
Ends(c, how) ==
    LET h == call[c].on
        last == h # None /\ ~handle[h].held /\ Uses(h) = {c}
    IN  /\ call' = [call EXCEPT ![c].pc = how, ![c].on = None]
        /\ IF last
           THEN handle' = [handle EXCEPT ![h].state = "gone"] /\ slots' = ReleaseService(handle[h].svc)
           ELSE UNCHANGED <<handle, slots>>

----------------------------------------------------------------------------
(* NET_ACCEPT *)

\* The call takes its own reference to the state, and on TCP its own clone of
\* the socket, which a closed listener no longer has.
Accept(c, h) ==
    /\ phase = "run" /\ call[c].pc = "idle"
    /\ handle[h].func = "NET_LISTEN" /\ handle[h].held
    /\ IF handle[h].kind = "tcp" /\ handle[h].state # "open"
       THEN call' = [call EXCEPT ![c].pc = "closed"]
       ELSE call' = [call EXCEPT ![c] = [pc |-> "check", func |-> "NET_ACCEPT", on |-> h,
                                         svc |-> handle[h].svc, cancelled |-> FALSE]]
    /\ UNCHANGED <<setup, phase, slots, backlog, handle, accepted>>

\* Mutant: a turn of the loop looks at the cancellation only.
AcceptChecksCancelOnly(c) ==
    /\ call[c].pc = "check"
    /\ IF call[c].cancelled THEN Ends(c, "cancelled")
       ELSE call' = [call EXCEPT ![c].pc = "poll"] /\ UNCHANGED <<handle, slots>>
    /\ UNCHANGED <<setup, phase, backlog, accepted>>

\* One turn of the loop: cancellation wins, then the shutdown flag.
AcceptChecks(c) ==
    /\ call[c].pc = "check"
    /\ IF call[c].cancelled THEN Ends(c, "cancelled")
       ELSE IF handle[call[c].on].state # "open" THEN Ends(c, "closed")
       ELSE call' = [call EXCEPT ![c].pc = "poll"] /\ UNCHANGED <<handle, slots>>
    /\ UNCHANGED <<setup, phase, backlog, accepted>>

\* The connection of dial who is taken from service s by the calls in ends.  A
\* dial cancelled while it waited has left a dead connection behind.
Take(s, who, ends) ==
    /\ call' = [c \in Callers |->
                 IF c \in ends \/ (c = who /\ call[c].pc = "waiting")
                 THEN [call[c] EXCEPT !.pc = "pumping"] ELSE call[c]]
    /\ accepted' = [accepted EXCEPT ![s] = Append(@, who)]

\* dequeue_memory_session, or accept on the shared kernel backlog; nothing
\* there: sleep a tick and go round.
AcceptPolls(c) ==
    LET h == call[c].on
        s == call[c].svc
        waiting == CASE handle[h].kind = "memory" -> slots[s].queue
                     [] handle[h].kind = "tcp" -> backlog[s]
                     [] OTHER -> <<>>
    IN  /\ call[c].pc = "poll"
        /\ IF waiting = <<>>
           THEN call' = [call EXCEPT ![c].pc = "check"] /\ UNCHANGED <<slots, backlog, accepted>>
           ELSE /\ Take(s, Head(waiting), {c})
                /\ IF handle[h].kind = "memory"
                   THEN slots' = [slots EXCEPT ![s].queue = Tail(@)] /\ UNCHANGED backlog
                   ELSE backlog' = [backlog EXCEPT ![s] = Tail(@)] /\ UNCHANGED slots
        /\ UNCHANGED <<setup, phase, handle>>

\* An SSH server's runtime thread accepts on its own clone until it takes the
\* shutdown signal, some time after the state sent it.
ServerAccepts(h) ==
    LET s == handle[h].svc
    IN  /\ handle[h].serving /\ backlog[s] # <<>>
        /\ Take(s, Head(backlog[s]), {})
        /\ backlog' = [backlog EXCEPT ![s] = Tail(@)]
        /\ UNCHANGED <<setup, phase, slots, handle>>

ServerStops(h) ==
    /\ handle[h].serving /\ handle[h].state # "open"
    /\ handle' = [handle EXCEPT ![h].serving = FALSE]
    /\ UNCHANGED <<setup, phase, slots, backlog, call, accepted>>

----------------------------------------------------------------------------
(* NET_CONNECT, SSH_CONNECT *)

\* resolve_service_target; an offline run or an unmapped, unbound or offline
\* service ends the call.
Connect(c, func, s) ==
    /\ phase = "run" /\ call[c].pc = "idle" /\ <<func, s>> \in setup.names
    /\ call' = [call EXCEPT ![c] =
                  [pc |-> IF setup.offline THEN "failed"
                          ELSE IF SlotKind(s) = "TcpBound" THEN "dial"
                          ELSE IF SlotKind(s) = "Memory" /\ ~SocketRequired(func) THEN "enqueue"
                          ELSE "failed",
                   func |-> func, on |-> None, svc |-> s, cancelled |-> FALSE]]
    /\ UNCHANGED <<setup, phase, slots, backlog, handle, accepted>>

\* The kernel completes the handshake into the backlog of a bound socket; the
\* owner of a dial-only address is outside the run.
Dial(c) ==
    LET s == call[c].svc
    IN  /\ call[c].pc = "dial"
        /\ IF slots[s].spec = "exposed"
           THEN /\ backlog' = [backlog EXCEPT ![s] = Append(@, c)]
                /\ call' = [call EXCEPT ![c].pc = "waiting"]
           ELSE /\ call' = [call EXCEPT ![c].pc = "pumping"]
                /\ UNCHANGED backlog
        /\ UNCHANGED <<setup, phase, slots, handle, accepted>>

\* enqueue_memory_session: the slot may have gone since it was resolved, and
\* its queue may be full.
Enqueue(c) ==
    LET s == call[c].svc
    IN  /\ call[c].pc = "enqueue"
        /\ IF slots[s].spec = "none" \/ Len(slots[s].queue) >= MemoryCap
           THEN call' = [call EXCEPT ![c].pc = "failed"] /\ UNCHANGED slots
           ELSE /\ slots' = [slots EXCEPT ![s].queue = Append(@, c)]
                /\ call' = [call EXCEPT ![c].pc = "waiting"]
        /\ UNCHANGED <<setup, phase, backlog, handle, accepted>>

----------------------------------------------------------------------------

\* A session that has two ends runs until one of them is done.
PumpEnds(c) ==
    /\ call[c].pc = "pumping"
    /\ Ends(c, "done")
    /\ UNCHANGED <<setup, phase, backlog, accepted>>

\* CANCEL of the task, seen at once by a pump and at the next turn by an
\* accept loop.
Cancel(c) ==
    /\ setup.cancels /\ call[c].pc \in {"check", "poll", "waiting", "pumping"}
    /\ ~call[c].cancelled
    /\ IF call[c].pc \in {"waiting", "pumping"}
       THEN Ends(c, "cancelled")
       ELSE call' = [call EXCEPT ![c].cancelled = TRUE] /\ UNCHANGED <<handle, slots>>
    /\ UNCHANGED <<setup, phase, backlog, accepted>>

EndpointsInit ==
    /\ setup \in Setups
    /\ phase = "check"
    /\ slots = Mapped(setup.specs)
    /\ backlog = [s \in Services |-> <<>>]
    /\ handle = [h \in Handles |-> Closed]
    /\ call = [c \in Callers |-> Idle]
    /\ accepted = [s \in Services |-> <<>>]

ScriptStep ==
    \/ \E h \in Handles, n \in setup.names :
          n[1] \in Serves /\ (Serve(h, n[1], n[2]) \/ ServeRefused(h, n[1], n[2])
                              \/ ServeFails(h, n[1], n[2]))
    \/ \E h \in Handles : Close(h) \/ DropValue(h)
    \/ \E c \in Callers, h \in Handles : Accept(c, h)
    \/ \E c \in Callers, n \in setup.names : n[1] \in Dials /\ Connect(c, n[1], n[2])

TaskStep(c) ==
    AcceptChecks(c) \/ AcceptPolls(c) \/ Dial(c) \/ Enqueue(c) \/ PumpEnds(c)

EndpointsNext ==
    \/ PreRunCheck
    \/ ScriptStep
    \/ \E c \in Callers : TaskStep(c) \/ Cancel(c)
    \/ \E h \in Handles : ServerAccepts(h) \/ ServerStops(h)

\* The loops and the server's thread keep running; the script does as it likes.
EndpointsFairness ==
    /\ \A c \in Callers : WF_endpointsVars(TaskStep(c))
    /\ \A h \in Handles : WF_endpointsVars(ServerStops(h))

EndpointsSpec == EndpointsInit /\ [][EndpointsNext]_endpointsVars /\ EndpointsFairness

----------------------------------------------------------------------------
(* Properties *)

OpenOn(s) == {h \in Handles : handle[h].state = "open" /\ handle[h].svc = s}

\* A claimed slot has a live listener or server: whichever of a close, a drop
\* of the value and the end of the last accept call comes last, the claim does
\* not outlive the handle it was made for.  Only a start that fails after its
\* claim leaves the service claimed.
ClaimHasOwner ==
    \A s \in Services : slots[s].claimed =>
        \/ OpenOn(s) # {}
        \/ setup.faults /\ \E h \in Handles : handle[h].state = "failed"

\* One service has one listener at a time: "the second claim while busy bails
\* (`already claimed`), so concurrent listeners on one service fail loudly".
OneListener ==
    \A s \in Services : Cardinality({h \in OpenOn(s) : handle[h].kind # "offline"}) <= 1

InLoop(c) == call[c].pc \in {"check", "poll"}
AcceptCalledOff(c) == InLoop(c) /\ (call[c].cancelled \/ handle[call[c].on].state # "open")

\* An accept call whose listener is closed, or whose task is cancelled, does
\* not stay in its loop.
AcceptReturns == \A c \in Callers : AcceptCalledOff(c) ~> ~InLoop(c)
============================================================================

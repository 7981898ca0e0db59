----------------------------- MODULE MCNetwork ------------------------------
(***************************************************************************)
(* What the network functions share, and their sessions, for TLC: the      *)
(* cancellation hub, service endpoints, socket pumps and SSH.  `part' says *)
(* which one a behaviour is of; the others stay in an initial state.       *)
(***************************************************************************)
EXTENDS PumpHub, NetPump, Endpoints, TLC

CONSTANTS t1, t2, web, box, h1, h2, c1, c2

VARIABLES part,
          sshSetup, cli, c2s, s2c, conn, up, down, sshWire, pump, inp, outp, child, run

----------------------------------------------------------------------------
(* The hub: sessions of each kind followed by a call that waits on the     *)
(* same hub, and two consumers of one queue.                               *)

HubCalls(a, b, n, c) == [calls |-> t1 :> a @@ t2 :> b, arrivals |-> n, closes |-> c]
HubScenarios ==
    {HubCalls(s, <<>>, 0, FALSE) : s \in {<<"server", "copy">>, <<"client", "dequeue">>,
                                          <<"net", "copy">>, <<"client", "client">>}}
    \cup {HubCalls(<<"dequeue">>, <<"dequeue">>, 2, c) : c \in BOOLEAN}
HubOff == Init /\ script = [t \in {t1, t2} |-> IF t = t1 THEN <<"net", "copy">> ELSE <<>>]

----------------------------------------------------------------------------
(* Endpoints: listeners, servers and dials on mapped services. *)

Service == [offline |-> FALSE, specs |-> web :> "exposed",
            names |-> {<<"NET_LISTEN", web>>, <<"NET_CONNECT", web>>}, cancels |-> FALSE, faults |-> FALSE]
ServiceSetups ==
    {Service, [Service EXCEPT !.specs = web :> "memory"],
     [Service EXCEPT !.names = {<<"SSH_SERVE", web>>, <<"NET_LISTEN", web>>, <<"SSH_CONNECT", web>>}],
     [Service EXCEPT !.offline = TRUE, !.cancels = TRUE],
     [Service EXCEPT !.cancels = TRUE, !.names = {<<"NET_LISTEN", web>>, <<"NET_CONNECT", box>>},
                     !.specs = web :> "memory" @@ box :> "dialonly"],
     [Service EXCEPT !.names = @ \cup {<<"NET_LISTEN", box>>}, !.specs = web :> "exposed" @@ box :> "dialonly"],
     [Service EXCEPT !.names = @ \cup {<<"NET_LISTEN", box>>}],
     [Service EXCEPT !.specs = web :> "offline"],
     [Service EXCEPT !.faults = TRUE, !.names = {<<"NET_LISTEN", web>>}]}
EndpointsOff == setup = Service /\ EndpointsInit

----------------------------------------------------------------------------
(* A socket session between two scripts. *)

Talk == [half |-> TRUE, chunks |-> 2, closes |-> TRUE, breaks |-> FALSE, cancels |-> FALSE]
Between(m, a, c) == [memory |-> m, accept |-> a, connect |-> c]
TalkSetups ==
    UNION {{Between(m, Talk, Talk), Between(m, [Talk EXCEPT !.half = FALSE], Talk),
            Between(m, Talk, [Talk EXCEPT !.cancels = TRUE]),
            Between(m, [Talk EXCEPT !.breaks = TRUE], Talk),
            Between(m, [Talk EXCEPT !.closes = FALSE, !.cancels = TRUE], [Talk EXCEPT !.half = FALSE])}
            : m \in BOOLEAN}
NetOff == talk = Between(TRUE, Talk, Talk) /\ NetInit

----------------------------------------------------------------------------
(* An SSH session: exec and shell clients, a small output cap, a refused   *)
(* password, a timeout, both cancellations, a child that reads, one killed *)
(* by a signal.                                                            *)

Exec == [client |-> "exec", password |-> TRUE, chunks |-> [out |-> 1, err |-> 0], code |-> 3,
         reads |-> FALSE, closesEarly |-> FALSE, cancel |-> "none", sends |-> 0, ends |-> FALSE,
         timeout |-> FALSE, maxBytes |-> 9]
Shell == [Exec EXCEPT !.client = "connect", !.sends = 1, !.ends = TRUE]
SshSetups ==
    {[Exec EXCEPT !.chunks["out"] = 2, !.maxBytes = 1], [Exec EXCEPT !.closesEarly = TRUE, !.chunks["err"] = 1],
     [Exec EXCEPT !.password = FALSE], [Exec EXCEPT !.timeout = TRUE], [Exec EXCEPT !.cancel = "run"],
     [Exec EXCEPT !.cancel = "pump"],
     Shell, [Shell EXCEPT !.reads = TRUE], [Shell EXCEPT !.code = 0 - 1]}
S == INSTANCE Ssh WITH Setups <- SshSetups, Capacity <- 1, LinkCap <- 2,
                       setup <- sshSetup, wire <- sshWire
ssh == <<sshSetup, cli, c2s, s2c, conn, up, down, sshWire, pump, inp, outp, child, run>>
SshOff == sshSetup = Shell /\ S!Init

----------------------------------------------------------------------------

NetworkInit ==
    \/ part = "hub" /\ Init /\ EndpointsOff /\ NetOff /\ SshOff
    \/ part = "endpoints" /\ HubOff /\ EndpointsInit /\ NetOff /\ SshOff
    \/ part = "net" /\ HubOff /\ EndpointsOff /\ NetInit /\ SshOff
    \/ part = "ssh" /\ HubOff /\ EndpointsOff /\ NetOff /\ S!Init

NetworkNext ==
    \/ part = "hub" /\ Next /\ UNCHANGED <<part, endpointsVars, netVars, ssh>>
    \/ part = "endpoints" /\ EndpointsNext /\ UNCHANGED <<part, vars, netVars, ssh>>
    \/ part = "net" /\ NetNext /\ UNCHANGED <<part, vars, endpointsVars, ssh>>
    \/ part = "ssh" /\ S!Next /\ UNCHANGED <<part, vars, endpointsVars, netVars>>

\* The fairness of the parts: each states what it asks of its threads.
HubFair ==
    \A t \in {t1, t2} :
        /\ WF_vars(part = "hub" /\ MarkCancelled(t)) /\ WF_vars(part = "hub" /\ ThreadStep(t))
        /\ WF_vars(part = "hub" /\ GuardStep(t)) /\ WF_vars(part = "hub" /\ OutputWoken(t))
        /\ WF_vars(part = "hub" /\ LatePoke(t))
        /\ \A d \in {"in", "out"} : WF_vars(part = "hub" /\ Deliver(t, d))

EndpointsFair ==
    /\ \A c \in {c1, c2} : WF_endpointsVars(part = "endpoints" /\ TaskStep(c))
    /\ \A h \in {h1, h2} : WF_endpointsVars(part = "endpoints" /\ ServerStops(h))

NetFair ==
    \A a \in {"accept", "connect"} :
        /\ WF_netVars(part = "net" /\ ScriptWrites(a)) /\ WF_netVars(part = "net" /\ ScriptCloses(a))
        /\ WF_netVars(part = "net" /\ InputMoves(a)) /\ WF_netVars(part = "net" /\ InputFinishes(a))
        /\ WF_netVars(part = "net" /\ OutputMoves(a)) /\ WF_netVars(part = "net" /\ OutputFinishes(a))
        /\ WF_netVars(part = "net" /\ Returns(a))

SshFair ==
    /\ WF_ssh(part = "ssh" /\ S!Announce) /\ WF_ssh(part = "ssh" /\ S!Dequeue)
    /\ WF_ssh(part = "ssh" /\ S!HandlerTakes) /\ WF_ssh(part = "ssh" /\ S!WireWrites)
    /\ WF_ssh(part = "ssh" /\ S!WireEnds) /\ WF_ssh(part = "ssh" /\ S!PumpIn)
    /\ WF_ssh(part = "ssh" /\ S!PumpOut) /\ WF_ssh(part = "ssh" /\ S!PumpSupervises)
    /\ WF_ssh(part = "ssh" /\ S!Reaper) /\ WF_ssh(part = "ssh" /\ S!RunSupervises)
    /\ WF_ssh(part = "ssh" /\ S!RunIn) /\ WF_ssh(part = "ssh" /\ S!ChildExits)
    /\ \A s \in {"out", "err"} : /\ WF_ssh(part = "ssh" /\ S!RunOut(s))
                                /\ WF_ssh(part = "ssh" /\ S!ChildWrites(s))
    /\ WF_ssh(part = "ssh" /\ S!Authenticate) /\ WF_ssh(part = "ssh" /\ S!ClientReads)
    /\ WF_ssh(part = "ssh" /\ S!ClientLosesWire) /\ WF_ssh(part = "ssh" /\ S!ClientSends)
    /\ WF_ssh(part = "ssh" /\ S!ClientInputEnds) /\ WF_ssh(part = "ssh" /\ S!ClientReturns)

NetworkSpec ==
    /\ NetworkInit /\ [][NetworkNext]_<<part, vars, endpointsVars, netVars, ssh>>
    /\ HubFair /\ EndpointsFair /\ NetFair /\ SshFair

----------------------------------------------------------------------------
(* Properties: NothingStranded of PumpHub, ClaimHasOwner of Endpoints,     *)
(* SessionsIntact of NetPump, and these.                                   *)

\* What a remote child wrote is what its client has at the end, and the status
\* of the child gets there before the end of its output (Ssh).
RemoteChildIntact == part = "ssh" => S!OutputReachesClient /\ S!StatusPrecedesEof

\* The calls of a part, by number: what ends one, and that it has ended.
MustReturn(i) ==
    CASE part = "hub" -> CalledOff(<<t1, t2>>[i])
      [] part = "endpoints" -> AcceptCalledOff(<<c1, c2>>[i])
      [] part = "net" -> BothClosed
      [] part = "ssh" -> S!ChildGone
HasReturned(i) ==
    CASE part = "hub" -> pc[<<t1, t2>>[i]] = "idle"
      [] part = "endpoints" -> ~InLoop(<<c1, c2>>[i])
      [] part = "net" -> BothReturned
      [] part = "ssh" -> S!ClientDone

\* A call that is called off, or whose work has ended, returns: CallsEnd,
\* AcceptReturns, SessionEnds and SessionCloses of the parts.
CallsReturn == \A i \in {1, 2} : MustReturn(i) ~> HasReturned(i)

=============================================================================

------------------------------ MODULE MCHosts ------------------------------
(***************************************************************************)
(* The interpreter and the hosts around it, each alone in its behaviours:  *)
(* `part' says which one a behaviour is of; the others stay in an initial  *)
(* state.                                                                  *)
(***************************************************************************)
EXTENDS MCInterp, McpServer

VARIABLES part, host, pump, up, down, alive, rec, eng, faults, sc

EngineOff == control = <<>> /\ result = Failed /\ st = InitialState /\ calls = 0

-----------------------------------------------------------------------------
(* The MCP server *)

McpKind == [s1 |-> "status", s2 |-> "status", c1 |-> "call", c2 |-> "call"]
McpScenarios == {[requests |-> {"c1"}, edits |-> 0, chunks |-> 3],
                 [requests |-> {"c1", "c2"}, edits |-> 0, chunks |-> 0],
                 [requests |-> {"c1", "s1"}, edits |-> 2, chunks |-> 1],
                 [requests |-> {"c1", "s1", "s2"}, edits |-> 2, chunks |-> 0]}
McpRequests == DOMAIN McpKind
McpOff == ServerInit /\ limit = CHOOSE l \in McpScenarios : TRUE

-----------------------------------------------------------------------------
(* A REMOTE block *)

Quiet == [hasStdin |-> FALSE, stdin |-> <<>>, open |-> FALSE, reads |-> FALSE, writes |-> 1,
          end |-> "ok", fetch |-> <<>>, push |-> <<>>, tree |-> {},
          sameProtocol |-> TRUE, sameModules |-> TRUE, faults |-> {}]
PushTo(src, dst, live) == [src |-> src, dst |-> dst, live |-> live]
FetchOf(nest, present) == [nest |-> nest, present |-> present]
Files == [Quiet EXCEPT
    !.fetch = <<FetchOf(<<>>, TRUE), FetchOf(<<"guard">>, FALSE), FetchOf(<<"if false">>, FALSE)>>,
    !.push = <<PushTo(<<".", "f">>, <<"back">>, TRUE), PushTo(<<"d">>, <<"out">>, TRUE),
               PushTo(<<"g">>, <<"other">>, FALSE)>>,
    !.tree = {<<"f">>, <<"d">>, <<"d", "x">>}]
RemoteScenarios == {
    [Files EXCEPT !.faults = {"kill", "corrupt"}, !.writes = 2],
    [Files EXCEPT !.faults = {"cancel", "fs", "header", "spawn", "fetch"}],
    [Files EXCEPT !.end = "exit"],
    [Files EXCEPT !.end = "fail", !.tree = {<<"f">>}],
    [Quiet EXCEPT !.sameProtocol = FALSE],
    [Quiet EXCEPT !.sameModules = FALSE],
    [Quiet EXCEPT !.fetch = <<FetchOf(<<>>, FALSE)>>],
    [Quiet EXCEPT !.push = <<PushTo(<<"a", "..", "..", "f">>, <<"b">>, TRUE)>>],
    [Quiet EXCEPT !.hasStdin = TRUE, !.stdin = <<"i1", "i2">>, !.reads = TRUE, !.writes = 2,
                  !.faults = {"kill"}],
    [Quiet EXCEPT !.hasStdin = TRUE, !.stdin = <<"i1">>, !.open = TRUE, !.writes = 2,
                  !.faults = {"cancel", "kill"}]}
R == INSTANCE Remote WITH Scenarios <- RemoteScenarios
remote == <<host, pump, up, down, alive, rec, eng, faults, sc>>
RemoteOff == R!Init /\ sc = [Quiet EXCEPT !.sameModules = FALSE]

-----------------------------------------------------------------------------
HostsInit ==
    \/ part = "engine" /\ Init /\ McpOff /\ RemoteOff
    \/ part = "mcp" /\ EngineOff /\ ServerInit /\ RemoteOff
    \/ part = "remote" /\ EngineOff /\ McpOff /\ R!Init

HostsNext ==
    \/ part = "engine" /\ Next /\ UNCHANGED <<part, serverVars, remote>>
    \/ part = "mcp" /\ ServerNext /\ UNCHANGED <<part, vars, remote>>
    \/ part = "remote" /\ R!Next /\ UNCHANGED <<part, vars, serverVars>>

HostsSpec ==
    /\ HostsInit /\ [][HostsNext]_<<part, vars, serverVars, remote>>
    /\ WF_vars(part = "engine" /\ Interpret) /\ WF_vars(part = "engine" /\ DeadlineFires)
    /\ \A r \in DOMAIN McpKind : WF_serverVars(part = "mcp" /\ (Report(r) \/ Find(r)))
    /\ \A r \in {"c1", "c2"} : /\ WF_serverVars(part = "mcp" /\ LockSession(r))
                              /\ WF_serverVars(part = "mcp" /\ ToolReturns(r))
                              /\ WF_serverVars(part = "mcp" /\ AnswerCall(r))
                              /\ WF_serverVars(part = "mcp" /\ Forward(r))
    /\ WF_serverVars(part = "mcp" /\ Watcher)
    /\ WF_remote(part = "remote" /\ R!HostStep) /\ WF_remote(part = "remote" /\ R!PumpStep)
    /\ WF_remote(part = "remote" /\ R!ReaderStep)
    /\ WF_remote(part = "remote" /\ R!EngineStep)
    /\ WF_remote(part = "remote" /\ R!EmitterStep)

-----------------------------------------------------------------------------
(* Properties: those of Interp, CallStreamIntact and GenerationDetectsSwap *)
(* of McpServer, and these of the hosts.                                   *)

TypesOK ==
    /\ part = "engine" => TypeOK
    /\ part = "mcp" => ServerTypeOK
    /\ part = "remote" => R!TypeOK

\* A REMOTE block that succeeds has done on the host exactly what the guest's
\* script did, what the host observed wins over what the guest says, and a
\* session in which nothing fails is told how its script ended (Remote).
BlockIsHonest == R!SuccessIsIntact /\ R!HostWins /\ R!HonestSessionTold

\* Every request is answered, an edit is served, a block ends.
HostsMakeProgress ==
    /\ part = "mcp" => EveryRequestAnswered
    /\ part = "mcp" => EditIsServed
    /\ part = "remote" => R!BlockEnds
=============================================================================

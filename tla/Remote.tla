------------------------------- MODULE Remote -------------------------------
(***************************************************************************)
(* A REMOTE block: the host step (oxdock-core exec/remote.rs), its         *)
(* transport session (oxdock-net-plugin remote/session.rs) and the guest   *)
(* (oxdock-cli serve.rs) at the two ends of a pair of byte pipes.          *)
(*                                                                         *)
(* Bytes are symbols: a section is a length "len" and one body symbol, the *)
(* fetch tar two symbols, "X" a byte the transport damaged.  A digest is   *)
(* the bytes it was computed over.  Paths are sequences of names, and the  *)
(* push tar the sequence of its entries.                                   *)
(***************************************************************************)
EXTENDS Naturals, Sequences, SequencesExt, FiniteSets

CONSTANTS
    Scenarios, \* what the block declares, what the guest's script does, and
               \* the faults that may happen (see MCRemote)
    None

VARIABLES
    host,   \* the step and its MuxioSession
    pump,   \* the stdin pump thread, and what is left in the stdin pipe
    up,     \* request frames in flight to the guest
    down,   \* response items in flight to the host
    alive,  \* the transport process runs
    rec,    \* the guest's GuestExec record
    eng,    \* the guest's engine, sinks and emitter
    faults, \* the faults that happened
    sc      \* the scenario, constant

vars == <<host, pump, up, down, alive, rec, eng, faults, sc>>

ScriptText == "S"
Descriptor == "D"
Tar == <<"T1", "T2">>
Section(body) == <<"len", body>>
Item(tag, bytes, json, tar) == [tag |-> tag, bytes |-> bytes, json |-> json, tar |-> tar]
ResultItem(json, tar) == Item("result", <<>>, json, tar)
FinalItem == Item("final", <<>>, None, <<>>)

\* `split_prefixed': what arrived, or None while the frame is incomplete.
\* Text read as a length is longer than anything that follows.
SplitPrefixed(buf) ==
    IF Len(buf) < 2 \/ Head(buf) # "len" THEN None
    ELSE [section |-> buf[2], rest |-> SubSeq(buf, 3, Len(buf))]

NewExec == [head |-> <<>>, descriptor |-> None, left |-> 0, fetched |-> <<>>,
            scriptHead |-> <<>>, script |-> None, pending |-> <<>>,
            backend |-> FALSE, started |-> FALSE]

Init ==
    /\ sc \in Scenarios
    /\ host = [pc |-> "start", out |-> <<>>, err |-> <<>>, json |-> None, tar |-> <<>>,
               todo |-> <<>>, applied |-> <<>>, result |-> None]
    /\ pump = [pc |-> "off", fed |-> 0, cancelled |-> FALSE]
    /\ up = <<>> /\ down = <<>> /\ alive = FALSE
    /\ rec = None
    /\ eng = [pc |-> "idle", ran |-> None, stdin |-> <<>>, closed |-> FALSE, got |-> <<>>,
              out |-> <<>>, err |-> <<>>, outPos |-> 0, errPos |-> 0,
              emit |-> "off", seen |-> FALSE]
    /\ faults = {}

May(f) == f \in sc.faults /\ f \notin faults
Fail(h) == [h EXCEPT !.pc = "teardown", !.result = "error"]

-----------------------------------------------------------------------------
(* The host: before the session *)

\* `collect_transfer_decls' gives each declaration its nesting; IF on a
\* literal false prunes its subtree.
Dead(d) == \E i \in DOMAIN d.nest : d.nest[i] = "if false"
Unconditional(d) == d.nest = <<>>

\* `resolve_fetch_entries': a missing source is an error unless the
\* declaration is under a guard or control flow.
FetchesResolve == \A i \in DOMAIN sc.fetch :
    LET d == sc.fetch[i] IN ~Dead(d) /\ Unconditional(d) => d.present

\* `run_remote_block' up to `run_remote': the runner and the header are looked
\* up, the declarations collected and their arguments resolved.
Intercept ==
    /\ host.pc = "start"
    /\ \/ /\ FetchesResolve
          /\ host' = [host EXCEPT !.pc = "spawn"]
          /\ UNCHANGED faults
       \/ /\ ~FetchesResolve \/ May("header")
          /\ host' = [host EXCEPT !.pc = "done", !.result = "error"]
          /\ faults' = faults \cup {"header"}
    /\ UNCHANGED <<pump, up, down, alive, rec, eng, sc>>

\* `spawn_transport'.
Spawn ==
    /\ host.pc = "spawn"
    /\ \/ /\ host' = [host EXCEPT !.pc = "hello"]
          /\ alive' = TRUE
          /\ UNCHANGED faults
       \/ /\ May("spawn")
          /\ host' = [host EXCEPT !.pc = "done", !.result = "error"]
          /\ faults' = faults \cup {"spawn"}
          /\ UNCHANGED alive
    /\ UNCHANGED <<pump, up, down, rec, eng, sc>>

-----------------------------------------------------------------------------
(* The host: the session *)

\* `roundtrip' sends the hello and collects the verdict.
Hello ==
    /\ host.pc = "hello"
    /\ host' = [host EXCEPT !.pc = "verdict"]
    /\ up' = Append(up, [k |-> "hello", b |-> <<>>])
    /\ UNCHANGED <<pump, down, alive, rec, eng, faults, sc>>

\* The verdict is checked before any script byte ships: acceptance, protocol
\* digest, language surface.  A dead transport gives no verdict to decode.
CheckVerdict ==
    /\ host.pc = "verdict"
    /\ \/ /\ down # <<>>
          /\ down' = Tail(down)
          /\ host' = IF Head(down).json.accepted /\ Head(down).json.modules
                     THEN [host EXCEPT !.pc = "stage"] ELSE Fail(host)
       \/ /\ down = <<>> /\ ~alive
          /\ host' = Fail(host)
          /\ UNCHANGED down
    /\ UNCHANGED <<pump, up, alive, rec, eng, faults, sc>>

Frame(b) == [k |-> "bytes", b |-> b]
EndFrame == [k |-> "end", b |-> <<>>]

\* `stage_fetch' opens and packs the files resolved earlier, which may have
\* gone since.
StageFetch ==
    /\ host.pc = "stage"
    /\ \/ host' = [host EXCEPT !.pc = "ship"] /\ UNCHANGED faults
       \/ May("fetch") /\ host' = Fail(host) /\ faults' = faults \cup {"fetch"}
    /\ UNCHANGED <<pump, up, down, alive, rec, eng, sc>>

\* The request sections in order.  With a stdin pipe the
\* pump owns the end of the stream; without, it ends at once.
Ship ==
    /\ host.pc = "ship"
    /\ IF alive
       THEN /\ host' = [host EXCEPT !.pc = "check"]
            /\ up' = up \o <<Frame(Section(Descriptor)), Frame(Tar), Frame(Section(ScriptText))>>
                        \o IF sc.hasStdin THEN <<>> ELSE <<EndFrame>>
            /\ pump' = IF sc.hasStdin THEN [pump EXCEPT !.pc = "poll"] ELSE pump
       ELSE /\ host' = Fail(host)
            /\ UNCHANGED <<up, pump>>
    /\ UNCHANGED <<down, alive, rec, eng, faults, sc>>

\* `check_cancelled', between two response items only.
CheckCancelled ==
    /\ host.pc = "check"
    /\ host' = IF "cancel" \in faults THEN Fail(host) ELSE [host EXCEPT !.pc = "wait"]
    /\ UNCHANGED <<pump, up, down, alive, rec, eng, faults, sc>>

\* `on_response_item': stdout is hashed and routed, the first complete result
\* section is the result, what follows it the push tar.
OnResponseItem(item) ==
    CASE item.tag = "out" -> [host EXCEPT !.out = @ \o item.bytes]
      [] item.tag = "err" -> [host EXCEPT !.err = @ \o item.bytes]
      [] item.tag = "result" -> IF host.json = None THEN [host EXCEPT !.json = item.json]
                                ELSE [host EXCEPT !.tar = @ \o item.tar]

Respond ==
    /\ host.pc = "wait" /\ down # <<>> /\ Head(down).tag # "final"
    /\ down' = Tail(down)
    /\ host' = [OnResponseItem(Head(down)) EXCEPT !.pc = "check"]
    /\ UNCHANGED <<pump, up, alive, rec, eng, faults, sc>>

\* `map_push_path': the first declaration the path is or lies under.
NormalizePush(p) == IF p # <<>> /\ Head(p) = "." THEN Tail(p) ELSE p
MapPushPath(path) ==
    LET under == {i \in DOMAIN sc.push : IsPrefix(NormalizePush(sc.push[i].src), path)}
        d == sc.push[CHOOSE i \in under : \A j \in under : i <= j]
    IN  IF under = {} THEN None
        ELSE d.dst \o SubSeq(path, Len(NormalizePush(d.src)) + 1, Len(path))

\* Mutants: a digest is not compared.
FinishExecTrustsOutput(h) ==
    IF h.json = None \/ ~h.json.intact THEN Fail(h)
    ELSE IF ~h.json.ok THEN [Fail(h) EXCEPT !.result = IF h.json.exit THEN "exit" ELSE "error"]
    ELSE IF h.json.script # ScriptText \/ h.json.tar # h.tar THEN Fail(h)
    ELSE [h EXCEPT !.pc = "apply", !.todo = h.tar]

FinishExecTrustsTar(h) ==
    IF h.json = None \/ ~h.json.intact THEN Fail(h)
    ELSE IF ~h.json.ok THEN [Fail(h) EXCEPT !.result = IF h.json.exit THEN "exit" ELSE "error"]
    ELSE IF h.json.script # ScriptText \/ h.json.stdout # h.out THEN Fail(h)
    ELSE [h EXCEPT !.pc = "apply", !.todo = h.tar]

\* `finish_exec': a failed guest relays its EXIT code; a successful one is
\* believed only if script, stdout and tar are the bytes each side saw.
FinishExec(h) ==
    IF h.json = None \/ ~h.json.intact THEN Fail(h)
    ELSE IF ~h.json.ok THEN [Fail(h) EXCEPT !.result = IF h.json.exit THEN "exit" ELSE "error"]
    ELSE IF h.json.script # ScriptText \/ h.json.stdout # h.out \/ h.json.tar # h.tar THEN Fail(h)
    ELSE [h EXCEPT !.pc = "apply", !.todo = h.tar]

\* The response stream ended, or the transport did.
ResponseEnds ==
    /\ host.pc = "wait"
    /\ \/ down # <<>> /\ Head(down).tag = "final"
       \/ down = <<>> /\ ~alive
    /\ host' = FinishExec(host)
    /\ UNCHANGED <<pump, up, down, alive, rec, eng, faults, sc>>

\* `apply_push_file', `apply_push_dir': the entry is written at its place.
Placed(path, dst) == <<path, dst>>

\* `apply_push_tar' places one entry after the other as it unpacks them.
ApplyEntry ==
    /\ host.pc = "apply" /\ host.todo # <<>>
    /\ LET dst == MapPushPath(Head(host.todo))
       IN  \/ /\ dst # None
              /\ host' = [host EXCEPT !.applied = Append(@, Placed(Head(host.todo), dst)),
                                      !.todo = Tail(@)]
              /\ UNCHANGED faults
           \/ /\ dst = None \/ May("fs")
              /\ host' = Fail(host)
              /\ faults' = IF dst = None THEN faults ELSE faults \cup {"fs"}
    /\ UNCHANGED <<pump, up, down, alive, rec, eng, sc>>

Applied ==
    /\ host.pc = "apply" /\ host.todo = <<>>
    /\ host' = [host EXCEPT !.pc = "teardown", !.result = "ok"]
    /\ UNCHANGED <<pump, up, down, alive, rec, eng, faults, sc>>

\* `run' after `run_inner', on every path: the stdin pipe is cancelled and the
\* pump told to stop ...
Teardown ==
    /\ host.pc = "teardown"
    /\ host' = [host EXCEPT !.pc = "join"]
    /\ pump' = [pump EXCEPT !.cancelled = pump.pc # "off"]
    /\ UNCHANGED <<up, down, alive, rec, eng, faults, sc>>

\* Mutant: dropping the client is thought to kill the transport.
JoinWithoutKill ==
    /\ host.pc = "join" /\ pump.pc \in {"off", "gone"}
    /\ host' = [host EXCEPT !.pc = "done"]
    /\ UNCHANGED <<pump, up, down, alive, rec, eng, faults, sc>>

\* ... it is joined, and the transport killed and reaped.
JoinAndKill ==
    /\ host.pc = "join" /\ pump.pc \in {"off", "gone"}
    /\ host' = [host EXCEPT !.pc = "done"]
    /\ alive' = FALSE
    /\ UNCHANGED <<pump, up, down, rec, eng, faults, sc>>

-----------------------------------------------------------------------------
(* The host: the stdin pump *)

PumpStops == "cancel" \in faults \/ host.pc \in {"join", "done"}

\* `spawn_stdin_pump': one turn of the loop, the flags before each read.
PumpPolls ==
    /\ pump.pc = "poll"
    /\ pump' = [pump EXCEPT !.pc = IF PumpStops THEN "gone" ELSE "read"]
    /\ UNCHANGED <<host, up, down, alive, rec, eng, faults, sc>>

\* `read_pump_chunk' returns bytes, or end of file once the writers left or
\* the pipe was cancelled.
PumpReads ==
    /\ pump.pc = "read"
    /\ \/ /\ pump.fed < Len(sc.stdin)
          /\ pump' = [pump EXCEPT !.pc = IF alive THEN "poll" ELSE "gone", !.fed = @ + 1]
          /\ up' = IF alive THEN Append(up, Frame(<<sc.stdin[pump.fed + 1]>>)) ELSE up
       \/ /\ (pump.fed = Len(sc.stdin) /\ ~sc.open) \/ pump.cancelled
          /\ pump' = [pump EXCEPT !.pc = "gone"]
          /\ up' = IF alive THEN Append(up, EndFrame) ELSE up
    /\ UNCHANGED <<host, down, alive, rec, eng, faults, sc>>

-----------------------------------------------------------------------------
(* The guest: the server's reader thread *)

Answer(items) == down' = down \o items

\* `send_result' of a failure, with no push tar.
Failure(script, stdout) ==
    <<ResultItem([intact |-> TRUE, ok |-> FALSE, exit |-> FALSE, script |-> script,
                  stdout |-> stdout, tar |-> <<>>], <<>>), FinalItem>>

\* `answer_handshake': the guest compares the protocol digest only.
AnswerHandshake ==
    /\ alive /\ up # <<>> /\ Head(up).k = "hello"
    /\ up' = Tail(up)
    /\ Answer(<<Item("verdict", <<>>, [accepted |-> sc.sameProtocol, modules |-> sc.sameModules],
                     <<>>)>>)
    /\ UNCHANGED <<host, pump, alive, rec, eng, faults, sc>>

\* `feed_exec' takes a chunk through the sections, each stage handing what it
\* did not use to the next; `rest' is None where the code returns early.
FeedDescriptor(r, bytes) ==
    LET head == r.head \o bytes
        split == SplitPrefixed(head)
    IN  CASE r.descriptor # None -> [r |-> r, rest |-> bytes]
          [] r.descriptor = None /\ split = None ->
               [r |-> [r EXCEPT !.head = head], rest |-> None]
          [] OTHER -> [r |-> [r EXCEPT !.head = head, !.descriptor = split.section,
                                       !.left = Len(Tar)],
                       rest |-> split.rest]

FeedTar(r, bytes) ==
    LET take == IF Len(bytes) < r.left THEN Len(bytes) ELSE r.left
    IN  [r |-> [r EXCEPT !.fetched = @ \o SubSeq(bytes, 1, take), !.left = @ - take],
         rest |-> SubSeq(bytes, take + 1, Len(bytes))]

FeedScript(r, bytes) ==
    LET head == r.scriptHead \o bytes
        split == SplitPrefixed(head)
    IN  CASE r.script # None \/ r.left > 0 \/ bytes = <<>> -> [r |-> r, rest |-> bytes]
          [] split = None -> [r |-> [r EXCEPT !.scriptHead = head], rest |-> None]
          [] OTHER -> [r |-> [r EXCEPT !.scriptHead = head, !.script = split.section],
                       rest |-> split.rest]

FeedExec(r, bytes) ==
    LET d == FeedDescriptor(r, bytes)
        t == FeedTar(d.r, d.rest)
        s == FeedScript(t.r, t.rest)
    IN  IF d.rest = None THEN d ELSE s

\* `start_exec': the fetch is verified and unpacked, the engine starts with
\* the input that came early.
StartExec(r) ==
    IF r.fetched # Tar
    THEN /\ rec' = [NewExec EXCEPT !.started = TRUE]
         /\ Answer(Failure(None, None))
         /\ UNCHANGED eng
    ELSE /\ rec' = [NewExec EXCEPT !.started = TRUE, !.backend = TRUE]
         /\ eng' = [eng EXCEPT !.pc = "run", !.ran = r.script, !.stdin = r.pending,
                               !.emit = "drain"]
         /\ UNCHANGED down

\* `exec_event' on a payload chunk: a prefix of a frame, as the framing cuts it.
PayloadChunk ==
    /\ alive /\ up # <<>> /\ Head(up).k = "bytes"
    /\ \E n \in 1..Len(Head(up).b) :
          LET bytes == SubSeq(Head(up).b, 1, n)
              left == SubSeq(Head(up).b, n + 1, Len(Head(up).b))
              fed == FeedExec(IF rec = None THEN NewExec ELSE rec, bytes)
              tail == IF fed.rest = None THEN <<>> ELSE fed.rest
          IN  /\ up' = (IF left = <<>> THEN <<>> ELSE <<Frame(left)>>) \o Tail(up)
              /\ CASE fed.r.descriptor = "X" ->
                       rec' = None /\ Answer(Failure(None, None)) /\ UNCHANGED eng
                   [] fed.r.descriptor # "X" /\ ~fed.r.started /\ fed.r.script # None ->
                       StartExec([fed.r EXCEPT !.pending = @ \o tail])
                   [] OTHER ->
                       /\ rec' = IF fed.r.backend THEN fed.r
                                 ELSE [fed.r EXCEPT !.pending = @ \o tail]
                       /\ eng' = IF fed.r.backend THEN [eng EXCEPT !.stdin = @ \o tail] ELSE eng
                       /\ UNCHANGED down
    /\ UNCHANGED <<host, pump, alive, faults, sc>>

\* `exec_event' on the end of the request: end of file on the guest's stdin.
RequestEnds ==
    /\ alive /\ up # <<>> /\ Head(up).k = "end"
    /\ up' = Tail(up)
    /\ IF rec # None /\ rec.backend
       THEN eng' = [eng EXCEPT !.closed = TRUE] /\ rec' = [rec EXCEPT !.backend = FALSE]
       ELSE UNCHANGED <<rec, eng>>
    /\ UNCHANGED <<host, pump, down, alive, faults, sc>>

-----------------------------------------------------------------------------
(* The guest: the engine and the emitter *)

EngineStep ==
    /\ alive /\ eng.pc = "run"
    /\ LET written == Len(eng.out) + Len(eng.err)
       IN  \/ /\ eng.stdin # <<>> /\ sc.reads
              /\ eng' = [eng EXCEPT !.got = Append(@, Head(eng.stdin)), !.stdin = Tail(@)]
           \/ /\ written < sc.writes
              /\ \/ eng' = [eng EXCEPT !.out = Append(@, "o")]
                 \/ eng' = [eng EXCEPT !.err = Append(@, "e")]
           \/ /\ written = sc.writes
              /\ sc.reads => eng.closed /\ eng.stdin = <<>>
              /\ eng' = [eng EXCEPT !.pc = "finished"]
    /\ UNCHANGED <<host, pump, up, down, alive, rec, faults, sc>>

\* Mutant: the position moves past what was sent.
DrainSinksPast ==
    /\ alive /\ eng.emit = "drain"
    /\ Answer(<<Item("out", SubSeq(eng.out, eng.outPos + 1, Len(eng.out)), None, <<>>)>>)
    /\ eng' = [eng EXCEPT !.outPos = Len(eng.out) + 1, !.errPos = Len(eng.err), !.emit = "check"]
    /\ UNCHANGED <<host, pump, up, alive, rec, faults, sc>>

\* The emitter sends what the sinks gained since its last turn.
DrainSinks ==
    /\ alive /\ eng.emit = "drain"
    /\ LET out == SubSeq(eng.out, eng.outPos + 1, Len(eng.out))
           err == SubSeq(eng.err, eng.errPos + 1, Len(eng.err))
       IN  Answer((IF out = <<>> THEN <<>> ELSE <<Item("out", out, None, <<>>)>>)
                  \o IF err = <<>> THEN <<>> ELSE <<Item("err", err, None, <<>>)>>)
    /\ eng' = [eng EXCEPT !.outPos = Len(eng.out), !.errPos = Len(eng.err), !.emit = "check"]
    /\ UNCHANGED <<host, pump, up, alive, rec, faults, sc>>

\* Mutant: the emitter leaves as soon as the engine has finished.
CheckEngineOnce ==
    /\ alive /\ eng.emit = "check"
    /\ eng' = [eng EXCEPT !.emit = IF eng.pc = "finished" THEN "pack" ELSE "drain"]
    /\ UNCHANGED <<host, pump, up, down, alive, rec, faults, sc>>

\* It leaves one turn after it saw the engine finished.
CheckEngine ==
    /\ alive /\ eng.emit = "check"
    /\ eng' = IF eng.seen THEN [eng EXCEPT !.emit = "pack"]
              ELSE [eng EXCEPT !.emit = "drain", !.seen = eng.pc = "finished"]
    /\ UNCHANGED <<host, pump, up, down, alive, rec, faults, sc>>

\* `sanitize_rel': `.' disappears, `..' pops a name and fails at the root.
SanitizeRel(path) ==
    FoldLeft(LAMBDA acc, name :
               CASE acc = None -> None
                 [] acc # None /\ name = "." -> acc
                 [] acc # None /\ name = ".." -> IF acc = <<>> THEN None ELSE Front(acc)
                 [] OTHER -> Append(acc, name),
             <<>>, path)

\* `copy_transfer': the declarations that executed, in order.
Manifest == SelectSeq(sc.push, LAMBDA d : d.live)

\* `pack_manifest': every source once, directories expanded, directories before
\* files; a source that is missing, or outside the staging directory, fails.
PackManifest ==
    LET sources == {SanitizeRel(Manifest[i].src) : i \in DOMAIN Manifest}
        entries == {p \in sc.tree : \E s \in sources : s # None /\ IsPrefix(s, p)}
        dirs == {p \in entries : \E q \in sc.tree : q # p /\ IsPrefix(p, q)}
    IN  IF \E s \in sources : s = None \/ s \notin sc.tree THEN None
        ELSE SetToSeq(dirs) \o SetToSeq(entries \ dirs)

\* `run_guest_engine' after the emitter: the result, the tar, the end.
SendResult ==
    /\ alive /\ eng.emit = "pack"
    /\ eng' = [eng EXCEPT !.emit = "sent"]
    /\ Answer(IF PackManifest = None THEN Failure(eng.ran, eng.out)
              ELSE <<ResultItem([intact |-> TRUE, ok |-> sc.end = "ok", exit |-> sc.end = "exit",
                                 script |-> eng.ran, stdout |-> eng.out,
                                 tar |-> PackManifest], <<>>),
                     ResultItem(None, PackManifest), FinalItem>>)
    /\ UNCHANGED <<host, pump, up, alive, rec, faults, sc>>

-----------------------------------------------------------------------------
(* Faults *)

\* CANCEL, a TIMEOUT or a drop sets the token of the step.
Cancel ==
    /\ May("cancel") /\ host.pc # "done"
    /\ faults' = faults \cup {"cancel"}
    /\ UNCHANGED <<host, pump, up, down, alive, rec, eng, sc>>

\* The transport dies; what it had not delivered may be lost.
TransportDies ==
    /\ May("kill") /\ alive
    /\ faults' = faults \cup {"kill"}
    /\ alive' = FALSE
    /\ \E n \in 0..Len(down) : down' = SubSeq(down, 1, n)
    /\ UNCHANGED <<host, pump, up, rec, eng, sc>>

\* One payload byte is damaged on the wire (framing and lengths survive).
Damaged(item) ==
    CASE item.tag \in {"out", "err"} -> [item EXCEPT !.bytes[1] = "X"]
      [] item.tag = "result" /\ item.json # None -> [item EXCEPT !.json.intact = FALSE]
      [] OTHER -> [item EXCEPT !.tar = IF @ = <<>> THEN @ ELSE Append(Front(@), <<"X">>)]

Corrupt ==
    /\ May("corrupt") /\ alive
    /\ \/ /\ up # <<>> /\ Head(up).k = "bytes"
          /\ \E i \in DOMAIN Head(up).b :
                /\ Head(up).b[i] # "len"
                /\ up' = [up EXCEPT ![1].b[i] = "X"]
          /\ UNCHANGED down
       \/ /\ down # <<>> /\ Head(down).tag \in {"out", "err", "result"}
          /\ down' = [down EXCEPT ![1] = Damaged(@)]
          /\ UNCHANGED up
    /\ faults' = faults \cup {"corrupt"}
    /\ UNCHANGED <<host, pump, alive, rec, eng, sc>>

-----------------------------------------------------------------------------
HostStep == Intercept \/ Spawn \/ Hello \/ CheckVerdict \/ StageFetch \/ Ship \/ CheckCancelled
            \/ Respond \/ ResponseEnds \/ ApplyEntry \/ Applied \/ Teardown \/ JoinAndKill
PumpStep == PumpPolls \/ PumpReads
ReaderStep == AnswerHandshake \/ PayloadChunk \/ RequestEnds
EmitterStep == DrainSinks \/ CheckEngine \/ SendResult
Finished == host.pc = "done" /\ UNCHANGED vars

Next == HostStep \/ PumpStep \/ ReaderStep \/ EngineStep \/ EmitterStep
        \/ Cancel \/ TransportDies \/ Corrupt \/ Finished

\* Every thread runs on; faults need not happen.
Fairness ==
    /\ WF_vars(HostStep) /\ WF_vars(PumpStep) /\ WF_vars(ReaderStep)
    /\ WF_vars(EngineStep) /\ WF_vars(EmitterStep)

Spec == Init /\ [][Next]_vars /\ Fairness
-----------------------------------------------------------------------------
\* Types; nothing but framed bytes is in flight to a guest.
TypeOK ==
    /\ host.pc \in {"start", "spawn", "hello", "verdict", "stage", "ship", "check", "wait",
                    "apply", "teardown", "join", "done"}
    /\ host.result \in {None, "ok", "error", "exit"}
    /\ pump.pc \in {"off", "poll", "read", "gone"}
    /\ \A i \in DOMAIN up : up[i].k \in {"hello", "bytes", "end"}
    /\ \A i \in DOMAIN down : down[i].tag \in {"verdict", "out", "err", "result", "final"}
    /\ eng.pc \in {"idle", "run", "finished"}
    /\ eng.outPos <= Len(eng.out) /\ eng.errPos <= Len(eng.err)
    /\ faults \subseteq sc.faults \cup {"header"}

\* Every executed `COPY --to-host' put its source where it said.
PushesLand ==
    \A d \in ToSet(Manifest) : \A p \in sc.tree :
        IsPrefix(SanitizeRel(d.src), p) =>
            \E i \in DOMAIN host.applied :
                host.applied[i] = Placed(p, d.dst \o SubSeq(p, Len(SanitizeRel(d.src)) + 1, Len(p)))

\* A block that succeeded ran the script that was shipped, delivered the
\* standard output the guest produced, and landed the pushes the guest
\* executed, whatever the transport did to the bytes.
SuccessIsIntact ==
    host.result = "ok" =>
        eng.ran = ScriptText /\ eng.pc = "finished" /\ host.out = eng.out /\ PushesLand

\* The host wins: a block that fails for the transport, the guest or a
\* cancellation applies nothing, and nothing is applied before the whole
\* answer was verified.
HostWins ==
    host.applied # <<>> =>
        /\ host.json # None /\ host.json.ok /\ host.json.tar = host.tar
        /\ host.out = eng.out
        /\ host.result \in {"error", "exit"} => "fs" \in faults

\* A session nothing goes wrong with ends as the guest's script did: it is
\* not failed by the order in which input, output and the end of the script
\* happen to arrive.
HonestSessionTold ==
    host.pc = "done" /\ faults = {} /\ sc.sameProtocol /\ sc.sameModules /\ PackManifest # None
        => host.result = CASE sc.end = "ok" -> "ok" [] sc.end = "exit" -> "exit" [] OTHER -> "error"

\* All the input the host fed the block reached the script that read it to
\* its end (serve.rs: "Stdin streams live into the running engine").
StdinReachesGuest ==
    host.result = "ok" /\ sc.reads /\ sc.hasStdin => eng.got = sc.stdin

\* Every block ends, and nothing of it outlives it: no verdict, answer or
\* input that never comes leaves the step waiting, its stdin pump has been
\* joined and its transport is dead.
BlockEnds == <>(host.pc = "done" /\ ~alive /\ pump.pc \in {"off", "gone"})

\* A cancelled block ends (remote.rs: "a blocked transport never strands the
\* pipeline").
CancelEndsBlock == "cancel" \in faults ~> host.pc = "done"
=============================================================================

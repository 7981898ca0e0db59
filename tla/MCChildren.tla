----------------------------- MODULE MCChildren -----------------------------
(***************************************************************************)
(* The byte movers on this machine for TLC: the spill buffer of a pipe,    *)
(* RUN children and the terminals of SSH sessions.  `part' says which one  *)
(* a behaviour is of; the others stay in an initial state.                 *)
(***************************************************************************)
EXTENDS SpillBuffer, Process, TLC

CONSTANT k1

VARIABLES part,
          tsetup, sup, flags, events, cell, watch, winch, host, pty, tchild, out, worker, reported, clock

----------------------------------------------------------------------------
(* RUN: one command of a task, cancelled while its leader forks; both      *)
(* killers at once; two commands; both streams; a script pipe on stdin; a  *)
(* sink that fails; live pipes used once or twice; no PATH.                *)

To(o, e) == [out |-> o, err |-> e]
Plain == [background |-> TRUE, anchored |-> TRUE, bare |-> TRUE, stdin |-> "null",
          to |-> To("stream", "inherit"), broken |-> {}, last |-> 1,
          killers |-> {"cancel"}, kids |-> {k1}, input |-> 0, output |-> 1]
Foreground == [Plain EXCEPT !.background = FALSE, !.killers = {}]
RunSetups ==
    { Plain,
      [Plain EXCEPT !.killers = {"cancel", "watcher"}, !.output = 0],
      [Plain EXCEPT !.last = 2, !.output = 0],
      [Plain EXCEPT !.last = 2, !.kids = {}, !.killers = {"watcher"}],
      [Foreground EXCEPT !.to = To("stream", "stream"), !.output = 2],
      [Foreground EXCEPT !.to = To("inherit", "inherit"), !.stdin = "stream", !.last = 2, !.input = 3],
      [Plain EXCEPT !.broken = {"out"}],
      [Foreground EXCEPT !.to = To("l1", "l1")],
      [Foreground EXCEPT !.to = To("l1", "l2"), !.last = 2],
      [Plain EXCEPT !.anchored = FALSE] }
ProcessOff == setup = Plain /\ ProcessInit

----------------------------------------------------------------------------
(* Terminals of SSH sessions. *)

Terminal == [console |-> "unix", source |-> "session", explicit |-> FALSE, input |-> "pipe",
             brokenWait |-> FALSE, brokenSink |-> FALSE, cancels |-> FALSE, chunks |-> 1, moves |-> 0]
TerminalSetups ==
    { [Terminal EXCEPT !.cancels = TRUE, !.chunks = 0],
      [Terminal EXCEPT !.console = "conpty"],
      [Terminal EXCEPT !.moves = 2, !.explicit = TRUE, !.chunks = 0],
      [Terminal EXCEPT !.brokenSink = TRUE],
      [Terminal EXCEPT !.console = "conpty", !.brokenWait = TRUE] }
Y == INSTANCE Pty WITH Setups <- TerminalSetups, Sizes <- {1, 2, 3}, Quiesce <- 2, Cap <- 3,
                       setup <- tsetup, child <- tchild
terminal == <<tsetup, sup, flags, events, cell, watch, winch, host, pty, tchild, out, worker, reported, clock>>
TerminalOff == tsetup = [Terminal EXCEPT !.brokenSink = TRUE] /\ Y!Init

----------------------------------------------------------------------------

spill == <<mode, mem, file, writePos, readPos, accepted, delivered, consumed>>

IoInit ==
    \/ part = "spill" /\ Init /\ ProcessOff /\ TerminalOff
    \/ part = "process" /\ Init /\ ProcessInit /\ TerminalOff
    \/ part = "terminal" /\ Init /\ ProcessOff /\ Y!Init

IoNext ==
    \/ part = "spill" /\ Next /\ UNCHANGED <<part, processVars, terminal>>
    \/ part = "process" /\ ProcessNext /\ UNCHANGED <<part, spill, terminal>>
    \/ part = "terminal" /\ Y!Next /\ UNCHANGED <<part, spill, processVars>>

\* The fairness of the parts: each states what it asks of its threads.
ProcessFair ==
    /\ WF_processVars(part = "process" /\ RunnerStep)
    /\ \A a \in {"cancel", "watcher", "runner"} : WF_processVars(part = "process" /\ KillStep(a))
    /\ \A k \in {"cancel", "watcher"} : WF_processVars(part = "process" /\ KillerStep(k))
    /\ \A i \in {1, 2} : /\ WF_processVars(part = "process" /\ PumpStep(i))
                         /\ WF_processVars(part = "process" /\ LeaderDies(i))

TerminalFair ==
    /\ WF_terminal(part = "terminal" /\ Y!Supervisor)
    /\ WF_terminal(part = "terminal" /\ Y!InputThread)
    /\ WF_terminal(part = "terminal" /\ Y!OutputThread)
    /\ WF_terminal(part = "terminal" /\ Y!ReaperThread)
    /\ WF_terminal(part = "terminal" /\ Y!WatchThread)
    /\ WF_terminal(part = "terminal" /\ Y!WinchThread)
    /\ WF_terminal(part = "terminal" /\ Y!Tick) /\ WF_terminal(part = "terminal" /\ Y!SleeperFires)

IoSpec ==
    /\ IoInit /\ [][IoNext]_<<part, spill, processVars, terminal>>
    /\ ProcessFair /\ TerminalFair

----------------------------------------------------------------------------
(* Properties: those of SpillBuffer, StreamsIntact and KillReachesChild of  *)
(* Process, and these.                                                     *)

\* What the child of a terminal wrote is in its sink when the call returns, and
\* its exit is reported before its output is closed (Pty).
TerminalIntact == part = "terminal" => Y!OutputIntact /\ Y!ReportPrecedesClose

\* A killed RUN ends; a terminal session ends with its child or its caller:
\* KilledRunEnds and SessionReturns of the parts.
CalledOff(i) ==
    CASE part = "process" -> child[i].killed
      [] part = "terminal" -> Y!CalledOff
      [] OTHER -> FALSE
Returned(i) ==
    CASE part = "process" -> Ended
      [] OTHER -> Y!Returned
CallsReturn == \A i \in {1, 2} : CalledOff(i) ~> Returned(i)

\* A window change reaches the terminal of a running session.
ResizeApplied == Y!ResizeApplied

=============================================================================

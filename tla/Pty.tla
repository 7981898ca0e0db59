-------------------------------- MODULE Pty --------------------------------
(***************************************************************************)
(* One child on a pseudo terminal: run_pty_session and the threads it      *)
(* starts (crates/oxdock-pty/src/run.rs), the window size cell (size.rs),  *)
(* the drain policy (drain.rs) and the host terminal as input (host.rs),   *)
(* as RUN under WITH_IO [tty] and SSH_PTY_RUN call it.                     *)
(*                                                                         *)
(* The calling thread supervises: it takes events from a queue that the    *)
(* input worker, the output worker, the reaper, the resize watcher, the    *)
(* host window watch and the drain sleeper fill.  On Unix the kernel hangs *)
(* the terminal up when the child exits, so the output ends by itself; a   *)
(* ConPTY keeps its output open until the console is released.             *)
(***************************************************************************)
EXTENDS Integers, Sequences, FiniteSets

CONSTANTS
    Setups,     \* how the session is called, and bounds: see SetupOK
    Sizes,      \* window sizes, 1..n
    Quiesce,    \* DRAIN_QUIESCE_MS, in ticks
    Cap         \* DRAIN_CAP_MS, in ticks

VARIABLES
    setup,   \* constant
    sup,     \* the supervisor: pc and the locals of its loop
    flags,   \* cancelled (by the caller), cancel, peerDone, stop, woken
    events,  \* the queue of PtyEvents
    cell,    \* the size source: size, seq
    watch,   \* the resize watcher: pc, seen
    winch,   \* the host window watch: pc, pending signal, probed size, closed
    host,    \* size and mode of the host's terminal
    pty,     \* size of the child's terminal
    child,   \* "none", "running", "exited"
    out,     \* chunks: wrote (by the child), ready (in the master), read, sunk
    worker,  \* pc of the input worker, the output worker and the reaper
    reported,\* on_exit has run
    clock    \* ticks since the exit was observed: now, activity, sleepers

vars == <<setup, sup, flags, events, cell, watch, winch, host, pty, child, out, worker,
          reported, clock>>

SetupOK(s) ==
    /\ s.console \in {"unix", "conpty"}
    /\ s.source \in {"host", "fixed", "session"} \* WatchSize unpinned, pinned; SSH cell
    /\ s.explicit \in BOOLEAN                    \* SSH_PTY_RUN got rows and columns
    /\ s.input \in {"closed", "host", "pipe"}
    /\ s.brokenWait \in BOOLEAN                  \* waiting for the child fails
    /\ s.brokenSink \in BOOLEAN                  \* writes to the output fail
    /\ s.cancels \in BOOLEAN                     \* bounds: the caller may cancel,
    /\ s.chunks \in Nat /\ s.moves \in Nat       \* output chunks, window moves

\* Only SSH_PTY_RUN passes on_exit and on_output_drained.
Hooked == setup.source = "session"
ReadsHost == setup.input = "host"

\* WatchSize and the session's cell are a mutex and a condition variable;
\* the watcher holds the mutex while it decides to sleep.
CellFree == watch.pc # "holding"
Notified == [watch EXCEPT !.pc = IF @ = "parked" THEN "check" ELSE @]

Init ==
    /\ setup \in Setups /\ SetupOK(setup)
    /\ sup = [pc |-> "start", size |-> 1, master |-> FALSE, applied |-> 0, first |-> 0,
              exit |-> FALSE, gen |-> 0, inDone |-> FALSE, outDone |-> FALSE,
              failed |-> FALSE, hook |-> IF Hooked THEN "armed" ELSE "none"]
    /\ flags = [cancelled |-> FALSE, cancel |-> FALSE, peerDone |-> FALSE,
                stop |-> FALSE, woken |-> FALSE]
    /\ events = <<>>
    /\ cell = [size |-> 1, seq |-> 0]
    /\ watch = [pc |-> "off", seen |-> 0]
    /\ winch = [pc |-> "off", pending |-> FALSE, size |-> 1, closed |-> FALSE]
    /\ host = [size |-> 1, mode |-> "cooked"]
    /\ pty = 1
    /\ child = "none"
    /\ out = [wrote |-> 0, ready |-> 0, read |-> 0, sunk |-> 0]
    /\ worker = [in |-> "off", out |-> "off", reap |-> "off"]
    /\ reported = FALSE
    /\ clock = [now |-> 0, activity |-> 0, sleepers |-> {}]

-----------------------------------------------------------------------------
(* The start of a session *)

\* acquire_host_stdin puts the terminal in raw mode for the reader's life;
\* then the initial size is resolved: pinned sides, the host's window, or
\* what the session's client last announced.
ResolveSize ==
    /\ sup.pc = "start"
    /\ host' = IF ReadsHost THEN [host EXCEPT !.mode = "raw"] ELSE host
    /\ sup' = [sup EXCEPT !.pc = "seed",
                          !.size = CASE setup.source = "host" -> host.size
                                     [] setup.source = "session" /\ ~setup.explicit -> cell.size
                                     [] OTHER -> 1]
    /\ UNCHANGED <<setup, flags, events, cell, watch, winch, pty, child, out, worker, reported, clock>>

\* WatchSize::following_host probes the host once more for the cell.
SeedCell ==
    /\ sup.pc = "seed"
    /\ sup' = [sup EXCEPT !.pc = "open"]
    /\ cell' = IF setup.source = "host" THEN [cell EXCEPT !.size = host.size] ELSE cell
    /\ UNCHANGED <<setup, flags, events, watch, winch, host, pty, child, out, worker, reported, clock>>

\* A failed openpty or spawn drops the request, its input reader included.
OpenFails ==
    /\ sup.pc = "open"
    /\ sup' = [sup EXCEPT !.pc = "error"]
    /\ host' = [host EXCEPT !.mode = "cooked"]
    /\ UNCHANGED <<setup, flags, events, cell, watch, winch, pty, child, out, worker, reported, clock>>

OpenPty ==
    /\ sup.pc = "open"
    /\ sup' = [sup EXCEPT !.pc = "threads", !.master = TRUE]
    /\ pty' = sup.size
    /\ child' = "running"
    /\ UNCHANGED <<setup, flags, events, cell, watch, winch, host, out, worker, reported, clock>>

\* Sequence numbers up to the current one count as applied.
StartThreads ==
    /\ sup.pc = "threads"
    /\ sup' = [sup EXCEPT !.pc = "signals", !.applied = cell.seq, !.first = cell.seq,
                          !.inDone = setup.input = "closed"]
    /\ watch' = [pc |-> "check", seen |-> cell.seq]
    /\ worker' = [in |-> IF setup.input = "closed" THEN "off" ELSE "check",
                  out |-> "check", reap |-> "wait"]
    /\ UNCHANGED <<setup, flags, events, cell, winch, host, pty, child, out, reported, clock>>

WatchSignals ==
    /\ sup.pc = "signals"
    /\ sup' = [sup EXCEPT !.pc = "loop"]
    /\ winch' = [winch EXCEPT !.pc = IF setup.source = "host" THEN "wait" ELSE "off"]
    /\ UNCHANGED <<setup, flags, events, cell, watch, host, pty, child, out, worker, reported, clock>>

-----------------------------------------------------------------------------
(* The supervisor's loop *)

\* The wake hook of the input: a pipe and the Unix reader latch it; the
\* Windows reader latches it too, but looks only before it blocks, and
\* CancelIoEx aborts only a read that is already blocked.
Wakes(w) ==
    IF ReadsHost /\ setup.console = "conpty" /\ w.in = "blocked"
    THEN [w EXCEPT !.in = "nudge"] ELSE w

Head1(kind) == sup.pc = "loop" /\ events # <<>> /\ Head(events).kind = kind

TakeDone ==
    /\ Head1("done")
    /\ events' = Tail(events)
    /\ LET e == Head(events) IN
       sup' = [sup EXCEPT !.pc = "check", !.failed = @ \/ e.failed,
                          !.inDone = @ \/ e.of = "in", !.outDone = @ \/ e.of = "out"]
    /\ UNCHANGED <<setup, flags, cell, watch, winch, host, pty, child, out, worker, reported, clock>>

Later(a, b) == IF a >= b THEN a ELSE b

\* quiet_remaining_ms and drain_overdue; the clock starts at the exit.
QuietRemaining == Later(1, Quiesce - (clock.now - clock.activity))
DrainOverdue == clock.now - clock.activity >= Quiesce \/ clock.now >= Cap
Sleeper(gen) == [gen |-> gen, at |-> clock.now + QuietRemaining]

\* Mutant: the input worker is not woken.
TakeExitedUnwoken ==
    /\ Head1("exited")
    /\ events' = Tail(events)
    /\ sup' = [sup EXCEPT !.pc = "check", !.exit = TRUE, !.gen = @ + 1]
    /\ clock' = [clock EXCEPT !.sleepers = @ \cup {Sleeper(sup.gen + 1)}]
    /\ UNCHANGED <<setup, flags, cell, watch, winch, host, pty, child, out, worker, reported>>

\* Mutant: the console is released as soon as the child is gone.
TakeExitedReleasing ==
    /\ Head1("exited")
    /\ events' = Tail(events)
    /\ sup' = [sup EXCEPT !.pc = "check", !.exit = TRUE, !.gen = @ + 1, !.master = FALSE]
    /\ flags' = [flags EXCEPT !.woken = TRUE]
    /\ worker' = Wakes(worker)
    /\ UNCHANGED <<setup, cell, watch, winch, host, pty, child, out, reported, clock>>

TakeExited ==
    /\ Head1("exited")
    /\ events' = Tail(events)
    /\ sup' = [sup EXCEPT !.pc = "check", !.exit = TRUE, !.gen = @ + 1]
    /\ flags' = [flags EXCEPT !.woken = TRUE]
    /\ worker' = Wakes(worker)
    /\ clock' = [clock EXCEPT !.sleepers = @ \cup {Sleeper(sup.gen + 1)}]
    /\ UNCHANGED <<setup, cell, watch, winch, host, pty, child, out, reported>>

\* Mutant: the size is not applied once the cell has moved twice.
TakeResizeOnce ==
    /\ Head1("resize") /\ CellFree
    /\ events' = Tail(events)
    /\ sup' = [sup EXCEPT !.pc = "check", !.applied = sup.first + 1]
    /\ pty' = IF sup.applied = sup.first /\ sup.master THEN cell.size ELSE pty
    /\ UNCHANGED <<setup, flags, cell, watch, winch, host, child, out, worker, reported, clock>>

TakeResize ==
    /\ Head1("resize") /\ CellFree
    /\ events' = Tail(events)
    /\ sup' = [sup EXCEPT !.pc = "check", !.applied = cell.seq]
    /\ pty' = IF cell.seq # sup.applied /\ sup.master THEN cell.size ELSE pty
    /\ UNCHANGED <<setup, flags, cell, watch, winch, host, child, out, worker, reported, clock>>

\* A stale deadline, or a finished output worker: nothing to release.
DrainIgnored ==
    /\ Head1("drain")
    /\ Head(events).gen # sup.gen \/ ~sup.master \/ sup.outDone
    /\ events' = Tail(events)
    /\ UNCHANGED <<setup, sup, flags, cell, watch, winch, host, pty, child, out, worker, reported, clock>>

DrainTaken == /\ Head1("drain")
              /\ Head(events).gen = sup.gen /\ sup.master /\ ~sup.outDone
              /\ events' = Tail(events)

\* The release runs on_output_drained, which closes the output pipe.
DrainReleases ==
    /\ DrainTaken /\ DrainOverdue
    /\ sup' = [sup EXCEPT !.pc = "check", !.master = FALSE,
                          !.hook = IF @ = "armed" THEN "ran" ELSE @]
    /\ UNCHANGED <<setup, flags, cell, watch, winch, host, pty, child, out, worker, reported, clock>>

DrainRearms ==
    /\ DrainTaken /\ ~DrainOverdue
    /\ sup' = [sup EXCEPT !.pc = "check", !.gen = @ + 1]
    /\ clock' = [clock EXCEPT !.sleepers = @ \cup {Sleeper(sup.gen + 1)}]
    /\ UNCHANGED <<setup, flags, cell, watch, winch, host, pty, child, out, worker, reported>>

\* The receive times out; otherwise than for a cancellation this is a stutter.
ReceiveTimesOut ==
    /\ sup.pc = "loop" /\ events = <<>> /\ flags.cancelled
    /\ sup' = [sup EXCEPT !.pc = "check"]
    /\ UNCHANGED <<setup, flags, events, cell, watch, winch, host, pty, child, out, worker, reported, clock>>

AllDone == sup.inDone /\ sup.outDone /\ sup.exit

LoopChecks ==
    /\ sup.pc = "check" /\ ~(flags.cancelled /\ ~AllDone)
    /\ sup' = [sup EXCEPT !.pc = IF AllDone THEN "retire" ELSE "loop"]
    /\ UNCHANGED <<setup, flags, events, cell, watch, winch, host, pty, child, out, worker, reported, clock>>

\* Cancellation releases the console and kills the child.
LoopCancels ==
    /\ sup.pc = "check" /\ flags.cancelled /\ ~AllDone
    /\ sup' = [sup EXCEPT !.pc = "retire", !.master = FALSE]
    /\ flags' = [flags EXCEPT !.cancel = TRUE, !.woken = TRUE]
    /\ worker' = Wakes(worker)
    /\ UNCHANGED <<setup, events, cell, watch, winch, host, pty, child, out, reported, clock>>

\* Stop and poke.  WatchSize::poke notifies without the mutex, the session's
\* cell notifies under it.
StoreStop ==
    /\ sup.pc = "retire"
    /\ sup' = [sup EXCEPT !.pc = "poke"]
    /\ flags' = [flags EXCEPT !.stop = TRUE]
    /\ UNCHANGED <<setup, events, cell, watch, winch, host, pty, child, out, worker, reported, clock>>

Poke ==
    /\ sup.pc = "poke"
    /\ setup.source = "session" => CellFree
    /\ sup' = [sup EXCEPT !.pc = "join"]
    /\ watch' = Notified
    /\ UNCHANGED <<setup, flags, events, cell, winch, host, pty, child, out, worker, reported, clock>>

JoinWatcher ==
    /\ sup.pc = "join" /\ watch.pc = "gone"
    /\ sup' = [sup EXCEPT !.pc = "close"]
    /\ winch' = [winch EXCEPT !.closed = TRUE]
    /\ UNCHANGED <<setup, flags, events, cell, watch, host, pty, child, out, worker, reported, clock>>

\* The event channel and the console go with the frame.
Return ==
    /\ sup.pc = "close" /\ winch.pc \in {"off", "gone"}
    /\ sup' = [sup EXCEPT !.master = FALSE,
                          !.pc = CASE sup.failed -> "error"
                                   [] ~sup.failed /\ flags.cancel -> "cancelled"
                                   [] OTHER -> "completed"]
    /\ UNCHANGED <<setup, flags, events, cell, watch, winch, host, pty, child, out, worker, reported, clock>>

Supervisor ==
    \/ ResolveSize \/ SeedCell \/ OpenFails \/ OpenPty \/ StartThreads \/ WatchSignals
    \/ TakeDone \/ TakeExited \/ TakeResize \/ DrainIgnored \/ DrainReleases \/ DrainRearms
    \/ ReceiveTimesOut \/ LoopChecks \/ LoopCancels
    \/ StoreStop \/ Poke \/ JoinWatcher \/ Return

-----------------------------------------------------------------------------
(* The input worker *)

\* A send after the supervisor returned fails and is ignored.
Returned == sup.pc \in {"completed", "cancelled", "error"}
Send(e) == events' = IF Returned THEN events ELSE Append(events, e)
Event(kind) == [kind |-> kind, of |-> "none", failed |-> FALSE, gen |-> 0]

\* The Windows reader looks at the latch, and then blocks in ReadFile.
InputEnters ==
    /\ worker.in = "check"
    /\ worker' = [worker EXCEPT !.in =
          IF flags.cancel \/ flags.peerDone \/ (flags.woken /\ ReadsHost) THEN "nudge"
          ELSE IF ReadsHost /\ setup.console = "conpty" THEN "entering" ELSE "blocked"]
    /\ UNCHANGED <<setup, sup, flags, events, cell, watch, winch, host, pty, child, out, reported, clock>>

InputBlocks ==
    /\ worker.in = "entering"
    /\ worker' = [worker EXCEPT !.in = "blocked"]
    /\ UNCHANGED <<setup, sup, flags, events, cell, watch, winch, host, pty, child, out, reported, clock>>

\* A wake, or the end of the input, reads as no bytes.
InputReleased ==
    /\ worker.in = "blocked"
    /\ flags.woken /\ ~(ReadsHost /\ setup.console = "conpty")
    /\ worker' = [worker EXCEPT !.in = "nudge"]
    /\ UNCHANGED <<setup, sup, flags, events, cell, watch, winch, host, pty, child, out, reported, clock>>

InputEnds ==
    /\ worker.in = "blocked"
    /\ worker' = [worker EXCEPT !.in = "nudge"]
    /\ UNCHANGED <<setup, sup, flags, events, cell, watch, winch, host, pty, child, out, reported, clock>>

\* A chunk goes to the master; a failed write ends the pump without error.
InputChunk ==
    /\ worker.in = "blocked"
    /\ \E failed \in {FALSE} \cup {child # "running"} :
          worker' = [worker EXCEPT !.in = IF failed THEN "nudge" ELSE "check"]
    /\ UNCHANGED <<setup, sup, flags, events, cell, watch, winch, host, pty, child, out, reported, clock>>

InputDone ==
    /\ worker.in = "nudge"
    /\ worker' = [worker EXCEPT !.in = "sent"]
    /\ Send([Event("done") EXCEPT !.of = "in"])
    /\ UNCHANGED <<setup, sup, flags, cell, watch, winch, host, pty, child, out, reported, clock>>

\* The reader goes with the thread, and with it the raw mode.
InputGone ==
    /\ worker.in = "sent"
    /\ worker' = [worker EXCEPT !.in = "gone"]
    /\ host' = [host EXCEPT !.mode = "cooked"]
    /\ UNCHANGED <<setup, sup, flags, events, cell, watch, winch, pty, child, out, reported, clock>>

-----------------------------------------------------------------------------
(* The output worker and the reaper *)

\* The master reports the end: on Unix once the child is gone and its output
\* read, on a ConPTY once the console is released, whatever was not flushed.
MasterEof ==
    IF setup.console = "unix" THEN child = "exited" /\ out.read = out.ready
                              ELSE ~sup.master /\ out.read = out.ready

OutputEnds ==
    /\ worker.out = "check"
    /\ flags.cancel \/ MasterEof
    /\ worker' = [worker EXCEPT !.out = "ended"]
    /\ UNCHANGED <<setup, sup, flags, events, cell, watch, winch, host, pty, child, out, reported, clock>>

OutputReads ==
    /\ worker.out = "check" /\ ~flags.cancel
    /\ out.read < out.ready
    /\ out' = [out EXCEPT !.read = @ + 1]
    /\ worker' = [worker EXCEPT !.out = "write"]
    /\ UNCHANGED <<setup, sup, flags, events, cell, watch, winch, host, pty, child, reported, clock>>

\* The activity is stamped after the write.
OutputWrites ==
    /\ worker.out = "write"
    /\ IF setup.brokenSink
       THEN worker' = [worker EXCEPT !.out = "failed"] /\ UNCHANGED <<out, clock>>
       ELSE /\ worker' = [worker EXCEPT !.out = "check"]
            /\ out' = [out EXCEPT !.sunk = @ + 1]
            /\ clock' = [clock EXCEPT !.activity = clock.now]
    /\ UNCHANGED <<setup, sup, flags, events, cell, watch, winch, host, pty, child, reported>>

OutputDone ==
    /\ worker.out \in {"ended", "failed"}
    /\ flags' = [flags EXCEPT !.peerDone = TRUE]
    /\ Send([Event("done") EXCEPT !.of = "out", !.failed = worker.out = "failed"])
    /\ worker' = [worker EXCEPT !.out = "gone"]
    /\ UNCHANGED <<setup, sup, cell, watch, winch, host, pty, child, out, reported, clock>>

\* Mutant: the report after the event.
ReaperReportsLate ==
    /\ \/ /\ worker.reap = "wait" /\ (child = "exited" \/ setup.brokenWait)
          /\ Send(Event("exited"))
          /\ flags' = [flags EXCEPT !.peerDone = TRUE]
          /\ worker' = [worker EXCEPT !.reap = "report"] /\ UNCHANGED reported
       \/ /\ worker.reap = "report"
          /\ reported' = (Hooked /\ ~setup.brokenWait)
          /\ worker' = [worker EXCEPT !.reap = "gone"] /\ UNCHANGED <<flags, events>>
    /\ UNCHANGED <<setup, sup, cell, watch, winch, host, pty, child, out, clock>>

\* A broken wait is not reported, and still ends the session.
ReaperReports ==
    /\ worker.reap = "wait" /\ (child = "exited" \/ setup.brokenWait)
    /\ reported' = (Hooked /\ ~setup.brokenWait)
    /\ worker' = [worker EXCEPT !.reap = "report"]
    /\ UNCHANGED <<setup, sup, flags, events, cell, watch, winch, host, pty, child, out, clock>>

ReaperDone ==
    /\ worker.reap = "report"
    /\ flags' = [flags EXCEPT !.peerDone = TRUE]
    /\ Send(Event("exited"))
    /\ worker' = [worker EXCEPT !.reap = "gone"]
    /\ UNCHANGED <<setup, sup, cell, watch, winch, host, pty, child, out, reported, clock>>

-----------------------------------------------------------------------------
(* The resize watcher (wait_changed) and the host window watch *)

\* Under the mutex: a new sequence number is returned, a stop ends the
\* watcher, and otherwise it is about to sleep, the mutex still held.
WatchLooks ==
    /\ watch.pc = "check"
    /\ watch' = IF cell.seq # watch.seen THEN [pc |-> "send", seen |-> cell.seq]
                ELSE [watch EXCEPT !.pc = IF flags.stop THEN "gone" ELSE "holding"]
    /\ UNCHANGED <<setup, sup, flags, events, cell, winch, host, pty, child, out, worker, reported, clock>>

WatchParks ==
    /\ watch.pc = "holding"
    /\ watch' = [watch EXCEPT !.pc = "parked"]
    /\ UNCHANGED <<setup, sup, flags, events, cell, winch, host, pty, child, out, worker, reported, clock>>

WatchSends ==
    /\ watch.pc = "send"
    /\ watch' = [watch EXCEPT !.pc = "check"]
    /\ Send(Event("resize"))
    /\ UNCHANGED <<setup, sup, flags, cell, winch, host, pty, child, out, worker, reported, clock>>

\* A signal, or on Windows a tick, makes the watch probe the host's window.
WinchProbes ==
    /\ winch.pc = "wait" /\ ~winch.closed
    /\ IF setup.console = "unix" THEN winch.pending ELSE ~flags.stop /\ host.size # cell.size
    /\ winch' = [winch EXCEPT !.pc = "probed", !.pending = FALSE, !.size = host.size]
    /\ UNCHANGED <<setup, sup, flags, events, cell, watch, host, pty, child, out, worker, reported, clock>>

\* repoll_with: a real move bumps the sequence.
WinchStores ==
    /\ winch.pc = "probed" /\ CellFree
    /\ IF winch.size # cell.size
       THEN /\ cell' = [size |-> winch.size, seq |-> cell.seq + 1]
            /\ watch' = Notified
            /\ winch' = [winch EXCEPT !.pc = "moved"]
       ELSE winch' = [winch EXCEPT !.pc = "wait"] /\ UNCHANGED <<cell, watch>>
    /\ UNCHANGED <<setup, sup, flags, events, host, pty, child, out, worker, reported, clock>>

WinchSends ==
    /\ winch.pc = "moved"
    /\ winch' = [winch EXCEPT !.pc = "wait"]
    /\ Send(Event("resize"))
    /\ UNCHANGED <<setup, sup, flags, cell, watch, host, pty, child, out, worker, reported, clock>>

WinchEnds ==
    /\ winch.pc = "wait"
    /\ IF setup.console = "unix" THEN winch.closed ELSE flags.stop
    /\ winch' = [winch EXCEPT !.pc = "gone"]
    /\ UNCHANGED <<setup, sup, flags, events, cell, watch, host, pty, child, out, worker, reported, clock>>

-----------------------------------------------------------------------------
(* Time, the child, the console and the caller *)

Tick ==
    /\ sup.exit /\ sup.pc \in {"loop", "check"} /\ clock.now < Cap + Quiesce
    /\ clock' = [clock EXCEPT !.now = @ + 1]
    /\ UNCHANGED <<setup, sup, flags, events, cell, watch, winch, host, pty, child, out, worker, reported>>

SleeperFires ==
    /\ \E s \in clock.sleepers :
          /\ s.at <= clock.now
          /\ clock' = [clock EXCEPT !.sleepers = @ \ {s}]
          /\ Send([Event("drain") EXCEPT !.gen = s.gen])
    /\ UNCHANGED <<setup, sup, flags, cell, watch, winch, host, pty, child, out, worker, reported>>

ChildWrites ==
    /\ child = "running" /\ out.wrote < setup.chunks
    /\ out' = [out EXCEPT !.wrote = @ + 1,
                          !.ready = IF setup.console = "unix" THEN @ + 1 ELSE @]
    /\ UNCHANGED <<setup, sup, flags, events, cell, watch, winch, host, pty, child, worker, reported, clock>>

\* A ConPTY renders into its output pipe in its own time, while it exists.
ConsoleFlushes ==
    /\ setup.console = "conpty" /\ sup.master /\ out.ready < out.wrote
    /\ out' = [out EXCEPT !.ready = @ + 1]
    /\ UNCHANGED <<setup, sup, flags, events, cell, watch, winch, host, pty, child, worker, reported, clock>>

ChildExits ==
    /\ child = "running"
    /\ child' = "exited"
    /\ UNCHANGED <<setup, sup, flags, events, cell, watch, winch, host, pty, out, worker, reported, clock>>

CallerCancels ==
    /\ setup.cancels /\ ~flags.cancelled /\ child # "none"
    /\ flags' = [flags EXCEPT !.cancelled = TRUE]
    /\ UNCHANGED <<setup, sup, events, cell, watch, winch, host, pty, child, out, worker, reported, clock>>

\* The user resizes the host's window: SIGWINCH reaches a registered watch.
HostMoves ==
    /\ setup.source = "host" /\ host.size <= setup.moves /\ ~Returned
    /\ host' = [host EXCEPT !.size = @ + 1]
    /\ winch' = [winch EXCEPT !.pending = winch.pc # "off" /\ ~winch.closed]
    /\ UNCHANGED <<setup, sup, flags, events, cell, watch, pty, child, out, worker, reported, clock>>

\* A window-change of the session's client.
SessionMoves ==
    /\ setup.source = "session" /\ cell.seq < setup.moves /\ ~Returned /\ CellFree
    /\ cell' = [size |-> cell.size + 1, seq |-> cell.seq + 1]
    /\ watch' = Notified
    /\ UNCHANGED <<setup, sup, flags, events, winch, host, pty, child, out, worker, reported, clock>>

InputThread == InputEnters \/ InputBlocks \/ InputReleased \/ InputDone \/ InputGone
OutputThread == OutputEnds \/ OutputReads \/ OutputWrites \/ OutputDone
ReaperThread == ReaperReports \/ ReaperDone
WatchThread == WatchLooks \/ WatchParks \/ WatchSends
WinchThread == WinchProbes \/ WinchStores \/ WinchSends \/ WinchEnds
Threads ==
    \/ InputThread \/ OutputThread \/ ReaperThread \/ WatchThread \/ WinchThread
    \/ Tick \/ SleeperFires

Environment ==
    \/ InputEnds \/ InputChunk \/ ChildWrites \/ ConsoleFlushes \/ ChildExits
    \/ CallerCancels \/ HostMoves \/ SessionMoves

Next == Supervisor \/ Threads \/ Environment

\* Threads are scheduled and sleeps end; nothing is asked of the child, of
\* its console, of the input or of the window.
Spec ==
    /\ Init /\ [][Next]_vars
    /\ WF_vars(Supervisor)
    /\ WF_vars(InputThread) /\ WF_vars(OutputThread) /\ WF_vars(ReaperThread)
    /\ WF_vars(WatchThread) /\ WF_vars(WinchThread)
    /\ WF_vars(Tick) /\ WF_vars(SleeperFires)

-----------------------------------------------------------------------------
(* Properties *)

\* The exit is reported (the wire's exit-status is queued) before the output
\* pipe is closed, so a client never sees the end of the stream first: the
\* ordering PtyWaiter::wait_exit exists for.
ReportPrecedesClose == sup.hook = "ran" /\ ~setup.brokenWait => reported

\* A session that completes on Unix has put every chunk of its child in the
\* sink; one that completes on a ConPTY has at least put there whatever the
\* console had flushed when it was released.
OutputIntact ==
    sup.pc = "completed" =>
        /\ out.sunk = out.ready
        /\ out.sunk # out.wrote => clock.now >= Quiesce

\* A window-change that lands once the session has started reaches the
\* child's terminal while the session runs.
ResizeApplied ==
    (sup.pc = "loop" /\ cell.seq # sup.first /\ sup.master)
        ~> (pty = cell.size \/ sup.pc # "loop" \/ ~sup.master)

CalledOff == child = "exited" \/ flags.cancelled

\* Once the child is gone or the caller cancels, the call returns: whatever
\* the input, the console or a silent child does.
SessionReturns == CalledOff ~> Returned

\* Unnamed sides follow the host's window while the step runs.
SizeFollowsHost ==
    \A s \in Sizes :
        (sup.pc = "loop" /\ setup.source = "host" /\ host.size = s)
            ~> (pty = s \/ host.size # s \/ sup.pc # "loop")

\* The host's terminal is out of raw mode when the step ends.
RestoredOnStepEnd == Returned => host.mode = "cooked"

\* The output close runs once the output worker is done and the exit seen.
DrainedMeansDone == sup.hook = "ran" => sup.outDone /\ sup.exit
=============================================================================

----------------------------- MODULE ScriptPipe -----------------------------
(***************************************************************************)
(* The script pipe of oxdock-pipe (backend.rs): a byte channel with        *)
(* counted writers, counted keeper pins, two latches (closed, cancelled)   *)
(* and one condition variable on which readers block.                      *)
(*                                                                         *)
(* Every operation that changes the state does so under the state mutex,   *)
(* releases it and only then calls notify_all.  The two halves are two     *)
(* actions here, and `notifying' holds the callers between them: anything  *)
(* may happen in the gap, another reader parking included.  attach_writer  *)
(* and pin_keeper do not notify.                                           *)
(*                                                                         *)
(* The bytes are SpillBuffer's concern; what a reader's fate depends on is *)
(* how many are buffered, so the buffer is that number.                    *)
(***************************************************************************)
EXTENDS Naturals, FiniteSets

CONSTANTS
    Writer,      \* writer handles (PipeWriter values), each attached once
    Keeper,      \* keeper guards (KeeperGuard values), each pinned once
    Control,     \* callers of cancel and force_close
    Reader,      \* threads that read
    MaxPush,     \* bytes of one write, at most
    MaxBuffered  \* bytes the buffer accepts, at most

ASSUME PipeAssumption ==
    /\ MaxPush \in Nat /\ MaxBuffered \in Nat
    /\ IsFiniteSet(Writer) /\ IsFiniteSet(Keeper)
    /\ Writer \cap Keeper = {} /\ Writer \cap Control = {}
    /\ Keeper \cap Control = {}

VARIABLES
    buffered,    \* bytes in PipeState.buffer
    writers,     \* PipeState.writers
    keepers,     \* PipeState.keepers
    closed,      \* PipeState.closed
    cancelled,   \* PipeState.cancelled
    hand,        \* a handle is not yet made, held, or dropped
    notifying,   \* callers that released the mutex and have yet to notify
    rpc,         \* a reader is out, about to look at the state, or parked
    got,         \* what a reader's last read returned
    forced       \* history: force_close ran since the last attachment

stateVars == <<buffered, writers, keepers, closed, cancelled>>
readVars == <<rpc, got>>
vars == <<stateVars, hand, notifying, readVars, forced>>

Handle == Writer \cup Keeper
Caller == Handle \cup Control

Holding(S) == {h \in S : hand[h] = "held"}
Parked == {r \in Reader : rpc[r] = "parked"}

Init ==
    /\ buffered = 0 /\ writers = 0 /\ keepers = 0
    /\ closed = FALSE /\ cancelled = FALSE
    /\ hand = [h \in Handle |-> "none"]
    /\ notifying = {}
    /\ rpc = [r \in Reader |-> "out"]
    /\ got = [r \in Reader |-> "none"]
    /\ forced = FALSE

-----------------------------------------------------------------------------
(* Writers, keepers and controls *)

\* A new writer attaches and clears both latches.
AttachWriter(w) ==
    /\ hand[w] = "none"
    /\ hand' = [hand EXCEPT ![w] = "held"]
    /\ writers' = writers + 1
    /\ closed' = FALSE
    /\ cancelled' = FALSE
    /\ forced' = FALSE
    /\ UNCHANGED <<buffered, keepers, notifying, readVars>>

\* A write of n bytes; it notifies whether or not the buffer accepted them.
PushBytes(w, n) ==
    /\ hand[w] = "held" /\ w \notin notifying
    /\ \/ buffered + n <= MaxBuffered /\ buffered' = buffered + n
       \/ buffered' = buffered
    /\ notifying' = notifying \cup {w}
    /\ UNCHANGED <<writers, keepers, closed, cancelled, hand, readVars, forced>>

\* Mutant: the close decision looks at one of the two counts.
ReleaseOnEither(h, w, k) ==
    /\ hand[h] = "held" /\ h \notin notifying
    /\ hand' = [hand EXCEPT ![h] = "gone"]
    /\ writers' = w
    /\ keepers' = k
    /\ closed' = (closed \/ k = 0)
    /\ notifying' = notifying \cup {h}
    /\ UNCHANGED <<buffered, cancelled, readVars, forced>>

\* Mutant: the close decision forgets the keepers.
ReleaseOnNoWriter(h, w, k) ==
    /\ hand[h] = "held" /\ h \notin notifying
    /\ hand' = [hand EXCEPT ![h] = "gone"]
    /\ writers' = w
    /\ keepers' = k
    /\ closed' = (closed \/ w = 0)
    /\ notifying' = notifying \cup {h}
    /\ UNCHANGED <<buffered, cancelled, readVars, forced>>

\* The last handle of either kind to go closes the pipe.
Release(h, w, k) ==
    /\ hand[h] = "held" /\ h \notin notifying
    /\ hand' = [hand EXCEPT ![h] = "gone"]
    /\ writers' = w
    /\ keepers' = k
    /\ closed' = (closed \/ (w = 0 /\ k = 0))
    /\ notifying' = notifying \cup {h}
    /\ UNCHANGED <<buffered, cancelled, readVars, forced>>

SaturatingSub1(n) == IF n = 0 THEN 0 ELSE n - 1

DetachWriter(w) == Release(w, SaturatingSub1(writers), keepers)

PinKeeper(k) ==
    /\ hand[k] = "none"
    /\ hand' = [hand EXCEPT ![k] = "held"]
    /\ keepers' = keepers + 1
    /\ UNCHANGED <<buffered, writers, closed, cancelled, notifying, readVars, forced>>

\* Mutant: releasing the keeper leaves the latch to the writers.
UnpinLeavesOpen(k) ==
    /\ hand[k] = "held" /\ k \notin notifying
    /\ hand' = [hand EXCEPT ![k] = "gone"]
    /\ keepers' = SaturatingSub1(keepers)
    /\ notifying' = notifying \cup {k}
    /\ UNCHANGED <<buffered, writers, closed, cancelled, readVars, forced>>

UnpinKeeper(k) == Release(k, writers, SaturatingSub1(keepers))

\* Mutant: cancel sets the latch and wakes nobody.
CancelSilently(c) ==
    /\ c \notin notifying
    /\ cancelled' = TRUE
    /\ UNCHANGED <<buffered, writers, keepers, closed, hand, notifying, readVars,
                   forced>>

Cancel(c) ==
    /\ c \notin notifying
    /\ cancelled' = TRUE
    /\ notifying' = notifying \cup {c}
    /\ UNCHANGED <<buffered, writers, keepers, closed, hand, readVars, forced>>

ForceClose(c) ==
    /\ c \notin notifying
    /\ closed' = TRUE
    /\ forced' = TRUE
    /\ notifying' = notifying \cup {c}
    /\ UNCHANGED <<buffered, writers, keepers, cancelled, hand, readVars>>

\* Mutant: notify_one.
NotifyOne(c) ==
    /\ c \in notifying
    /\ notifying' = notifying \ {c}
    /\ IF Parked = {} THEN UNCHANGED rpc
       ELSE \E p \in Parked : rpc' = [rpc EXCEPT ![p] = "look"]
    /\ UNCHANGED <<stateVars, hand, got, forced>>

NotifyAll(c) ==
    /\ c \in notifying
    /\ notifying' = notifying \ {c}
    /\ rpc' = [r \in Reader |-> IF rpc[r] = "parked" THEN "look" ELSE rpc[r]]
    /\ UNCHANGED <<stateVars, hand, got, forced>>

-----------------------------------------------------------------------------
(* Readers *)

CallRead(r) ==
    /\ rpc[r] = "out"
    /\ rpc' = [rpc EXCEPT ![r] = "look"]
    /\ got' = [got EXCEPT ![r] = "none"]
    /\ UNCHANGED <<stateVars, hand, notifying, forced>>

ReadReturns(r, what) ==
    /\ rpc' = [rpc EXCEPT ![r] = "out"]
    /\ got' = [got EXCEPT ![r] = what]
    /\ UNCHANGED <<writers, keepers, closed, cancelled, hand, notifying, forced>>

\* The buffer had n bytes for the caller.
ReadData(r, n) ==
    /\ rpc[r] = "look"
    /\ n \in 1..buffered
    /\ buffered' = buffered - n
    /\ ReadReturns(r, "data")

\* The buffer's file fails; a failure after the last byte loses the bytes.
ReadFails(r) ==
    /\ rpc[r] = "look"
    /\ buffered > 0
    /\ buffered' \in {0, buffered}
    /\ ReadReturns(r, "error")

\* Nothing buffered and a latch set: Ok(0).
ReadEof(r) ==
    /\ rpc[r] = "look"
    /\ buffered = 0
    /\ closed \/ cancelled
    /\ UNCHANGED buffered
    /\ ReadReturns(r, "eof")

\* Condvar::wait releases the mutex and parks in one step.
ReadParks(r) ==
    /\ rpc[r] = "look"
    /\ buffered = 0 /\ ~closed /\ ~cancelled
    /\ rpc' = [rpc EXCEPT ![r] = "parked"]
    /\ UNCHANGED <<stateVars, hand, notifying, got, forced>>

\* A condition variable may wake a thread for no reason.
SpuriousWake(r) ==
    /\ rpc[r] = "parked"
    /\ rpc' = [rpc EXCEPT ![r] = "look"]
    /\ UNCHANGED <<stateVars, hand, notifying, got, forced>>

\* What a scheduled reader does next; a parked one has to be woken.
ReadProceeds(r) ==
    \/ \E n \in 1..buffered : ReadData(r, n)
    \/ ReadFails(r)
    \/ ReadEof(r)
    \/ ReadParks(r)

-----------------------------------------------------------------------------
WriterStep(w) ==
    \/ AttachWriter(w)
    \/ \E n \in 0..MaxPush : PushBytes(w, n)
    \/ DetachWriter(w)
KeeperStep(k) == PinKeeper(k) \/ UnpinKeeper(k)
ControlStep(c) == Cancel(c) \/ ForceClose(c)
ReaderStep(r) == CallRead(r) \/ ReadProceeds(r) \/ SpuriousWake(r)

Next ==
    \/ \E w \in Writer : WriterStep(w)
    \/ \E k \in Keeper : KeeperStep(k)
    \/ \E c \in Control : ControlStep(c)
    \/ \E c \in Caller : NotifyAll(c)
    \/ \E r \in Reader : ReaderStep(r)

Spec == Init /\ [][Next]_vars

\* Threads are scheduled: a caller that released the mutex gets to its
\* notify_all, and a woken reader gets the mutex.
Fairness ==
    /\ \A c \in Caller : WF_vars(NotifyAll(c))
    /\ \A r \in Reader : WF_vars(ReadProceeds(r))

FairSpec == Spec /\ Fairness

-----------------------------------------------------------------------------
(* Properties *)

\* The counts, latches and reader states are what PipeState can hold.
TypeOK ==
    /\ buffered \in 0..MaxBuffered
    /\ writers \in Nat /\ keepers \in Nat
    /\ closed \in BOOLEAN /\ cancelled \in BOOLEAN /\ forced \in BOOLEAN
    /\ hand \in [Handle -> {"none", "held", "gone"}]
    /\ notifying \subseteq Caller
    /\ rpc \in [Reader -> {"out", "look", "parked"}]
    /\ got \in [Reader -> {"none", "data", "error", "eof"}]

\* No lost wakeup: whenever a reader is parked on the condition variable
\* although there is something to return (bytes or a latch), some caller has
\* yet to run its notify_all.  The loop of read_into checks under the mutex
\* and every mutator but attach and pin notifies after it.
NoLostWakeup ==
    Parked # {} /\ (buffered > 0 \/ closed \/ cancelled) => notifying # {}

\* The counters are exact: writers and keepers count the live PipeWriter and
\* KeeperGuard values, so the saturating subtractions never saturate.
CountsExact ==
    /\ writers = Cardinality(Holding(Writer))
    /\ keepers = Cardinality(Holding(Keeper))

\* The closed latch is never set under a live writer unless force_close set
\* it: a reader cannot see the end of a stream that is still being written.
ClosedMeansNoWriter == closed /\ ~forced => writers = 0

\* The closed latch is never missing: once some handle has come and gone and
\* none is left, the pipe is closed.
LastOneOutCloses ==
    (\E h \in Handle : hand[h] = "gone") /\ Holding(Handle) = {} => closed

\* The closed latch tells the truth both ways, in whatever order writers
\* attach and detach and keepers are pinned and unpinned.
LatchExact == ClosedMeansNoWriter /\ LastOneOutCloses

\* A reader inside read_into does not stay there while the pipe is at its
\* end: it returns, or a new writer has attached and cleared the latches.
EndReachesReaders ==
    \A r \in Reader :
        (rpc[r] # "out" /\ (closed \/ cancelled))
            ~> (rpc[r] = "out" \/ ~(closed \/ cancelled))

\* A reader inside read_into does not stay there while bytes are buffered: it
\* returns, or another reader has taken the bytes.
BytesReachReaders ==
    \A r \in Reader :
        (rpc[r] # "out" /\ buffered > 0) ~> (rpc[r] = "out" \/ buffered = 0)

\* No reader stays in read_into while there is something for it.
ReadersReturn == EndReachesReaders /\ BytesReachReaders
=============================================================================

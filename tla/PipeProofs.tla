----------------------------- MODULE PipeProofs -----------------------------
(***************************************************************************)
(* Proofs about ScriptPipe, for any number of writers, keepers, controls   *)
(* and readers and any sizes, and about AsyncPipe, for any task bodies.    *)
(***************************************************************************)
EXTENDS AsyncPipe, FiniteSetTheorems, WellFoundedInduction, NaturalsInduction,
        TLAPS

\* The conjuncts depend on one another: the close decision of Release is right
\* because the counts are exact, and LastOneOutCloses needs both.
IInv ==
    /\ TypeOK
    /\ NoLostWakeup
    /\ CountsExact
    /\ ClosedMeansNoWriter
    /\ LastOneOutCloses

\* A handle that becomes held adds one to the count of its kind and nothing
\* to the other kind (attach_writer, pin_keeper).
LEMMA HoldingGrows ==
    ASSUME TypeOK, NEW S, S \subseteq Handle, IsFiniteSet(S),
           NEW h \in Handle, hand[h] = "none",
           hand' = [hand EXCEPT ![h] = "held"]
    PROVE  /\ Cardinality(Holding(S)) \in Nat
           /\ h \in S => Cardinality(Holding(S)') = Cardinality(Holding(S)) + 1
           /\ h \notin S => Holding(S)' = Holding(S)
<1>1. IsFiniteSet(Holding(S))
  BY Zenon, FS_Subset DEF Holding
<1>2. Cardinality(Holding(S)) \in Nat
  BY Zenon, <1>1, FS_CardinalityType
<1>3. ASSUME h \in S
      PROVE  Cardinality(Holding(S)') = Cardinality(Holding(S)) + 1
  <2>1. h \notin Holding(S)
    BY Zenon DEF Holding
  <2>2. Holding(S)' = Holding(S) \cup {h}
    BY Zenon, <1>3 DEF Holding, TypeOK
  <2> QED
    BY ZenonT(60), <1>1, <2>1, <2>2, FS_AddElement
<1>4. h \notin S => Holding(S)' = Holding(S)
  BY Zenon DEF Holding, TypeOK
<1> QED
  BY ZenonT(60), <1>2, <1>3, <1>4

\* A handle that is dropped takes one from the count of its kind, which is
\* therefore not zero, and nothing from the other kind (detach_writer,
\* unpin_keeper).
LEMMA HoldingShrinks ==
    ASSUME TypeOK, NEW S, S \subseteq Handle, IsFiniteSet(S),
           NEW h \in Handle, hand[h] = "held",
           hand' = [hand EXCEPT ![h] = "gone"]
    PROVE  /\ Cardinality(Holding(S)) \in Nat
           /\ h \in S => /\ Cardinality(Holding(S)) > 0
                         /\ Cardinality(Holding(S)') = Cardinality(Holding(S)) - 1
           /\ h \notin S => Holding(S)' = Holding(S)
<1>1. IsFiniteSet(Holding(S))
  BY Zenon, FS_Subset DEF Holding
<1>2. Cardinality(Holding(S)) \in Nat
  BY ZenonT(60), <1>1, FS_CardinalityType
<1>3. ASSUME h \in S
      PROVE  /\ Cardinality(Holding(S)) > 0
             /\ Cardinality(Holding(S)') = Cardinality(Holding(S)) - 1
  <2>1. h \in Holding(S)
    BY ZenonT(60), <1>3 DEF Holding
  <2>2. Holding(S)' = Holding(S) \ {h}
    BY Zenon, <1>3 DEF Holding, TypeOK
  <2>3. Cardinality(Holding(S)) # 0
    BY ZenonT(60), <1>1, <2>1, FS_EmptySet
  <2>4. Cardinality(Holding(S)') = Cardinality(Holding(S)) - 1
    BY ZenonT(60), <1>1, <2>1, <2>2, FS_RemoveElement
  <2> QED
    BY <1>2, <2>3, <2>4
<1>4. h \notin S => Holding(S)' = Holding(S)
  BY Zenon DEF Holding, TypeOK
<1> QED
  BY ZenonT(60), <1>2, <1>3, <1>4

\* With exact counts, zero writers and zero keepers means that no handle is
\* held: what detach_writer and unpin_keeper decide from.
LEMMA NoneHeld ==
    ASSUME TypeOK, CountsExact
    PROVE  (writers = 0 /\ keepers = 0) <=> Holding(Handle) = {}
<1>1. IsFiniteSet(Holding(Writer)) /\ IsFiniteSet(Holding(Keeper))
  BY ZenonT(60), PipeAssumption, FS_Subset DEF Holding
<1>2. writers = 0 <=> Holding(Writer) = {}
  BY Zenon, <1>1, FS_EmptySet DEF CountsExact
<1>3. keepers = 0 <=> Holding(Keeper) = {}
  BY Zenon, <1>1, FS_EmptySet DEF CountsExact
<1>4. Holding(Handle) = Holding(Writer) \cup Holding(Keeper)
  BY Zenon DEF Holding, Handle
<1> QED
  BY ZenonT(60), <1>2, <1>3, <1>4

\* A step that leaves the handles, the counts and the closed latch alone
\* leaves what is said of them alone.
LEMMA HandlesKept ==
    ASSUME IInv, UNCHANGED <<writers, keepers, hand>>,
           (closed' = closed /\ forced' = forced) \/ (closed' /\ forced')
    PROVE  CountsExact' /\ ClosedMeansNoWriter' /\ LastOneOutCloses'
<1>1. Holding(Writer)' = Holding(Writer) /\ Holding(Keeper)' = Holding(Keeper)
      /\ Holding(Handle)' = Holding(Handle)
  BY Zenon DEF Holding
<1>2. CountsExact'
  BY Zenon, <1>1 DEF IInv, CountsExact
<1>3. ClosedMeansNoWriter'
  BY ZenonT(60) DEF IInv, ClosedMeansNoWriter
<1>4. LastOneOutCloses'
  BY Zenon, <1>1 DEF IInv, LastOneOutCloses
<1> QED
  BY ZenonT(60), <1>2, <1>3, <1>4

\* Dropping a handle, given that the new counts are exact: the pipe closes if
\* and only if the handle was the last one.
LEMMA ReleaseStep ==
    ASSUME IInv, NEW h \in Handle, NEW w \in Nat, NEW k \in Nat,
           Release(h, w, k), CountsExact', w <= writers
    PROVE  IInv'
<1>1. TypeOK'
  BY ZenonT(60) DEF IInv, TypeOK, Release, Caller, readVars
<1>2. NoLostWakeup'
  BY Zenon DEF Release, NoLostWakeup
<1>3. ClosedMeansNoWriter'
  BY DEF IInv, TypeOK, ClosedMeansNoWriter, Release
<1>4. LastOneOutCloses'
  <2>1. Holding(Handle)' = {} => w = 0 /\ k = 0
    <3>1. (writers = 0 /\ keepers = 0)' <=> Holding(Handle)' = {}
      <4>1. TypeOK /\ CountsExact
              => ((writers = 0 /\ keepers = 0) <=> Holding(Handle) = {})
        BY Zenon, NoneHeld
      <4>2. (TypeOK /\ CountsExact
              => ((writers = 0 /\ keepers = 0) <=> Holding(Handle) = {}))'
        BY <4>1, NoneHeld, PTL
      <4> QED
        BY Zenon, <1>1, <4>2
    <3> QED
      BY Zenon, <3>1 DEF Release
  <2> QED
    BY ZenonT(60), <2>1 DEF Release, LastOneOutCloses
<1> QED
  BY ZenonT(60), <1>1, <1>2, <1>3, <1>4 DEF IInv

\* The inductive step: every action of the pipe keeps the invariant.
LEMMA Step == IInv /\ [Next]_vars => IInv'
<1> SUFFICES ASSUME IInv, [Next]_vars
             PROVE  IInv'
  BY Zenon
<1> USE PipeAssumption
<1>h. Writer \subseteq Handle /\ Keeper \subseteq Handle /\ Handle \subseteq Caller
      /\ Control \subseteq Caller
  BY Zenon DEF Handle, Caller
<1>1. ASSUME NEW w \in Writer, AttachWriter(w)
      PROVE  IInv'
  <2>1. /\ Cardinality(Holding(Writer)') = Cardinality(Holding(Writer)) + 1
        /\ Holding(Keeper)' = Holding(Keeper)
    BY ZenonT(60), <1>1, <1>h, HoldingGrows DEF IInv, AttachWriter
  <2>2. TypeOK'
    <3>1. closed' \in BOOLEAN /\ cancelled' \in BOOLEAN /\ forced' \in BOOLEAN
      BY <1>1, ZenonT(60) DEF AttachWriter
    <3> QED
      BY SMTT(60), <1>1, <1>h, <3>1 DEF IInv, TypeOK, AttachWriter, readVars
  <2>3. CountsExact'
    BY Zenon, <1>1, <2>1 DEF IInv, CountsExact, AttachWriter
  <2>4. NoLostWakeup'
    BY Zenon, <1>1 DEF IInv, NoLostWakeup, AttachWriter, readVars, Parked
  <2>5. ClosedMeansNoWriter'
    BY Zenon, <1>1 DEF ClosedMeansNoWriter, AttachWriter
  <2>6. LastOneOutCloses'
    <3>1. w \in Holding(Handle)'
      BY Zenon, <1>1, <1>h DEF IInv, TypeOK, AttachWriter, Holding
    <3> QED
      BY Zenon, <3>1 DEF LastOneOutCloses
  <2> QED
    BY Zenon, <2>2, <2>3, <2>4, <2>5, <2>6 DEF IInv
<1>2. ASSUME NEW w \in Writer, NEW n \in 0..MaxPush, PushBytes(w, n)
      PROVE  IInv'
  <2>1. TypeOK'
    BY SMTT(60), <1>2, <1>h DEF IInv, TypeOK, PushBytes, readVars
  <2>2. NoLostWakeup'
    BY Zenon, <1>2 DEF NoLostWakeup, PushBytes
  <2> QED
    BY Zenon, <1>2, <2>1, <2>2, HandlesKept DEF IInv, PushBytes
<1>3. ASSUME NEW w \in Writer, DetachWriter(w)
      PROVE  IInv'
  <2>1. /\ Cardinality(Holding(Writer)) > 0
        /\ Cardinality(Holding(Writer)') = Cardinality(Holding(Writer)) - 1
        /\ Holding(Keeper)' = Holding(Keeper)
    BY ZenonT(60), <1>3, <1>h, HoldingShrinks DEF IInv, DetachWriter, Release
  <2>2. writers' = writers - 1 /\ keepers' = keepers /\ writers > 0
    BY SMTT(60), <1>3, <2>1 DEF IInv, TypeOK, CountsExact, DetachWriter,
       Release, SaturatingSub1
  <2>3. CountsExact'
    BY Zenon, <2>1, <2>2 DEF IInv, CountsExact
  <2>4. Release(w, SaturatingSub1(writers), keepers)
    BY Zenon, <1>3 DEF DetachWriter
  <2>5. SaturatingSub1(writers) \in Nat /\ SaturatingSub1(writers) <= writers
        /\ keepers \in Nat
    BY SMTT(60), <2>2 DEF IInv, TypeOK, SaturatingSub1
  <2> QED
    BY Zenon, <1>h, <2>3, <2>4, <2>5, ReleaseStep
<1>4. ASSUME NEW k \in Keeper, PinKeeper(k)
      PROVE  IInv'
  <2>1. /\ Cardinality(Holding(Keeper)') = Cardinality(Holding(Keeper)) + 1
        /\ Holding(Writer)' = Holding(Writer)
    BY ZenonT(60), <1>4, <1>h, HoldingGrows DEF IInv, PinKeeper
  <2>2. TypeOK'
    BY SMTT(60), <1>4, <1>h DEF IInv, TypeOK, PinKeeper, readVars
  <2>3. CountsExact'
    BY Zenon, <1>4, <2>1 DEF IInv, CountsExact, PinKeeper
  <2>4. NoLostWakeup'
    BY Zenon, <1>4 DEF IInv, NoLostWakeup, PinKeeper, readVars, Parked
  <2>5. ClosedMeansNoWriter'
    BY Zenon, <1>4 DEF IInv, ClosedMeansNoWriter, PinKeeper
  <2>6. LastOneOutCloses'
    <3>1. k \in Holding(Handle)'
      BY Zenon, <1>4, <1>h DEF IInv, TypeOK, PinKeeper, Holding
    <3> QED
      BY Zenon, <3>1 DEF LastOneOutCloses
  <2> QED
    BY Zenon, <2>2, <2>3, <2>4, <2>5, <2>6 DEF IInv
<1>5. ASSUME NEW k \in Keeper, UnpinKeeper(k)
      PROVE  IInv'
  <2>1. /\ Cardinality(Holding(Keeper)) > 0
        /\ Cardinality(Holding(Keeper)') = Cardinality(Holding(Keeper)) - 1
        /\ Holding(Writer)' = Holding(Writer)
    BY ZenonT(60), <1>5, <1>h, HoldingShrinks DEF IInv, UnpinKeeper, Release
  <2>2. keepers' = keepers - 1 /\ writers' = writers /\ keepers > 0
    BY SMTT(60), <1>5, <2>1 DEF IInv, TypeOK, CountsExact, UnpinKeeper,
       Release, SaturatingSub1
  <2>3. CountsExact'
    BY Zenon, <2>1, <2>2 DEF IInv, CountsExact
  <2>4. Release(k, writers, SaturatingSub1(keepers))
    BY Zenon, <1>5 DEF UnpinKeeper
  <2>5. SaturatingSub1(keepers) \in Nat /\ writers \in Nat /\ writers <= writers
    BY SMTT(60), <2>2 DEF IInv, TypeOK, SaturatingSub1
  <2> QED
    BY Zenon, <1>h, <2>3, <2>4, <2>5, ReleaseStep
<1>6. ASSUME NEW c \in Control, ControlStep(c)
      PROVE  IInv'
  <2>1. TypeOK'
    BY ZenonT(60), <1>6, <1>h DEF IInv, TypeOK, ControlStep, Cancel,
       ForceClose, readVars
  <2>2. NoLostWakeup'
    BY ZenonT(60), <1>6 DEF NoLostWakeup, ControlStep, Cancel, ForceClose
  <2> QED
    BY Zenon, <1>6, <2>1, <2>2, HandlesKept DEF IInv, ControlStep, Cancel,
       ForceClose
<1>7. ASSUME NEW c \in Caller, NotifyAll(c)
      PROVE  IInv'
  <2>1. TypeOK'
    BY ZenonT(60), <1>7 DEF IInv, TypeOK, NotifyAll, stateVars
  <2>2. Parked' = {}
    BY ZenonT(60), <1>7 DEF IInv, TypeOK, NotifyAll, Parked
  <2>3. NoLostWakeup'
    BY ZenonT(60), <2>2 DEF NoLostWakeup
  <2> QED
    BY ZenonT(60), <1>7, <2>1, <2>3, HandlesKept DEF IInv, NotifyAll, stateVars
<1>8. ASSUME NEW r \in Reader, ReaderStep(r)
      PROVE  IInv'
  <2> USE DEF ReaderStep, ReadProceeds, CallRead, ReadData, ReadFails, ReadEof,
          ReadParks, SpuriousWake, ReadReturns, stateVars
  <2>1. TypeOK'
    BY SMTT(60), <1>8 DEF IInv, TypeOK
  <2>2. NoLostWakeup'
    <3>1. CASE ReadParks(r)
      BY SMTT(60), <3>1 DEF IInv, NoLostWakeup
    <3>2. CASE ~ReadParks(r)
      <4>1. /\ Parked' \subseteq Parked
            /\ buffered' > 0 => buffered > 0
            /\ UNCHANGED <<closed, cancelled, notifying>>
        BY SMTT(60), <1>8, <3>2 DEF IInv, TypeOK, Parked
      <4> QED
        BY Zenon, <4>1 DEF IInv, NoLostWakeup
    <3> QED
      BY Zenon, <3>1, <3>2
  <2>3. UNCHANGED <<writers, keepers, hand, closed, forced>>
    BY Zenon, <1>8
  <2> QED
    BY ZenonT(60), <2>1, <2>2, <2>3, HandlesKept DEF IInv
<1>9. CASE UNCHANGED vars
  BY ZenonT(60), <1>9 DEF IInv, TypeOK, NoLostWakeup, CountsExact,
     ClosedMeansNoWriter,
     LastOneOutCloses, Holding, Parked, vars, stateVars, readVars
<1> QED
  BY Zenon, <1>1, <1>2, <1>3, <1>4, <1>5, <1>6, <1>7, <1>8, <1>9
  DEF Next, WriterStep, KeeperStep

\* The invariant holds of a new pipe.
LEMMA Start == Init => IInv
<1> SUFFICES ASSUME Init
             PROVE  IInv
  BY ZenonT(60)
<1>1. TypeOK
  <2>1. closed \in BOOLEAN /\ cancelled \in BOOLEAN /\ forced \in BOOLEAN
    BY ZenonT(60) DEF Init
  <2> QED
    BY <2>1, PipeAssumption DEF Init, TypeOK
<1>2. Holding(Writer) = {} /\ Holding(Keeper) = {}
  BY Zenon DEF Init, Holding, Handle
<1>3. CountsExact
  BY ZenonT(60), <1>2, FS_EmptySet DEF Init, CountsExact
<1>4. NoLostWakeup /\ ClosedMeansNoWriter /\ LastOneOutCloses
  BY DEF Init, NoLostWakeup, ClosedMeansNoWriter, LastOneOutCloses
<1> QED
  BY Zenon, <1>1, <1>3, <1>4 DEF IInv

\* The invariant holds in every state of every pipe.
THEOREM Inductive == Spec => []IInv
BY Start, Step, PTL DEF Spec

\* No wakeup is lost, whatever the numbers of readers and notifiers.
THEOREM NoWakeupIsLost == Spec => []NoLostWakeup
BY Inductive, PTL DEF IInv

\* The counts are exact and the saturating subtractions never saturate.
THEOREM CountsAreExact == Spec => []CountsExact
BY Inductive, PTL DEF IInv

\* The closed latch says the truth in both directions: never under a live
\* writer unless forced, and always once the last handle is gone.
THEOREM LatchIsRight == Spec => []LatchExact
BY Inductive, PTL DEF IInv, LatchExact

-----------------------------------------------------------------------------
(* The root flow and a task that share a pipe (AsyncPipe).  Every step of  *)
(* theirs is a step of the pipe, so what is proved above holds for them.   *)

\* Each step of the two flows uses the pipe as ScriptPipe says or leaves it
\* alone.
LEMMA AsyncStepIsPipeStep ==
    ASSUME AsyncNext, out \in Writer
    PROVE  [Next]_vars
<1> USE AsyncAssumption, PipeAssumption
<1>o. 1 \in 0..MaxPush
  BY SMTT(60)
<1>w. ASSUME NEW w \in Writer, WriterStep(w) PROVE Next
  BY ZenonT(60), <1>w DEF Next
<1>k. ASSUME UnpinKeeper(Pin) \/ PinKeeper(Pin) PROVE Next
  BY Zenon, <1>k DEF Next, KeeperStep
<1>r. ASSUME NEW r \in Reader, CallRead(r) PROVE Next
  BY Zenon, <1>r DEF Next, ReaderStep
<1>m. Main \in Reader /\ Worker \in Reader
  BY Zenon
<1>d. ASSUME DropState PROVE [Next]_vars
  BY ZenonT(60), <1>d, <1>k DEF DropState
<1>1. CASE RootStep
  <2>1. CASE RootAttaches
    BY ZenonT(60), <1>w, <2>1 DEF RootAttaches, WriterStep
  <2>2. CASE RootWrites
    BY ZenonT(60), <1>w, <1>o, <2>2 DEF RootWrites, WriterStep
  <2>3. CASE RootDetaches
    BY ZenonT(60), <1>w, <2>3 DEF RootDetaches, WriterStep
  <2>4. CASE Spawn
    BY ZenonT(60), <1>k, <2>4 DEF Spawn
  <2>5. CASE RootReads
    BY ZenonT(60), <1>r, <1>m, <2>5 DEF RootReads
  <2>6. CASE RootReadDone
    BY Zenon, <2>6 DEF RootReadDone
  <2> QED
    BY ZenonT(60), <1>1, <2>1, <2>2, <2>3, <2>4, <2>5, <2>6 DEF RootStep
<1>2. CASE WorkerStep
  <2>1. CASE WorkerSkips
    BY Zenon, <2>1 DEF WorkerSkips
  <2>2. ASSUME NEW w \in Writer, WorkerAttaches(w) PROVE Next
    BY ZenonT(60), <1>w, <2>2 DEF WorkerAttaches, WriterStep
  <2>3. CASE WorkerWrites
    BY ZenonT(60), <1>w, <1>o, <2>3 DEF WorkerWrites, WriterStep
  <2>4. CASE WorkerDetaches
    BY Zenon, <1>w, <2>4 DEF WorkerDetaches, WriterStep
  <2>5. CASE WorkerReads
    BY ZenonT(60), <1>r, <1>m, <2>5 DEF WorkerReads
  <2>6. CASE WorkerReadDone
    BY ZenonT(60), <2>6 DEF WorkerReadDone
  <2>7. CASE WorkerAdvances
    BY ZenonT(60), <1>k, <2>7 DEF WorkerAdvances
  <2>8. CASE WorkerFails \/ WorkerEnds
    BY ZenonT(60), <1>d, <2>8 DEF WorkerFails, WorkerEnds
  <2> QED
    BY ZenonT(60), <1>2, <2>1, <2>2, <2>3, <2>4, <2>5, <2>6, <2>7, <2>8
       DEF WorkerStep
<1>3. CASE WorkerCancelled
  BY ZenonT(60), <1>d, <1>3 DEF WorkerCancelled
<1>4. CASE Background
  BY ZenonT(60), <1>4 DEF Background, Next, ReaderStep
<1>5. CASE Done
  BY Zenon, <1>5 DEF Done, allVars
<1> QED
  BY ZenonT(60), <1>1, <1>2, <1>3, <1>4, <1>5 DEF AsyncNext

\* The worker's handle is always one of a writer.
OutOK == out \in Writer

\* Every step keeps it.
LEMMA OutStep == OutOK /\ [AsyncNext]_allVars => OutOK'
<1> SUFFICES ASSUME OutOK, [AsyncNext]_allVars PROVE OutOK'
  BY Zenon
<1>1. CASE UNCHANGED allVars
  BY Zenon, <1>1 DEF OutOK, allVars, taskVars
<1>2. CASE RootStep
  BY ZenonT(60), <1>2 DEF OutOK, RootStep, RootAttaches, RootWrites,
     RootDetaches, Spawn,
     RootReads, RootReadDone, taskVars
<1>3. CASE WorkerStep
  BY ZenonT(60), <1>3 DEF OutOK, WorkerStep, WorkerSkips, WorkerAttaches,
     WorkerWrites,
     WorkerDetaches, WorkerReads, WorkerReadDone, WorkerAdvances, WorkerFails,
     WorkerEnds, DropState
<1>4. CASE WorkerCancelled \/ Background
  BY Zenon, <1>4 DEF OutOK, WorkerCancelled, DropState, Background, taskVars
<1> QED
  BY ZenonT(60), <1>1, <1>2, <1>3, <1>4 DEF AsyncNext, Done

\* The two flows implement the pipe: their initial states are initial states
\* of it and their steps are steps of it or leave it unchanged.
THEOREM AsyncUsesPipe == AsyncSpec => Spec
<1>1. AsyncInit => Init /\ OutOK
  BY ZenonT(60), AsyncAssumption DEF AsyncInit, OutOK
<1>2. OutOK /\ [AsyncNext]_allVars => [Next]_vars
  BY Zenon, AsyncStepIsPipeStep DEF OutOK, allVars
<1> QED
  BY <1>1, <1>2, OutStep, PTL DEF AsyncSpec, Spec

-----------------------------------------------------------------------------
(* Why a reader never takes a gap between two writing commands for the end *)

\* The orders of NaturalsInduction as a set of pairs.
Less == {ss \in Nat \X Nat : ss[1] < ss[2]}

\* The naturals are well ordered.
LEMMA LessWellFounded == IsWellFoundedOn(Less, Nat)
BY ZenonT(60), NatLessThanWellFounded DEF OpToRel, Less

\* A non-empty set of naturals with a bound has a largest element, so Max,
\* a CHOOSE, is it.
LEMMA MaxIsLargest ==
    ASSUME NEW n \in Nat, NEW S \in SUBSET (0..n), S # {}
    PROVE  Max(S) \in S /\ \A i \in S : i =< Max(S)
<1> DEFINE T == {n - i : i \in S}
<1>1. T \in SUBSET Nat /\ T # {}
  <2>1. ASSUME NEW i \in S PROVE n - i \in Nat
    BY SMTT(60)
  <2>2. PICK i \in S : TRUE
    BY Zenon
  <2> QED
    BY Zenon, <2>1, <2>2
<1> HIDE DEF T
<1>2. PICK m \in T : \A k \in T : <<k, m>> \notin Less
  BY ZenonT(60), <1>1, LessWellFounded, WFMin
<1>3. ASSUME NEW k \in T PROVE m =< k
  <2>1. <<k, m>> \in Nat \X Nat /\ <<k, m>>[1] = k /\ <<k, m>>[2] = m
    BY Zenon, <1>1
  <2>2. ~(k < m)
    BY <1>2, <2>1, ZenonT(60) DEF Less
  <2> QED
    BY SMTT(60), <1>1, <2>2
<1>4. PICK x \in S : m = n - x
  BY Zenon DEF T
<1>5. ASSUME NEW y \in S PROVE x >= y
  <2>1. n - y \in T
    BY Zenon DEF T
  <2> QED
    BY SMTT(60), <1>3, <1>4, <2>1
<1>6. Max(S) \in S /\ \A y \in S : Max(S) >= y
  BY <1>5, ZenonT(60) DEF Max
<1> QED
  BY ZenonT(60), <1>6

\* LastProducer is the last step that writes, and 0 if there is none.
LEMMA LastProducerIsLast ==
    ASSUME NEW b \in Bodies
    PROVE  /\ LastProducer(b) \in Nat
           /\ LastProducer(b) = 0 <=> Produces(b) = {}
           /\ LastProducer(b) # 0 => LastProducer(b) \in Produces(b)
           /\ \A i \in Produces(b) : i \in Nat /\ i =< LastProducer(b)
<1>1. Len(b) \in Nat /\ DOMAIN b = 1..Len(b)
  BY SMTT(60), AsyncAssumption
<1>2. Produces(b) \in SUBSET (0..Len(b)) /\ 0 \notin Produces(b)
  BY SMTT(60), <1>1 DEF Produces
<1>3. CASE Produces(b) = {}
  BY Zenon, <1>3 DEF LastProducer
<1>4. CASE Produces(b) # {}
  <2>1. Max(Produces(b)) \in Produces(b) /\ \A i \in Produces(b) : i =< Max(Produces(b))
    BY ZenonT(60), <1>1, <1>2, <1>4, MaxIsLargest
  <2> QED
    BY SMTT(60), <1>1, <1>2, <1>4, <2>1 DEF LastProducer
<1> QED
  BY ZenonT(60), <1>3, <1>4

BeforeSpawn == mpc \in {"start", "early", "ready"}

\* What the two flows' variables hold.
FlowType ==
    /\ out \in Writer /\ body \in Bodies
    /\ at \in [step : Nat, cmd : Nat]

\* The task's keeper is the pipe's only one, it is held as long as it has a
\* step to expire at, and a pipe that was open when it was pinned stays open.
Pinned ==
    /\ cancelled = FALSE
    /\ keepers = IF hand[Pin] = "held" THEN 1 ELSE 0
    /\ expiry # 0 <=> hand[Pin] = "held"
    /\ expiry # 0 /\ ~wasClosed => ~closed

\* The root flow reads only after the spawn, and sees Ok(0) only when the
\* keeper is gone.
Flow ==
    /\ BeforeSpawn <=> wpc = "unborn"
    /\ BeforeSpawn => /\ expiry = 0 /\ hand[Pin] = "none"
                      /\ rpc[Main] = "out" /\ got[Main] = "none"
                      /\ at.step = 1
    /\ wpc = "end" => expiry = 0
    /\ got[Main] = "eof" => expiry = 0 \/ wasClosed

\* The keeper expires at the last writing step, which the worker has not
\* passed; without a keeper no writing step lies ahead.
Plan ==
    /\ expiry \in {0, LastProducer(body)}
    /\ expiry # 0 => at.step =< expiry
    /\ ~BeforeSpawn /\ expiry = 0 => Remaining = {}

AInv == FlowType /\ Pinned /\ Flow /\ Plan

\* The invariant holds when the flows start.
LEMMA AsyncStart == AsyncInit => AInv
<1> SUFFICES ASSUME AsyncInit PROVE AInv
  BY Zenon
<1> USE AsyncAssumption DEF AsyncInit, Init
<1>1. FlowType
  BY Zenon DEF FlowType
<1>2. hand[Pin] = "none" /\ rpc[Main] = "out" /\ got[Main] = "none"
  BY Zenon DEF Handle
<1>3. Pinned
  BY Zenon, <1>2 DEF Pinned
<1>4. Flow
  BY Zenon, <1>2 DEF Flow, BeforeSpawn
<1>5. Plan
  BY Zenon DEF Plan, BeforeSpawn
<1> QED
  BY Zenon, <1>1, <1>3, <1>4, <1>5 DEF AInv

\* Writers come and go without touching the keeper, and cannot close a pipe
\* that a keeper holds (attach_writer, push_bytes, detach_writer).
LEMMA WriterKeepsPinned ==
    ASSUME TypeOK, Pinned, NEW w \in Writer, UNCHANGED <<expiry, wasClosed>>,
           AttachWriter(w) \/ PushBytes(w, 1) \/ DetachWriter(w)
    PROVE  Pinned' /\ hand'[Pin] = hand[Pin] /\ UNCHANGED readVars
<1>1. w # Pin /\ w \in Handle /\ Pin \in Handle
  BY Zenon, PipeAssumption, AsyncAssumption DEF Handle
<1>2. CASE AttachWriter(w)
  BY Zenon, <1>1, <1>2 DEF AttachWriter, Pinned, TypeOK
<1>3. CASE PushBytes(w, 1)
  BY ZenonT(60), <1>1, <1>3 DEF PushBytes, Pinned, TypeOK
<1>4. CASE DetachWriter(w)
  <2>1. /\ hand' = [hand EXCEPT ![w] = "gone"] /\ keepers' = keepers
        /\ cancelled' = cancelled /\ UNCHANGED readVars
        /\ closed' <=> (closed \/ (SaturatingSub1(writers) = 0 /\ keepers = 0))
    BY ZenonT(60), <1>4 DEF DetachWriter, Release
  <2>2. hand'[Pin] = hand[Pin]
    BY ZenonT(60), <1>1, <2>1 DEF TypeOK
  <2>3. expiry # 0 => keepers = 1
    BY Zenon DEF Pinned
  <2> QED
    BY SMTT(60), <2>1, <2>2, <2>3 DEF Pinned
<1> QED
  BY Zenon, <1>2, <1>3, <1>4

\* Dropping the keeper guard leaves the pipe without a keeper.
LEMMA UnpinKeepsPinned ==
    ASSUME TypeOK, Pinned, expiry # 0, UnpinKeeper(Pin), expiry' = 0
    PROVE  Pinned' /\ hand'[Pin] # "none" /\ UNCHANGED readVars
<1>1. Pin \in Handle
  BY ZenonT(60), AsyncAssumption DEF Handle
<1>2. keepers = 1
  BY Zenon DEF Pinned
<1>3. /\ hand' = [hand EXCEPT ![Pin] = "gone"]
      /\ keepers' = SaturatingSub1(keepers)
      /\ cancelled' = cancelled /\ UNCHANGED readVars
  BY Zenon DEF UnpinKeeper, Release
<1>4. hand'[Pin] = "gone"
  BY ZenonT(60), <1>1, <1>3 DEF TypeOK
<1> QED
  BY SMTT(60), <1>2, <1>3, <1>4 DEF Pinned, SaturatingSub1

\* What the scheduler does: the keeper stays, a flow that is not inside
\* read_into stays outside, and Ok(0) comes from a closed pipe.
LEMMA SchedulerKeepsPinned ==
    ASSUME TypeOK, Pinned, UNCHANGED <<expiry, wasClosed>>,
           \/ \E c \in Caller : NotifyAll(c)
           \/ \E r \in Reader : ReadProceeds(r) \/ SpuriousWake(r)
    PROVE  /\ Pinned' /\ hand'[Pin] = hand[Pin]
           /\ got'[Main] = "eof" => got[Main] = "eof" \/ closed
           /\ rpc[Main] = "out" => rpc'[Main] = "out" /\ got'[Main] = got[Main]
<1>m. Main \in Reader
  BY ZenonT(60), AsyncAssumption
<1>1. ASSUME NEW c \in Caller, NotifyAll(c)
      PROVE  /\ UNCHANGED <<stateVars, hand, got>>
             /\ rpc[Main] = "out" => rpc'[Main] = "out"
  BY ZenonT(60), <1>m, <1>1 DEF NotifyAll, TypeOK
<1>2. ASSUME NEW r \in Reader, ReadProceeds(r) \/ SpuriousWake(r)
      PROVE  /\ UNCHANGED <<keepers, closed, cancelled, hand>>
             /\ got'[Main] = "eof" => got[Main] = "eof" \/ closed \/ cancelled
             /\ rpc[Main] = "out" => rpc'[Main] = "out" /\ got'[Main] = got[Main]
  BY SMTT(60), <1>m, <1>2 DEF ReadProceeds, ReadData, ReadFails, ReadEof,
     ReadParks,
     ReadReturns, SpuriousWake, TypeOK, stateVars
<1>3. UNCHANGED <<keepers, closed, cancelled, hand>>
  BY Zenon, <1>1, <1>2 DEF stateVars
<1>4. Pinned'
  BY Zenon, <1>3 DEF Pinned
<1>5. cancelled = FALSE
  BY Zenon DEF Pinned
<1> QED
  BY ZenonT(60), <1>1, <1>2, <1>3, <1>4, <1>5

\* Entering read_into forgets the last result and touches nothing else.
LEMMA CallKeepsPinned ==
    ASSUME TypeOK, Pinned, UNCHANGED <<expiry, wasClosed>>,
           NEW r \in Reader, CallRead(r)
    PROVE  Pinned' /\ (got'[Main] = "eof" => got[Main] = "eof")
<1>1. UNCHANGED <<stateVars, hand>>
  BY Zenon DEF CallRead
<1>2. got'[Main] = "eof" => got[Main] = "eof"
  BY Zenon, AsyncAssumption DEF CallRead, TypeOK
<1> QED
  BY Zenon, <1>1, <1>2 DEF Pinned, stateVars

\* The root flow preserves the invariant.
LEMMA RootKeepsAInv == TypeOK /\ AInv /\ RootStep => AInv'
<1> SUFFICES ASSUME TypeOK, AInv, RootStep PROVE AInv'
  BY Zenon
<1> USE DEF AInv
<1>1. CASE RootAttaches \/ RootWrites \/ RootDetaches
  <2>1. /\ UNCHANGED <<body, wpc, at, out, expiry, wasClosed>>
        /\ BeforeSpawn /\ BeforeSpawn'
    BY Zenon, <1>1 DEF RootAttaches, RootWrites, RootDetaches, BeforeSpawn,
       taskVars
  <2>2. Pinned' /\ hand'[Pin] = hand[Pin] /\ UNCHANGED readVars
    BY ZenonT(60), <1>1, <2>1, AsyncAssumption, WriterKeepsPinned
       DEF RootAttaches, RootWrites, RootDetaches
  <2>3. Flow'
    BY ZenonT(60), <2>1, <2>2 DEF Flow, readVars
  <2> QED
    BY Zenon, <2>1, <2>2, <2>3 DEF FlowType, Plan
<1>2. CASE Spawn
  <2>1. /\ BeforeSpawn /\ ~BeforeSpawn' /\ wpc' = "step"
        /\ UNCHANGED <<body, at, out>>
        /\ expiry' = LastProducer(body) /\ (wasClosed' <=> closed)
    BY ZenonT(60), <1>2 DEF Spawn, BeforeSpawn
  <2>2. body \in Bodies /\ expiry = 0 /\ hand[Pin] = "none" /\ keepers = 0
    BY ZenonT(60), <2>1 DEF FlowType, Flow, Pinned
  <2>3. /\ LastProducer(body) = 0 <=> Produces(body) = {}
        /\ LastProducer(body) \in Nat
        /\ \A i \in Produces(body) : i \in Nat /\ i =< LastProducer(body)
        /\ LastProducer(body) # 0 => LastProducer(body) \in Produces(body)
    BY ZenonT(60), <2>2, LastProducerIsLast
  <2>4. /\ UNCHANGED <<readVars, closed, cancelled>>
        /\ expiry' # 0 => hand'[Pin] = "held" /\ keepers' = 1
        /\ expiry' = 0 => UNCHANGED <<hand, keepers>>
    <3>1. Pin \in Handle
      BY Zenon, AsyncAssumption DEF Handle
    <3>2. CASE Produces(body) = {}
      BY ZenonT(60), <1>2, <2>1, <2>3, <3>2 DEF Spawn, vars, stateVars
    <3>3. CASE Produces(body) # {}
      BY SMTT(60), <1>2, <2>1, <2>2, <2>3, <3>1, <3>3 DEF Spawn, PinKeeper,
         TypeOK
    <3> QED
      BY ZenonT(60), <3>2, <3>3
  <2>5. Pinned'
    BY Zenon, <2>1, <2>2, <2>4 DEF Pinned
  <2>6. Flow'
    BY Zenon, <2>1, <2>4 DEF Flow, readVars
  <2>7. Plan'
    <3>1. at.step = 1
      BY Zenon, <2>1 DEF Flow
    <3>2. expiry' # 0 => at'.step =< expiry'
      BY SMTT(60), <2>1, <2>3, <3>1
    <3>3. expiry' = 0 => Remaining' = {}
      BY Zenon, <2>1, <2>3 DEF Remaining
    <3> QED
      BY Zenon, <2>1, <3>2, <3>3 DEF Plan
  <2> QED
    BY ZenonT(60), <2>1, <2>5, <2>6, <2>7 DEF FlowType
<1>3. CASE RootReads
  <2>1. UNCHANGED taskVars /\ CallRead(Main) /\ mpc = "consume"
    BY Zenon, <1>3 DEF RootReads
  <2>2. Pinned' /\ (got'[Main] = "eof" => got[Main] = "eof" \/ closed)
    BY ZenonT(60), <2>1, AsyncAssumption, CallKeepsPinned DEF taskVars
  <2>3. Flow'
    BY ZenonT(60), <2>1, <2>2 DEF Flow, Pinned, BeforeSpawn, taskVars
  <2> QED
    BY Zenon, <2>1, <2>2, <2>3 DEF FlowType, Plan, Remaining, BeforeSpawn,
       taskVars
<1>4. CASE RootReadDone
  BY ZenonT(60), <1>4 DEF RootReadDone, FlowType, Pinned, Flow, Plan,
     Remaining, BeforeSpawn,
     vars, stateVars, readVars
<1> QED
  BY Zenon, <1>1, <1>2, <1>3, <1>4 DEF RootStep

\* The worker preserves the invariant while it is inside a command.
LEMMA CommandKeepsAInv ==
    ASSUME TypeOK, AInv,
           \/ WorkerSkips \/ \E w \in Writer : WorkerAttaches(w)
           \/ WorkerWrites \/ WorkerDetaches \/ WorkerReads \/ WorkerReadDone
    PROVE  AInv'
<1> USE DEF AInv
<1>1. /\ UNCHANGED <<body, mpc, at, expiry, wasClosed>>
      /\ wpc \notin {"unborn", "end"} /\ wpc' \notin {"unborn", "end"}
  BY ZenonT(60) DEF WorkerSkips, WorkerAttaches, WorkerWrites, WorkerDetaches,
     WorkerReads,
     WorkerReadDone
<1>2. ~BeforeSpawn /\ ~BeforeSpawn'
  BY Zenon, <1>1 DEF Flow, BeforeSpawn
<1>3. FlowType'
  BY Zenon, <1>1 DEF FlowType, WorkerSkips, WorkerAttaches, WorkerWrites,
     WorkerDetaches,
     WorkerReads, WorkerReadDone
<1>4. Pinned' /\ (got'[Main] = "eof" => got[Main] = "eof" \/ closed)
  <2>1. CASE WorkerSkips \/ WorkerReadDone
    <3>1. UNCHANGED <<keepers, closed, cancelled, hand, got>>
      BY ZenonT(60), <2>1 DEF WorkerSkips, WorkerReadDone, vars, stateVars,
         readVars
    <3> QED
      BY ZenonT(60), <1>1, <3>1 DEF Pinned
  <2>2. ASSUME NEW w \in Writer, WorkerAttaches(w)
        PROVE  Pinned' /\ UNCHANGED readVars
    BY ZenonT(60), <1>1, <2>2, WriterKeepsPinned DEF WorkerAttaches
  <2>3. CASE WorkerWrites \/ WorkerDetaches
    BY ZenonT(60), <1>1, <2>3, WriterKeepsPinned
       DEF WorkerWrites, WorkerDetaches, FlowType, readVars
  <2>4. CASE WorkerReads
    BY ZenonT(60), <1>1, <2>4, AsyncAssumption, CallKeepsPinned DEF WorkerReads
  <2> QED
    BY ZenonT(60), <2>1, <2>2, <2>3, <2>4 DEF readVars
<1>5. Flow'
  BY ZenonT(60), <1>1, <1>2, <1>4 DEF Flow, Pinned
<1>6. Plan'
  BY ZenonT(60), <1>1, <1>2 DEF Plan, Remaining
<1> QED
  BY ZenonT(60), <1>3, <1>4, <1>5, <1>6

\* Dropping the worker's state preserves the invariant: nothing is left to
\* write.
LEMMA DropKeepsAInv ==
    ASSUME TypeOK, AInv, wpc # "unborn", DropState
    PROVE  AInv'
<1> USE DEF AInv
<1>1. UNCHANGED <<body, mpc, at, out, wasClosed>> /\ expiry' = 0 /\ wpc' = "end"
  BY Zenon DEF DropState
<1>2. ~BeforeSpawn /\ ~BeforeSpawn'
  BY Zenon, <1>1 DEF Flow, BeforeSpawn
<1>3. Pinned' /\ UNCHANGED readVars
  <2>1. CASE expiry = 0
    BY ZenonT(60), <1>1, <2>1 DEF DropState, Pinned, vars, stateVars
  <2>2. CASE expiry # 0
    BY ZenonT(60), <1>1, <2>2, UnpinKeepsPinned DEF DropState
  <2> QED
    BY ZenonT(60), <2>1, <2>2
<1> QED
  BY ZenonT(60), <1>1, <1>2, <1>3 DEF FlowType, Flow, Plan, Remaining

\* The end of a command preserves the invariant: the keeper goes with the
\* last writing step and not before (expire_step).
LEMMA AdvanceKeepsAInv ==
    ASSUME TypeOK, AInv, WorkerAdvances
    PROVE  AInv'
<1> USE DEF AInv
<1>1. /\ UNCHANGED <<body, mpc, out, wasClosed>> /\ at' = NextPosition
      /\ wpc = "stepped" /\ wpc' \in {"step", "last"}
      /\ expiry' = IF Expires THEN 0 ELSE expiry
  BY Zenon DEF WorkerAdvances
<1>2. ~BeforeSpawn /\ ~BeforeSpawn'
  BY ZenonT(60), <1>1 DEF Flow, BeforeSpawn
<1>3. /\ LastProducer(body) \in Nat
      /\ LastProducer(body) = 0 <=> Produces(body) = {}
      /\ \A i \in Produces(body) : i \in Nat /\ i =< LastProducer(body)
  BY Zenon, LastProducerIsLast DEF FlowType
<1>4. at.step \in Nat /\ at.cmd \in Nat
  BY Zenon DEF FlowType
<1>5. /\ at' \in [step : Nat, cmd : Nat]
      /\ at'.step = IF EndsStep THEN at.step + 1 ELSE at.step
  BY SMTT(60), <1>1, <1>4 DEF NextPosition, FlowType
<1>6. Pinned' /\ UNCHANGED readVars
  <2>1. CASE ~Expires
    BY SMTT(60), <1>1, <2>1 DEF WorkerAdvances, Pinned, vars, stateVars
  <2>2. CASE Expires /\ expiry # 0
    BY Zenon, <1>1, <2>2, UnpinKeepsPinned DEF WorkerAdvances
  <2>3. CASE Expires /\ expiry = 0
    <3>1. hand[Pin] # "held" /\ UnpinKeeper(Pin)
      BY Zenon, <2>3 DEF WorkerAdvances, Pinned
    <3> QED
      BY Zenon, <3>1 DEF UnpinKeeper, Release
  <2> QED
    BY Zenon, <2>1, <2>2, <2>3
<1>7. Flow'
  BY Zenon, <1>1, <1>2, <1>6 DEF Flow, readVars
<1>8. Plan'
  <2>1. CASE Expires /\ expiry # 0
    <3>1. expiry = LastProducer(body) /\ at'.step = LastProducer(body) + 1
      BY Zenon, <1>5, <2>1 DEF Plan, Expires
    <3>2. Remaining' = {}
      BY SMTT(60), <1>1, <1>3, <3>1 DEF Remaining
    <3> QED
      BY Zenon, <1>1, <2>1, <3>2 DEF Plan
  <2>2. CASE ~Expires /\ expiry # 0
    BY SMTT(60), <1>1, <1>3, <1>4, <1>5, <2>2 DEF Plan, Expires
  <2>3. CASE expiry = 0
    <3>1. \A i \in Produces(body) : ~(i >= at.step)
      BY Zenon, <1>1, <1>2, <2>3 DEF Plan, Remaining
    <3>2. Remaining' = {}
      BY SMTT(60), <1>1, <1>3, <1>4, <1>5, <3>1 DEF Remaining
    <3> QED
      BY Zenon, <1>1, <1>2, <2>3, <3>2 DEF Plan
  <2> QED
    BY Zenon, <2>1, <2>2, <2>3
<1> QED
  BY ZenonT(60), <1>1, <1>5, <1>6, <1>7, <1>8 DEF FlowType

\* Every step of the two flows preserves the invariant.
LEMMA AsyncStep == TypeOK /\ AInv /\ [AsyncNext]_allVars => AInv'
<1> SUFFICES ASSUME TypeOK, AInv, [AsyncNext]_allVars PROVE AInv'
  BY Zenon
<1>1. CASE RootStep
  BY Zenon, <1>1, RootKeepsAInv
<1>2. CASE WorkerStep
  <2>1. CASE WorkerFails \/ WorkerEnds
    BY ZenonT(60), <2>1, DropKeepsAInv DEF WorkerFails, WorkerEnds
  <2> QED
    BY Zenon, <1>2, <2>1, CommandKeepsAInv, AdvanceKeepsAInv DEF WorkerStep
<1>3. CASE WorkerCancelled
  BY ZenonT(60), <1>3, DropKeepsAInv DEF WorkerCancelled
<1>4. CASE Background
  <2>1. UNCHANGED taskVars
    BY Zenon, <1>4 DEF Background
  <2>2. /\ Pinned' /\ hand'[Pin] = hand[Pin]
        /\ got'[Main] = "eof" => got[Main] = "eof" \/ closed
        /\ rpc[Main] = "out" => rpc'[Main] = "out" /\ got'[Main] = got[Main]
    BY ZenonT(60), <1>4, <2>1, SchedulerKeepsPinned DEF Background, AInv,
       taskVars
  <2>3. Flow'
    BY ZenonT(60), <2>1, <2>2 DEF AInv, Flow, Pinned, BeforeSpawn, taskVars
  <2> QED
    BY ZenonT(60), <2>1, <2>2, <2>3 DEF AInv, FlowType, Plan, Remaining,
       BeforeSpawn, taskVars
<1>5. CASE UNCHANGED allVars
  BY ZenonT(60), <1>5 DEF AInv, FlowType, Pinned, Flow, Plan, Remaining,
     BeforeSpawn, allVars,
     taskVars, vars, stateVars, readVars
<1> QED
  BY Zenon, <1>1, <1>2, <1>3, <1>4, <1>5 DEF AsyncNext, Done

\* The invariant holds in every state of the two flows.
THEOREM AsyncInductive == AsyncSpec => []AInv
<1>1. TypeOK /\ AInv /\ [AsyncNext]_allVars => AInv'
  BY Zenon, AsyncStep
<1>2. AsyncSpec => []TypeOK
  BY AsyncUsesPipe, Inductive, PTL DEF IInv
<1> QED
  BY <1>1, <1>2, AsyncStart, PTL DEF AsyncSpec

\* The outside reader is told of the end of the stream only when no step of
\* the task will write any more, for any body, any number of handles and any
\* interleaving of the two flows.
THEOREM StreamEndsOnce == AsyncSpec => []StreamIsComplete
<1>1. AInv => StreamIsComplete
  BY ZenonT(60) DEF AInv, Flow, Plan, StreamIsComplete, BeforeSpawn
<1> QED
  BY <1>1, AsyncInductive, PTL

\* The keeper is held exactly while a writing step lies ahead.
THEOREM KeeperSpansWrites == AsyncSpec => []KeeperWhileProducing
<1>1. AInv => KeeperWhileProducing
  <2> SUFFICES ASSUME AInv, wpc # "unborn"
               PROVE  /\ (expiry # 0) = (hand[Pin] = "held")
                      /\ (expiry # 0) = (Remaining # {})
    BY Zenon DEF KeeperWhileProducing
  <2>1. ~BeforeSpawn
    BY Zenon DEF AInv, Flow
  <2>2. ASSUME expiry # 0 PROVE expiry \in Remaining
    <3>1. expiry = LastProducer(body) /\ at.step =< expiry /\ at.step \in Nat
      BY Zenon, <2>2 DEF AInv, Plan, FlowType
    <3>2. expiry \in Produces(body) /\ expiry \in Nat
      BY ZenonT(60), <2>2, <3>1, LastProducerIsLast DEF AInv, FlowType
    <3>3. wpc # "end"
      BY Zenon, <2>2 DEF AInv, Flow
    <3> QED
      BY ZenonT(60), <3>1, <3>2, <3>3 DEF Remaining
  <2> QED
    BY ZenonT(60), <2>1, <2>2 DEF AInv, Pinned, Plan
<1> QED
  BY <1>1, AsyncInductive, PTL
=============================================================================

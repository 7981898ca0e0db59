--------------------------- MODULE NetworkProofs ----------------------------
(***************************************************************************)
(* Proofs about what the network functions wait on and share, for any      *)
(* tasks and calls: the cancellation hub and the session queue (PumpHub),  *)
(* the two directions of a socket session (NetPump), and the services      *)
(* that listeners claim and give back (Endpoints).                         *)
(***************************************************************************)
EXTENDS PumpHub, NetPump, Endpoints, FiniteSetTheorems, TLAPS

TypeOK ==
    /\ flag \in [Task -> BOOLEAN]
    /\ seq \in [Task -> Nat] /\ seen \in [Task -> Nat]
    /\ pc \in [Task -> {"idle", "start", "drain", "test", "wait", "parked", "check", "read",
                        "pop", "queue", "asleep", "queued", "release", "join"}]
    /\ sent \in [Task -> SUBSET Dir]
    /\ worker \in [Task -> [Dir -> {"none", "body", "send", "poke"}]]
    /\ guard \in [Task -> {"none", "new", "wait", "parked", "fire", "gone"}]
    /\ pending \in Nat

\* A thread that is not in a guarded call has no guard; a parked supervisor
\* has seen every poke; and a completion it has not drained was either sent
\* by a worker that is about to poke or followed by a poke it has not seen.
Sound(t) ==
    /\ pc[t] \in {"idle", "start", "drain", "test", "wait", "parked"} => guard[t] = "none"
    /\ seen[t] =< seq[t]
    /\ pc[t] = "parked" => ~flag[t] /\ seq[t] = seen[t]
    /\ pc[t] \in {"test", "wait", "parked"} =>
          \A d \in sent[t] : worker[t][d] = "poke" \/ seq[t] # seen[t]

\* The mutex is held across the two halves of a sleep, so no session arrives
\* in between.
Queue ==
    /\ \A t \in Task : pc[t] = "asleep" => qlock = {t} /\ pending = 0
    /\ NoStrandedSession

HInv == TypeOK /\ (\A t \in Task : Sound(t)) /\ Queue

-----------------------------------------------------------------------------
(* The hub and the queue *)

\* A step of the task t leaves what the invariant says of the others alone.
Others(t) ==
    \A u \in Task \ {t} :
        /\ pc'[u] = pc[u] /\ flag'[u] = flag[u] /\ seq'[u] = seq[u] /\ seen'[u] = seen[u]
        /\ sent'[u] = sent[u] /\ worker'[u] = worker[u] /\ guard'[u] = guard[u]

\* What holds of the task that moved and of the others before holds of all.
LEMMA OthersSound ==
    ASSUME \A u \in Task : Sound(u), NEW t \in Task, Others(t), Sound(t)'
    PROVE  \A u \in Task : Sound(u)'
BY DEF Others, Sound

\* A step that moves no thread into, out of or within the queue.
LEMMA QueueStands ==
    ASSUME Queue, UNCHANGED <<pending, qlock>>,
           \A u \in Task : \A p \in {"queue", "queued", "asleep"} : pc'[u] = p <=> pc[u] = p
    PROVE  Queue'
<1>1. Sleepers' = Sleepers /\ {t \in Task : pc'[t] = "queue"} = {t \in Task : pc[t] = "queue"}
  BY Zenon DEF Sleepers
<1> QED
  BY Zenon, <1>1 DEF Queue, NoStrandedSession

\* A poke raises the sequence and wakes a parked supervisor: what was sent
\* before it is seen.
LEMMA PokeSound ==
    ASSUME TypeOK, NEW t \in Task, Sound(t), Poke(t, NotifyPc(t)),
           UNCHANGED <<seen, sent>>,
           \A u \in Task \ {t} : worker'[u] = worker[u]
    PROVE  /\ Sound(t)' /\ Others(t)
           /\ flag' = flag /\ seq' \in [Task -> Nat]
           /\ pc' = [pc EXCEPT ![t] = NotifyPc(t)]
           /\ guard' \in [Task -> {"none", "new", "wait", "parked", "fire", "gone"}]
<1>1. /\ seq' = [seq EXCEPT ![t] = seq[t] + 1] /\ pc' = [pc EXCEPT ![t] = NotifyPc(t)]
      /\ guard' = [guard EXCEPT ![t] = NotifyGuard(t)] /\ flag' = flag
  BY Zenon DEF Poke
<1>2. /\ seq'[t] = seq[t] + 1 /\ seq[t] \in Nat /\ seen[t] \in Nat /\ seen'[t] = seen[t]
      /\ pc'[t] = NotifyPc(t) /\ guard'[t] = NotifyGuard(t)
  BY Zenon, <1>1 DEF TypeOK
<1>3. Others(t)
  BY Zenon, <1>1 DEF Others, TypeOK
<1>4. pc'[t] # "parked" /\ seq'[t] # seen'[t] /\ seen'[t] =< seq'[t]
  BY SMTT(60), <1>2 DEF Sound, NotifyPc
<1>5. Sound(t)'
  BY Zenon, <1>2, <1>4 DEF Sound, NotifyPc, NotifyGuard
<1>6. seq' \in [Task -> Nat]
  BY SMTT(60), <1>1 DEF TypeOK
<1>7. guard' \in [Task -> {"none", "new", "wait", "parked", "fire", "gone"}]
  BY Zenon, <1>1 DEF TypeOK, NotifyGuard
<1> QED
  BY Zenon, <1>1, <1>3, <1>5, <1>6, <1>7

\* Starting and cancelling calls.
LEMMA StartKeeps ==
    ASSUME HInv, NEW t \in Task,
           \/ StoreToken(t) \/ MarkCancelled(t)
           \/ \E k \in Session : StartSession(t, k)
           \/ \E k \in Guarded : StartGuarded(t, k)
    PROVE  HInv'
<1> USE DEF HInv
<1>1. CASE StoreToken(t)
  <2>1. UNCHANGED <<flag, seq, seen, pc, sent, worker, guard, pending, qlock>>
    BY Zenon, <1>1 DEF StoreToken, hubVars, workVars, supVars, guardVars,
       queueVars
  <2> QED
    BY Zenon, <2>1, QueueStands DEF TypeOK, Sound
<1>2. CASE MarkCancelled(t)
  <2>1. /\ UNCHANGED <<seen, sent, worker, pending, qlock>>
        /\ flag' = [flag EXCEPT ![t] = TRUE] /\ seq' = [seq EXCEPT ![t] = seq[t] + 1]
        /\ pc' = [pc EXCEPT ![t] = NotifyPc(t)]
        /\ guard' = [guard EXCEPT ![t] = NotifyGuard(t)]
    BY Zenon, <1>2 DEF MarkCancelled, workVars, supVars, queueVars
  <2>2. TypeOK'
    BY SMTT(60), <2>1 DEF TypeOK, NotifyPc, NotifyGuard
  <2>3. Others(t)
    BY ZenonT(60), <2>1 DEF TypeOK, Others
  <2>4. Sound(t)'
    BY SMTT(60), <2>1 DEF TypeOK, Sound, NotifyPc, NotifyGuard
  <2>5. Queue'
    BY Zenon, <2>1, QueueStands DEF TypeOK, NotifyPc
  <2> QED
    BY Zenon, <2>2, <2>3, <2>4, <2>5, OthersSound
<1>3. ASSUME NEW k \in Session, StartSession(t, k) PROVE HInv'
  <2>1. /\ UNCHANGED <<flag, seq, seen, guard, pending, qlock>>
        /\ worker' = [worker EXCEPT ![t] = [d \in Dir |-> "body"]]
        /\ sent' = [sent EXCEPT ![t] = {}]
        /\ pc[t] = "idle" /\ pc' = [pc EXCEPT ![t] = "start"]
    BY Zenon, <1>3 DEF StartSession, MayCall, hubVars, guardVars, queueVars
  <2>2. TypeOK'
    BY Zenon, <2>1 DEF TypeOK
  <2>3. Others(t) /\ Sound(t)'
    BY ZenonT(60), <2>1 DEF TypeOK, Others, Sound
  <2>4. Queue'
    BY ZenonT(60), <2>1, QueueStands DEF TypeOK
  <2> QED
    BY Zenon, <2>2, <2>3, <2>4, OthersSound
<1>4. ASSUME NEW k \in Guarded, StartGuarded(t, k) PROVE HInv'
  <2>1. /\ UNCHANGED <<flag, seq, seen, sent, worker, pending, qlock>>
        /\ guard' = [guard EXCEPT ![t] = "new"]
        /\ pc[t] = "idle" /\ pc' = [pc EXCEPT ![t] = "check"]
    BY ZenonT(60), <1>4 DEF StartGuarded, MayCall, hubVars, workVars, supVars,
       queueVars
  <2>2. TypeOK'
    BY ZenonT(60), <2>1 DEF TypeOK
  <2>3. Others(t) /\ Sound(t)'
    BY ZenonT(60), <2>1 DEF TypeOK, Others, Sound
  <2>4. Queue'
    BY ZenonT(60), <2>1, QueueStands DEF TypeOK
  <2> QED
    BY ZenonT(60), <2>2, <2>3, <2>4, OthersSound
<1> QED
  BY Zenon, <1>1, <1>2, <1>3, <1>4

\* The supervisor: it parks only when its sequence is current, and drains
\* everything before it tests.
LEMMA SupervisorKeeps ==
    ASSUME HInv, NEW t \in Task,
           ReadSequence(t) \/ Drain(t) \/ Test(t) \/ HubWait(t)
    PROVE  HInv'
<1> USE DEF HInv
<1>1. /\ UNCHANGED <<flag, seq, worker, guard, pending, qlock>>
      /\ pc[t] \in {"start", "drain", "test", "wait"}
      /\ \E p \in {"idle", "drain", "test", "wait", "parked"} : pc' = [pc EXCEPT ![t] = p]
      /\ \A u \in Task \ {t} : seen'[u] = seen[u] /\ sent'[u] = sent[u]
  BY SMTT(60) DEF ReadSequence, Drain, Test, HubWait, TypeOK, hubVars,
     workVars, supVars, guardVars,
     queueVars
<1>2. seen' \in [Task -> Nat] /\ sent' \in [Task -> SUBSET Dir]
  BY SMTT(60) DEF ReadSequence, Drain, Test, HubWait, TypeOK, supVars, workVars
<1>3. TypeOK'
  BY ZenonT(60), <1>1, <1>2 DEF TypeOK
<1>4. Others(t)
  BY Zenon, <1>1 DEF TypeOK, Others
<1>5. Sound(t)'
  <2>1. CASE ReadSequence(t)
    BY <1>1, <2>1 DEF ReadSequence, TypeOK, Sound, workVars
  <2>2. CASE Drain(t)
    BY ZenonT(60), <1>1, <2>2 DEF Drain, TypeOK, Sound
  <2>3. CASE Test(t)
    BY ZenonT(60), <1>1, <2>3 DEF Test, TypeOK, Sound, workVars
  <2>4. CASE HubWait(t)
    BY SMTT(60), <1>1, <2>4 DEF HubWait, Passed, TypeOK, Sound, workVars
  <2> QED
    BY Zenon, <2>1, <2>2, <2>3, <2>4
<1>6. Queue'
  BY ZenonT(60), <1>1, QueueStands DEF TypeOK
<1> QED
  BY ZenonT(60), <1>3, <1>4, <1>5, <1>6, OthersSound

\* The workers: a completion is sent before the poke that announces it.
LEMMA WorkerKeeps ==
    ASSUME HInv, NEW t \in Task,
           \/ \E good \in BOOLEAN : InputEnds(t, good)
           \/ OutputEnds(t) \/ OutputWoken(t) \/ LatePoke(t)
           \/ \E d \in Dir : Deliver(t, d)
    PROVE  HInv'
<1> USE DEF HInv
<1>1. ASSUME UNCHANGED <<flag, seq, seen, pc, sent, guard, pending, qlock>>,
             NEW d \in Dir, worker[t][d] = "body",
             worker' = [worker EXCEPT ![t][d] = "send"]
      PROVE  HInv'
  <2>1. TypeOK'
    BY ZenonT(60), <1>1 DEF TypeOK
  <2>2. Others(t) /\ Sound(t)'
    BY ZenonT(60), <1>1 DEF TypeOK, Others, Sound
  <2>3. Queue'
    BY Zenon, <1>1, QueueStands
  <2> QED
    BY Zenon, <2>1, <2>2, <2>3, OthersSound
<1>2. ASSUME NEW good \in BOOLEAN, InputEnds(t, good) PROVE HInv'
  BY Zenon, <1>1, <1>2 DEF InputEnds, EndBody, Dir, hubVars, supVars,
     guardVars, queueVars
<1>3. CASE OutputEnds(t)
  BY Zenon, <1>1, <1>3 DEF OutputEnds, EndBody, Dir, hubVars, supVars,
     guardVars, queueVars
<1>4. CASE OutputWoken(t)
  <2>1. /\ UNCHANGED <<flag, seq, seen, pc, sent, guard, pending, qlock>>
        /\ worker[t]["out"] = "body" /\ (EndBody(t, "out") \/ worker' = worker)
    BY ZenonT(60), <1>4 DEF OutputWoken, hubVars, guardVars, queueVars
  <2>2. CASE worker' = worker
    BY ZenonT(60), <2>1, <2>2, QueueStands DEF TypeOK, Sound
  <2> QED
    BY ZenonT(60), <1>1, <2>1, <2>2 DEF EndBody, Dir
<1>5. ASSUME Poke(t, NotifyPc(t)), UNCHANGED <<seen, sent, pending, qlock>>,
             worker' \in [Task -> [Dir -> {"none", "body", "send", "poke"}]],
             \A u \in Task \ {t} : worker'[u] = worker[u]
      PROVE  HInv'
  <2>1. /\ Sound(t)' /\ Others(t)
        /\ flag' = flag /\ seq' \in [Task -> Nat]
        /\ pc' = [pc EXCEPT ![t] = NotifyPc(t)]
        /\ guard' \in [Task -> {"none", "new", "wait", "parked", "fire", "gone"}]
    BY ZenonT(60), <1>5, PokeSound
  <2>2. TypeOK'
    BY ZenonT(60), <1>5, <2>1 DEF TypeOK, NotifyPc
  <2>3. Queue'
    BY ZenonT(60), <1>5, <2>1, QueueStands DEF TypeOK, NotifyPc
  <2> QED
    BY ZenonT(60), <2>1, <2>2, <2>3, OthersSound
<1>6. CASE LatePoke(t)
  BY ZenonT(60), <1>5, <1>6 DEF LatePoke, TypeOK, supVars, queueVars
<1>7. ASSUME NEW d \in Dir, Deliver(t, d) PROVE HInv'
  <2>0. UNCHANGED <<seen, pending, qlock>>
    BY ZenonT(60), <1>7 DEF Deliver, supVars, queueVars
  <2>1. CASE /\ worker[t][d] = "send" /\ worker' = [worker EXCEPT ![t][d] = "poke"]
             /\ sent' = [sent EXCEPT ![t] = sent[t] \cup {d}]
             /\ UNCHANGED <<hubVars, pc, guard>>
    <3>1. TypeOK'
      BY ZenonT(60), <2>0, <2>1 DEF TypeOK, hubVars
    <3>2. Others(t) /\ Sound(t)'
      BY SMTT(60), <2>0, <2>1 DEF TypeOK, Others, Sound, hubVars
    <3>3. Queue'
      BY Zenon, <2>0, <2>1, QueueStands
    <3> QED
      BY Zenon, <3>1, <3>2, <3>3, OthersSound
  <2>2. CASE /\ worker' = [worker EXCEPT ![t][d] = "none"]
             /\ Poke(t, NotifyPc(t)) /\ UNCHANGED sent
    BY Zenon, <1>5, <2>0, <2>2 DEF TypeOK
  <2> QED
    BY ZenonT(60), <1>7, <2>1, <2>2 DEF Deliver
<1> QED
  BY Zenon, <1>2, <1>3, <1>4, <1>6, <1>7

\* Steps of a call that touch neither the hub nor the queue's threads.
LEMMA CallKeeps ==
    ASSUME HInv, NEW t \in Task,
           \/ GuardStarts(t) \/ GuardWaits(t) \/ SourceEnds(t)
           \/ Release(t) \/ Join(t) \/ Check(t) \/ ReadChunk(t) \/ CopyFails(t) \/ ReadEnd(t)
    PROVE  HInv'
<1> USE DEF HInv
<1>1. ASSUME UNCHANGED <<flag, seq, seen, sent, worker, pending, qlock>>,
             NEW p, NEW g \in {"none", "new", "wait", "parked", "fire", "gone"},
             pc' = [pc EXCEPT ![t] = p], guard' = [guard EXCEPT ![t] = g],
             \/ p = pc[t] /\ guard[t] \in {"new", "wait"}
             \/ p = pc[t] /\ g = guard[t]
             \/ pc[t] \in {"check", "read"} /\ p \in {"check", "read", "pop", "release"}
             \/ pc[t] = "join" /\ p = "idle" /\ g = "none"
      PROVE  HInv'
  <2>1. TypeOK'
    BY ZenonT(60), <1>1 DEF TypeOK
  <2>2. Others(t) /\ Sound(t)'
    BY ZenonT(60), <1>1 DEF TypeOK, Others, Sound
  <2>3. Queue'
    BY ZenonT(60), <1>1, QueueStands DEF TypeOK
  <2> QED
    BY Zenon, <2>1, <2>2, <2>3, OthersSound
<1>2. CASE GuardStarts(t)
  <2>1. /\ UNCHANGED <<flag, seq, seen, sent, worker, pending, qlock>>
        /\ guard[t] = "new" /\ guard' = [guard EXCEPT ![t] = "wait"]
        /\ pc' = [pc EXCEPT ![t] = pc[t]]
    BY ZenonT(60), <1>2 DEF GuardStarts, TypeOK, hubVars, workVars, supVars,
       queueVars
  <2> QED
    BY ZenonT(60), <1>1, <2>1
<1>3. CASE GuardWaits(t)
  <2>1. /\ UNCHANGED <<flag, seq, seen, sent, worker, pending, qlock>>
        /\ guard[t] = "wait"
        /\ \E g \in {"parked", "fire", "gone"} : guard' = [guard EXCEPT ![t] = g]
        /\ pc' = [pc EXCEPT ![t] = pc[t]]
    BY ZenonT(60), <1>3 DEF GuardWaits, TypeOK, hubVars, workVars, supVars,
       queueVars
  <2> QED
    BY ZenonT(60), <1>1, <2>1
<1>4. CASE SourceEnds(t)
  <2>1. UNCHANGED <<flag, seq, seen, pc, sent, worker, guard, pending, qlock>>
    BY ZenonT(60), <1>4 DEF SourceEnds, hubVars, workVars, supVars, queueVars
  <2> QED
    BY ZenonT(60), <2>1, QueueStands DEF TypeOK, Sound
<1>5. CASE Release(t)
  <2>1. /\ UNCHANGED <<flag, seen, sent, worker, pending, qlock>>
        /\ seq' = [seq EXCEPT ![t] = seq[t] + 1]
        /\ pc[t] = "release" /\ pc' = [pc EXCEPT ![t] = "join"]
        /\ guard' = [guard EXCEPT ![t] = NotifyGuard(t)]
    BY ZenonT(60), <1>5 DEF Release, Poke, workVars, supVars, queueVars
  <2>2. TypeOK'
    BY SMTT(60), <2>1 DEF TypeOK, NotifyGuard
  <2>3. Others(t) /\ Sound(t)'
    BY SMTT(60), <2>1 DEF TypeOK, Others, Sound
  <2>4. Queue'
    BY ZenonT(60), <2>1, QueueStands DEF TypeOK
  <2> QED
    BY ZenonT(60), <2>2, <2>3, <2>4, OthersSound
<1>6. CASE Join(t)
  <2>1. /\ UNCHANGED <<flag, seq, seen, sent, worker, pending, qlock>>
        /\ pc[t] = "join" /\ pc' = [pc EXCEPT ![t] = "idle"]
        /\ guard' = [guard EXCEPT ![t] = "none"]
    BY ZenonT(60), <1>6 DEF Join, hubVars, workVars, supVars, queueVars
  <2> QED
    BY ZenonT(60), <1>1, <2>1
<1>7. CASE Check(t) \/ ReadChunk(t) \/ CopyFails(t) \/ ReadEnd(t)
  <2>1. /\ UNCHANGED <<flag, seq, seen, sent, worker, pending, qlock>>
        /\ pc[t] \in {"check", "read"}
        /\ \E p \in {"check", "read", "pop", "release"} : pc' = [pc EXCEPT ![t] = p]
        /\ guard[t] \in {"none", "new", "wait", "parked", "fire", "gone"}
        /\ guard' = [guard EXCEPT ![t] = guard[t]]
    BY ZenonT(60), <1>7 DEF Check, ReadChunk, CopyFails, ReadEnd, Goto,
       TypeOK, hubVars, workVars, supVars,
       guardVars, queueVars
  <2> QED
    BY ZenonT(60), <1>1, <2>1
<1> QED
  BY Zenon, <1>2, <1>3, <1>4, <1>5, <1>6, <1>7

\* Steps on the queue move threads between the places of the queue and leave
\* the hubs alone.
LEMMA QueueSound ==
    ASSUME TypeOK, \A u \in Task : Sound(u),
           UNCHANGED <<flag, seq, seen, sent, worker>>,
           guard' \in [Task -> {"none", "new", "wait", "parked", "fire", "gone"}],
           pc' \in [Task -> {"idle", "start", "drain", "test", "wait", "parked", "check", "read",
                             "pop", "queue", "asleep", "queued", "release", "join"}],
           pending' \in Nat,
           \A u \in Task : \/ pc'[u] = pc[u] /\ (guard'[u] = guard[u] \/ guard[u] # "none")
                           \/ pc'[u] \in {"check", "queue", "asleep", "queued", "release"}
    PROVE  TypeOK' /\ \A u \in Task : Sound(u)'
BY ZenonT(60) DEF TypeOK, Sound

Awake == {t \in Task : pc[t] = "queue"}

\* push, signal_shutdown and the notification of a bridge: one session wakes
\* one consumer, the others wake everyone.
LEMMA WakingKeeps ==
    ASSUME HInv, IsFiniteSet(Task),
           Push \/ SignalShutdown \/ \E t \in Task : GuardFires(t)
    PROVE  HInv'
<1> USE DEF HInv
<1>1. CASE Push
  <2>1. /\ UNCHANGED <<flag, seq, seen, sent, worker, guard, qlock>>
        /\ qlock = {} /\ pending' = pending + 1
    BY ZenonT(60), <1>1 DEF Push, hubVars, workVars, supVars, guardVars
  <2>2. \A t \in Task : pc[t] # "asleep"
    BY ZenonT(60), <2>1 DEF Queue
  <2>3. CASE Sleepers = {} /\ pc' = pc
    <3>1. TypeOK' /\ \A u \in Task : Sound(u)'
      BY SMTT(60), <2>1, <2>3, QueueSound DEF TypeOK
    <3>2. Queue'
      BY Zenon, <2>1, <2>2, <2>3 DEF Queue, NoStrandedSession, Sleepers
    <3> QED
      BY ZenonT(60), <3>1, <3>2
  <2>4. ASSUME NEW t \in Sleepers, pc' = [pc EXCEPT ![t] = "queue"] PROVE HInv'
    <3>0. t \in Task /\ pc[t] = "queued"
      BY Zenon, <2>4 DEF Sleepers
    <3>1. TypeOK' /\ \A u \in Task : Sound(u)'
      <4>1. pc' \in [Task -> {"idle", "start", "drain", "test", "wait", "parked", "check", "read",
                              "pop", "queue", "asleep", "queued", "release", "join"}]
        BY Zenon, <2>4, <3>0 DEF TypeOK
      <4>2. \A u \in Task : pc'[u] = pc[u] \/ pc'[u] = "queue"
        BY ZenonT(60), <2>4, <3>0 DEF TypeOK
      <4> QED
        BY SMTT(60), <2>1, <4>1, <4>2, QueueSound DEF TypeOK
    <3>2. Awake' = Awake \cup {t} /\ t \notin Awake /\ IsFiniteSet(Awake)
      BY ZenonT(60), <2>4, <3>0, FS_Subset DEF TypeOK, Awake
    <3>3. Cardinality(Awake') = Cardinality(Awake) + 1 /\ Cardinality(Awake) \in Nat
      BY Zenon, <3>2, FS_AddElement, FS_CardinalityType
    <3>4. pending =< Cardinality(Awake)
      BY ZenonT(60), <2>4 DEF Queue, NoStrandedSession, Awake
    <3>5. NoStrandedSession'
      <4>1. pending' =< Cardinality(Awake')
        BY SMTT(60), <2>1, <3>3, <3>4 DEF TypeOK
      <4> QED
        BY ZenonT(60), <4>1 DEF NoStrandedSession, Awake
    <3>6. \A u \in Task : pc'[u] # "asleep"
      BY ZenonT(60), <2>2, <2>4, <3>0 DEF TypeOK
    <3> QED
      BY Zenon, <3>1, <3>5, <3>6 DEF Queue
  <2> QED
    BY ZenonT(60), <1>1, <2>3, <2>4 DEF Push
<1>2. ASSUME UNCHANGED <<flag, seq, seen, sent, worker, pending, qlock>>,
             guard' \in [Task -> {"none", "new", "wait", "parked", "fire", "gone"}],
             \A u \in Task : guard'[u] = guard[u] \/ guard[u] # "none",
             pc' = [u \in Task |-> IF pc[u] = "queued" THEN "queue" ELSE pc[u]]
      PROVE  HInv'
  <2>1. /\ pc' \in [Task -> {"idle", "start", "drain", "test", "wait", "parked", "check", "read",
                             "pop", "queue", "asleep", "queued", "release", "join"}]
        /\ \A u \in Task : pc'[u] = pc[u] \/ pc'[u] = "queue"
        /\ \A u \in Task : pc'[u] # "queued" /\ (pc'[u] = "asleep" <=> pc[u] = "asleep")
    BY ZenonT(60), <1>2 DEF TypeOK
  <2>2. TypeOK' /\ \A u \in Task : Sound(u)'
    BY ZenonT(60), <1>2, <2>1, QueueSound DEF TypeOK
  <2>3. Queue'
    BY ZenonT(60), <1>2, <2>1 DEF Queue, NoStrandedSession, Sleepers
  <2> QED
    BY Zenon, <2>2, <2>3
<1>3. CASE SignalShutdown
  BY Zenon, <1>2, <1>3 DEF SignalShutdown, TypeOK, hubVars, workVars,
     supVars, guardVars
<1>4. ASSUME NEW t \in Task, GuardFires(t) PROVE HInv'
  <2>1. /\ UNCHANGED <<flag, seq, seen, sent, worker, pending, qlock>>
        /\ guard[t] = "fire" /\ guard' = [guard EXCEPT ![t] = "gone"]
        /\ \/ pc' = pc
           \/ pc' = [u \in Task |-> IF pc[u] = "queued" THEN "queue" ELSE pc[u]]
    BY ZenonT(60), <1>4 DEF GuardFires, hubVars, workVars, supVars, queueVars
  <2>2. /\ guard' \in [Task -> {"none", "new", "wait", "parked", "fire", "gone"}]
        /\ \A u \in Task : guard'[u] = guard[u] \/ guard[u] # "none"
    BY ZenonT(60), <2>1 DEF TypeOK
  <2>3. CASE pc' = pc
    <3>1. TypeOK' /\ \A u \in Task : Sound(u)'
      BY ZenonT(60), <2>1, <2>2, <2>3, QueueSound DEF TypeOK
    <3> QED
      BY ZenonT(60), <2>1, <2>3, <3>1, QueueStands
  <2> QED
    BY Zenon, <1>2, <2>1, <2>2, <2>3
<1> QED
  BY Zenon, <1>1, <1>3, <1>4

\* A consumer: it takes a session or leaves only awake, and goes to sleep only
\* when there is none.
LEMMA ConsumerKeeps ==
    ASSUME HInv, IsFiniteSet(Task), NEW t \in Task,
           TryPop(t) \/ WaitBlocking(t) \/ Sleep(t)
    PROVE  HInv'
<1> USE DEF HInv
<1> DEFINE Frame == UNCHANGED <<flag, seq, seen, sent, worker, guard>>
<1>0. IsFiniteSet(Awake) /\ IsFiniteSet(Awake') /\ Cardinality(Awake) \in Nat
      /\ Cardinality(Awake') \in Nat
  BY ZenonT(60), FS_Subset, FS_CardinalityType DEF Awake
<1>1. /\ Frame /\ pc[t] \in {"pop", "queue", "asleep"} /\ pending' \in Nat
      /\ \E p \in {"check", "queue", "asleep", "queued", "release"} : pc' = [pc EXCEPT ![t] = p]
  BY SMTT(60) DEF TryPop, WaitBlocking, Sleep, PopOr, Goto, TypeOK, hubVars,
     workVars, supVars, guardVars
<1>2. TypeOK' /\ \A u \in Task : Sound(u)'
  <2>1. /\ pc' \in [Task -> {"idle", "start", "drain", "test", "wait", "parked", "check", "read",
                             "pop", "queue", "asleep", "queued", "release", "join"}]
        /\ \A u \in Task : \/ pc'[u] = pc[u]
                           \/ pc'[u] \in {"check", "queue", "asleep", "queued", "release"}
    BY ZenonT(60), <1>1 DEF TypeOK
  <2> QED
    BY Zenon, <1>1, <2>1, QueueSound DEF TypeOK
<1>3. ASSUME pending' = 0, \A u \in Task : pc'[u] = "asleep" => qlock' = {u}
      PROVE  Queue'
  <2>1. pending' =< Cardinality(Awake')
    BY SMTT(60), <1>0, <1>3
  <2> QED
    BY ZenonT(60), <1>3, <2>1 DEF Queue, NoStrandedSession, Awake
<1>4. ASSUME qlock = {}, qlock' = {}, pending > 0, pending' = pending - 1,
             pc[t] \in {"pop", "queue"}, pc' = [pc EXCEPT ![t] = "release"]
      PROVE  Queue'
  <2>1. \A u \in Task : pc'[u] # "asleep"
    BY Zenon, <1>4 DEF Queue, TypeOK
  <2>2. Sleepers' = Sleepers
    BY Zenon, <1>4 DEF Sleepers, TypeOK
  <2>3. Awake' = Awake \/ (t \in Awake /\ Awake' = Awake \ {t})
    BY ZenonT(60), <1>4 DEF Awake, TypeOK
  <2>4. Cardinality(Awake') >= Cardinality(Awake) - 1
    <3>1. CASE Awake' = Awake
      BY SMTT(60), <1>0, <3>1
    <3>2. CASE t \in Awake /\ Awake' = Awake \ {t}
      BY SMTT(60), <1>0, <3>2, FS_RemoveElement
    <3> QED
      BY ZenonT(60), <2>3, <3>1, <3>2
  <2>5. Sleepers # {} => pending' =< Cardinality(Awake')
    BY SMTT(60), <1>0, <1>4, <2>4 DEF Queue, NoStrandedSession, Awake, TypeOK
  <2> QED
    BY Zenon, <2>1, <2>2, <2>5 DEF Queue, NoStrandedSession, Awake
<1>5. CASE TryPop(t)
  <2>1. \A u \in Task : pc[u] # "asleep"
    BY ZenonT(60), <1>5 DEF TryPop, Queue
  <2>2. CASE pending > 0
    BY ZenonT(60), <1>2, <1>4, <1>5, <2>2 DEF TryPop, PopOr, Goto
  <2>3. CASE ~(pending > 0)
    <3>1. pending' = 0
      BY SMTT(60), <1>5, <2>3 DEF TryPop, PopOr, TypeOK
    <3>2. \A u \in Task : pc'[u] # "asleep"
      BY ZenonT(60), <1>5, <2>1, <2>3 DEF TryPop, PopOr, Goto, TypeOK
    <3> QED
      BY ZenonT(60), <1>2, <1>3, <3>1, <3>2
  <2> QED
    BY ZenonT(60), <2>2, <2>3
<1>6. CASE WaitBlocking(t)
  <2>1. \A u \in Task : pc[u] # "asleep"
    BY ZenonT(60), <1>6 DEF WaitBlocking, Queue
  <2>2. CASE pending > 0
    BY SMTT(60), <1>2, <1>4, <1>6, <2>2 DEF WaitBlocking, PopOr, Goto
  <2>3. CASE ~(pending > 0)
    <3>1. pending' = 0
      BY SMTT(60), <1>6, <2>3 DEF WaitBlocking, PopOr, TypeOK
    <3>2. \A u \in Task : pc'[u] = "asleep" => qlock' = {u}
      BY ZenonT(60), <1>6, <2>1, <2>3 DEF WaitBlocking, PopOr, Goto, TypeOK
    <3> QED
      BY Zenon, <1>2, <1>3, <3>1, <3>2
  <2> QED
    BY Zenon, <2>2, <2>3
<1>7. CASE Sleep(t)
  <2>1. pending' = 0 /\ qlock = {t}
    BY ZenonT(60), <1>7 DEF Sleep, Queue
  <2>2. \A u \in Task : pc'[u] # "asleep"
    BY ZenonT(60), <1>7, <2>1 DEF Sleep, Goto, Queue, TypeOK
  <2> QED
    BY ZenonT(60), <1>2, <1>3, <2>1, <2>2
<1> QED
  BY ZenonT(60), <1>2, <1>5, <1>6, <1>7

\* The inductive invariant of hub and queue.
THEOREM HubInductive ==
    ASSUME IsFiniteSet(Task)
    PROVE  Spec => []HInv
<1>1. Init => HInv
  <2>1. SUFFICES ASSUME Init PROVE HInv
    BY ZenonT(60)
  <2>2. Sleepers = {}
    BY ZenonT(60), <2>1 DEF Init, Sleepers
  <2> QED
    BY SMTT(60), <2>1, <2>2 DEF Init, HInv, TypeOK, Sound, Queue,
       NoStrandedSession
<1>2. HInv /\ [Next]_vars => HInv'
  <2>1. SUFFICES ASSUME HInv, [Next]_vars PROVE HInv'
    BY ZenonT(60)
  <2>2. CASE UNCHANGED vars
    BY ZenonT(60), <2>1, <2>2, QueueStands
    DEF HInv, TypeOK, Sound, vars, hubVars, workVars, supVars, guardVars, queueVars
  <2>3. ASSUME NEW t \in Task, Environment(t) PROVE HInv'
    BY ZenonT(60), <2>1, <2>3, StartKeeps, WorkerKeeps, CallKeeps
       DEF Environment
  <2>4. ASSUME NEW t \in Task, MarkCancelled(t) \/ LatePoke(t) \/ \E d \in Dir : Deliver(t, d)
        PROVE  HInv'
    BY ZenonT(60), <2>1, <2>4, StartKeeps, WorkerKeeps
  <2>5. ASSUME NEW t \in Task, ThreadStep(t) PROVE HInv'
    BY ZenonT(60), <2>1, <2>5, SupervisorKeeps, CallKeeps, ConsumerKeeps
       DEF ThreadStep
  <2>6. ASSUME NEW t \in Task, GuardStep(t) PROVE HInv'
    BY ZenonT(60), <2>1, <2>6, CallKeeps, WakingKeeps DEF GuardStep
  <2>7. ASSUME NEW t \in Task, Released(t) PROVE HInv'
    BY ZenonT(60), <2>1, <2>7, WorkerKeeps DEF Released, InputReleased,
       OutputReleased
  <2>8. CASE Push \/ SignalShutdown
    BY ZenonT(60), <2>1, <2>8, WakingKeeps
  <2> QED
    BY ZenonT(60), <2>1, <2>2, <2>3, <2>4, <2>5, <2>6, <2>7, <2>8 DEF Next
<1> QED
  BY <1>1, <1>2, PTL DEF Spec

\* CancelHub, CancelGuard and SessionQueue, for any number of tasks, calls and
\* sessions: no supervisor sleeps on a completion whose poke it has missed or
\* on a cancelled hub, no consumer sleeps on a session that nobody awake will
\* take, and no call leaves its guard thread behind.
THEOREM NobodyStranded ==
    ASSUME IsFiniteSet(Task)
    PROVE  Spec => []NothingStranded
<1>1. HInv => NothingStranded
  BY ZenonT(60) DEF HInv, Sound, Queue, NothingStranded, NoStrandedCompletion,
     NoGuardOutlivesCall, InSession
<1> QED
  BY <1>1, HubInductive, PTL

-----------------------------------------------------------------------------
(* A session between two scripts *)

Worker == {"run", "done", "failed"}
Clean == \A a \in Side : super[a].state # "cancelled"

NetType ==
    /\ fed \in [Side -> [n : Nat, read : Nat, closed : BOOLEAN]]
    /\ wire \in [Side -> Seq(Nat)]
    /\ writer \in [Side -> {"open", "closed"}]
    /\ in \in [Side -> Worker] /\ out \in [Side -> Worker]
    /\ got \in [Side -> [data : Seq(Nat), closed : BOOLEAN]]
    /\ super \in [Side -> [state : {"running", "ok", "failed", "cancelled"}, cancel : BOOLEAN,
                          shut : BOOLEAN, socketGone : BOOLEAN]]

\* One end, with its fed f, call c, workers i and o, writer w, and the number
\* of chunks its script will write: what a worker or a supervisor that has
\* finished has seen.
EndIs(f, c, i, o, w, chunks, clean) ==
    /\ f.read =< f.n
    /\ c.cancel \/ c.shut => c.state = "cancelled"
    /\ c.socketGone => i # "run"
    /\ c.state = "ok" => i = "done" /\ o = "done"
    /\ c.state # "cancelled" /\ f.closed => f.n = chunks
    /\ c.state # "cancelled" /\ i = "done" => f.closed /\ f.read = f.n
    /\ clean /\ i = "run" => w = "open"

End(a) == EndIs(fed[a], super[a], in[a], out[a], writer[a], talk[a].chunks, Clean)

\* One direction: data are the chunks delivered, w those on the wire, r counts
\* those the sender's worker i has read, o is the receiver's worker.  The
\* chunks come in order, and none is missing while the direction is open, or
\* no call is cancelled, and no worker has failed.
Moved(data, w, r, o, i, open, clean) ==
    /\ \A k \in 1..Len(data) : data[k] = k
    /\ Len(data) =< r
    /\ o # "failed" =>
          /\ \A k \in 1..Len(w) : w[k] = Len(data) + k
          /\ Len(data) + Len(w) =< r
          /\ (clean \/ open = "open") /\ i # "failed" => Len(data) + Len(w) = r
    /\ clean /\ o = "done" /\ i # "failed" => w = <<>> /\ i = "done"

Way(a, b) == Moved(got[a].data, wire[b], fed[b].read, out[a], in[b], writer[b], Clean)

NetInv == NetType /\ \A a \in Side : End(a) /\ Way(a, Peer(a))

\* The two sides are each other's peers.
LEMMA PeersSwap ==
    /\ Side = Side
    /\ Peer("accept") = "connect" /\ Peer("connect") = "accept"
    /\ \A a \in Side : Peer(a) \in Side /\ Peer(a) # a /\ Peer(Peer(a)) = a
BY Zenon DEF Side, Side, Peer

\* What one step does to one direction: the sender reads a chunk and sends,
\* drops or fails to send it; the receiver takes one, or its pipe breaks; a
\* worker ends; the direction is closed.
LEMMA MovedSends ==
    ASSUME NEW data \in Seq(Nat), NEW w \in Seq(Nat), NEW r \in Nat, NEW o \in Worker,
           NEW clean \in BOOLEAN, Moved(data, w, r, o, "run", "open", clean)
    PROVE  Moved(data, Append(w, r + 1), r + 1, o, "run", "open", clean)
<1>1. /\ Len(data) \in Nat /\ Len(w) \in Nat /\ Append(w, r + 1) \in Seq(Nat)
      /\ Len(Append(w, r + 1)) = Len(w) + 1
  BY SMTT(60)
<1>2. \A k \in 1..Len(w) + 1 : Append(w, r + 1)[k] = IF k = Len(w) + 1 THEN r + 1 ELSE w[k]
  BY SMTT(60)
<1>3. o # "failed" => Len(data) + Len(w) = r
  BY Zenon DEF Moved
<1>4. o # "failed" => \A k \in 1..Len(w) + 1 : Append(w, r + 1)[k] = Len(data) + k
  BY SMTT(60), <1>1, <1>2, <1>3 DEF Moved
<1> QED
  BY SMTT(60), <1>1, <1>3, <1>4 DEF Moved

\* A chunk read for a peer that no longer takes it is dropped.
LEMMA MovedDrops ==
    ASSUME NEW data \in Seq(Nat), NEW w \in Seq(Nat), NEW r \in Nat, NEW o \in Worker,
           NEW i \in Worker, NEW open, NEW clean \in BOOLEAN,
           Moved(data, w, r, o, "run", open, clean),
           i = "failed" \/ (i = "run" /\ ~clean /\ open # "open")
    PROVE  Moved(data, w, r + 1, o, i, open, clean)
<1>1. Len(data) \in Nat /\ Len(w) \in Nat
  BY SMTT(60)
<1> QED
  BY SMTT(60), <1>1 DEF Moved

\* The other end takes the first chunk of the wire.
LEMMA MovedTakes ==
    ASSUME NEW data \in Seq(Nat), NEW w \in Seq(Nat), NEW r \in Nat, NEW i \in Worker,
           NEW open, NEW clean \in BOOLEAN, Moved(data, w, r, "run", i, open, clean), w # <<>>
    PROVE  Moved(Append(data, Head(w)), Tail(w), r, "run", i, open, clean)
<1>1. /\ Len(data) \in Nat /\ Len(w) \in Nat \ {0} /\ Head(w) = w[1] /\ Head(w) \in Nat
      /\ Len(Tail(w)) = Len(w) - 1 /\ Len(Append(data, Head(w))) = Len(data) + 1
  BY SMTT(60)
<1>2. \A k \in 1..Len(w) - 1 : Tail(w)[k] = w[k + 1]
  BY SMTT(60)
<1>3. \A k \in 1..Len(data) + 1 :
          Append(data, Head(w))[k] = IF k = Len(data) + 1 THEN Head(w) ELSE data[k]
  BY SMTT(60), <1>1
<1>4. w[1] = Len(data) + 1
  BY SMTT(60), <1>1 DEF Moved
<1>5. \A k \in 1..Len(data) + 1 : Append(data, Head(w))[k] = k
  BY SMTT(60), <1>1, <1>3, <1>4 DEF Moved
<1>6. \A k \in 1..Len(w) - 1 : Tail(w)[k] = Len(data) + 1 + k
  <2>1. SUFFICES ASSUME NEW k \in 1..Len(w) - 1 PROVE w[k + 1] = Len(data) + 1 + k
    BY ZenonT(60), <1>2
  <2>2. k + 1 \in 1..Len(w)
    BY SMTT(60), <1>1
  <2>3. w[k + 1] = Len(data) + (k + 1)
    BY ZenonT(60), <2>2 DEF Moved
  <2> QED
    BY SMTT(60), <1>1, <2>3
<1>7. PICK d, v : d = Append(data, Head(w)) /\ v = Tail(w)
  BY ZenonT(60)
<1>8. Len(d) = Len(data) + 1 /\ Len(v) = Len(w) - 1
  BY ZenonT(60), <1>1, <1>7
<1>9. Len(d) =< r /\ Len(d) + Len(v) = Len(data) + Len(w)
  BY SMTT(60), <1>1, <1>8 DEF Moved
<1>10. (\A k \in 1..Len(d) : d[k] = k) /\ (\A k \in 1..Len(v) : v[k] = Len(d) + k)
  BY Zenon, <1>1, <1>5, <1>6, <1>7, <1>8
<1>11. Moved(d, v, r, "run", i, open, clean)
  BY Zenon, <1>9, <1>10 DEF Moved
<1> QED
  BY Zenon, <1>7, <1>11

\* A failed read or write ends the output worker.
LEMMA MovedBreaks ==
    ASSUME NEW data, NEW w, NEW r, NEW v, NEW i, NEW open, NEW clean,
           Moved(data, w, r, "run", i, open, clean)
    PROVE  Moved(data, v, r, "failed", i, open, clean)
BY Zenon DEF Moved

\* The output worker ends, with the wire empty if nothing broke.
LEMMA MovedEnds ==
    ASSUME NEW data, NEW w, NEW r, NEW i, NEW open, NEW clean \in BOOLEAN,
           Moved(data, w, r, "run", i, open, clean),
           clean /\ i # "failed" => w = <<>> /\ i = "done"
    PROVE  Moved(data, w, r, "done", i, open, clean)
BY Zenon DEF Moved

\* The input worker ends, the writer is closed, or the way is no longer clean.
LEMMA MovedShut ==
    ASSUME NEW data, NEW w, NEW r, NEW o, NEW i, NEW j, NEW open, NEW clean \in BOOLEAN,
           NEW shut, NEW cut \in BOOLEAN, Moved(data, w, r, o, i, open, clean),
           j = i \/ (i = "run" /\ j = "done"), shut = open \/ shut = "closed", cut => clean
    PROVE  Moved(data, w, r, o, j, shut, cut)
BY Zenon DEF Moved

\* The invariant is what holds of each end and each way.
LEMMA BothEnds ==
    ASSUME NEW a \in Side, NEW b \in Side, b = Peer(a), NetType',
           End(a)', End(b)', Way(a, b)', Way(b, a)'
    PROVE  NetInv'
BY SMTT(60), PeersSwap DEF NetInv, Side

\* What the invariant says of an end and its peer.
LEMMA OfEnds ==
    ASSUME NetInv, NEW a \in Side, NEW b \in Side, b = Peer(a)
    PROVE  NetType /\ End(a) /\ End(b) /\ Way(a, b) /\ Way(b, a) /\ a # b /\ Peer(b) = a
BY Zenon, PeersSwap DEF NetInv, Side

\* The types of the fields, one by one.
LEMMA Fields ==
    ASSUME NetType, NEW a \in Side
    PROVE  /\ fed[a].n \in Nat /\ fed[a].read \in Nat /\ fed[a].closed \in BOOLEAN
           /\ wire[a] \in Seq(Nat) /\ in[a] \in Worker /\ out[a] \in Worker
           /\ got[a].data \in Seq(Nat) /\ Clean \in BOOLEAN
<1>1. fed[a] \in [n : Nat, read : Nat, closed : BOOLEAN]
  BY Zenon DEF NetType
<1>2. got[a] \in [data : Seq(Nat), closed : BOOLEAN]
  BY Zenon DEF NetType
<1>3. wire[a] \in Seq(Nat) /\ in[a] \in Worker /\ out[a] \in Worker
  BY Zenon DEF NetType
<1>4. Clean \in BOOLEAN
  BY Zenon DEF Clean
<1> QED
  BY Zenon, <1>1, <1>2, <1>3, <1>4

\* The scripts write and close.
LEMMA ScriptKeeps ==
    ASSUME NetInv, NEW a \in Side, ScriptWrites(a) \/ ScriptCloses(a)
    PROVE  NetInv'
<1>b. PICK b \in Side : b = Peer(a)
  BY ZenonT(60), PeersSwap
<1>0. NetType /\ End(a) /\ End(b) /\ Way(a, b) /\ Way(b, a) /\ a # b
  BY ZenonT(60), <1>b, OfEnds
<1>1. UNCHANGED <<talk, wire, writer, in, out, got, super>> /\ fed[a].closed = FALSE
  BY ZenonT(60), <1>0, Fields DEF ScriptWrites, ScriptCloses
<1>2. fed \in [Side -> [n : Nat, read : Nat, closed : BOOLEAN]] /\ fed[a].n + 1 \in Nat
  BY SMTT(60), <1>0, Fields DEF NetType
<1>3. /\ fed' \in [Side -> [n : Nat, read : Nat, closed : BOOLEAN]] /\ fed'[b] = fed[b]
      /\ fed'[a].read = fed[a].read /\ fed[a].n =< fed'[a].n
      /\ fed'[a].closed => fed'[a].n = talk[a].chunks
  <2>1. CASE ScriptWrites(a)
    <3>1. fed' = [fed EXCEPT ![a].n = fed[a].n + 1]
      BY Zenon, <2>1 DEF ScriptWrites
    <3>2. fed' \in [Side -> [n : Nat, read : Nat, closed : BOOLEAN]]
      BY ZenonT(60), <1>2, <3>1
    <3>3. fed'[b] = fed[b] /\ fed'[a].read = fed[a].read /\ fed'[a].n = fed[a].n + 1
      BY Zenon, <1>0, <1>2, <3>1
    <3>4. fed'[a].closed = fed[a].closed
      BY ZenonT(60), <1>2, <3>1
    <3>5. fed[a].n =< fed'[a].n
      BY SMTT(60), <1>0, <3>3, Fields
    <3> QED
      BY Zenon, <1>1, <3>2, <3>3, <3>4, <3>5
  <2>2. CASE ScriptCloses(a)
    <3>1. fed' = [fed EXCEPT ![a].closed = TRUE] /\ fed[a].n = talk[a].chunks
      BY ZenonT(60), <2>2 DEF ScriptCloses
    <3>2. fed' \in [Side -> [n : Nat, read : Nat, closed : BOOLEAN]]
      BY ZenonT(60), <1>2, <3>1
    <3>3. fed'[b] = fed[b] /\ fed'[a].read = fed[a].read /\ fed'[a].n = fed[a].n
      BY ZenonT(60), <1>0, <1>2, <3>1
    <3>4. fed[a].n =< fed'[a].n
      BY SMTT(60), <1>0, <3>3, Fields
    <3> QED
      BY ZenonT(60), <3>1, <3>2, <3>3, <3>4
  <2> QED
    BY Zenon, <2>1, <2>2
<1>4. NetType'
  BY ZenonT(60), <1>0, <1>1, <1>3 DEF NetType
<1>5. Clean' = Clean
  BY ZenonT(60), <1>1 DEF Clean
<1>6. End(a)'
  <2>1. EndIs(fed[a], super[a], in[a], out[a], writer[a], talk[a].chunks, Clean)
    BY ZenonT(60), <1>0 DEF End
  <2>2. EndIs(fed'[a], super[a], in[a], out[a], writer[a], talk[a].chunks, Clean)
    <3>0. fed'[a].n \in Nat /\ fed[a].n \in Nat /\ fed[a].read \in Nat
      BY ZenonT(60), <1>0, <1>3, Fields
    <3>1. fed'[a].read =< fed'[a].n
      BY SMTT(60), <1>3, <2>1, <3>0 DEF EndIs
    <3>2. super[a].state # "cancelled" => in[a] # "done"
      BY ZenonT(60), <1>1, <2>1 DEF EndIs
    <3> QED
      BY ZenonT(60), <1>3, <2>1, <3>1, <3>2 DEF EndIs
  <2> QED
    BY ZenonT(60), <1>1, <1>3, <1>5, <2>2 DEF End
<1>7. End(b)' /\ Way(a, b)' /\ Way(b, a)'
  BY ZenonT(60), <1>0, <1>1, <1>3, <1>5 DEF End, Way
<1> QED
  BY Zenon, <1>b, <1>4, <1>6, <1>7, BothEnds

\* A chunk goes from the script's pipe to the wire, is forgotten by a pipe that
\* a cancellation has closed, or fails on a socket whose other end is gone.
LEMMA InputKeeps ==
    ASSUME NetInv, NEW a \in Side, InputMoves(a)
    PROVE  NetInv'
<1>b. PICK b \in Side : b = Peer(a)
  BY ZenonT(60), PeersSwap
<1>r. PICK r \in Nat : r = fed[a].read
  BY ZenonT(60), Fields DEF NetInv
<1>0. NetType /\ End(a) /\ End(b) /\ Way(a, b) /\ Way(b, a) /\ a # b
  BY ZenonT(60), <1>b, OfEnds
<1>1. /\ UNCHANGED <<talk, writer, out, got, super>>
      /\ in[a] = "run" /\ r < fed[a].n
      /\ fed' = [fed EXCEPT ![a].read = r + 1]
  BY ZenonT(60), <1>r DEF InputMoves
<1>2. \/ /\ wire' = [wire EXCEPT ![a] = Append(wire[a], r + 1)]
         /\ in' = in /\ writer[a] = "open"
      \/ wire' = wire /\ in' = [in EXCEPT ![a] = "failed"]
      \/ wire' = wire /\ in' = in /\ writer[a] # "open"
  BY ZenonT(60), <1>r DEF InputMoves
<1>3. fed \in [Side -> [n : Nat, read : Nat, closed : BOOLEAN]] /\ r + 1 \in Nat
  BY SMTT(60), <1>0, <1>r DEF NetType
<1>4. fed' \in [Side -> [n : Nat, read : Nat, closed : BOOLEAN]]
  BY ZenonT(60), <1>1, <1>3
<1>5. fed'[a].read = r + 1 /\ fed'[a].n = fed[a].n /\ fed'[b] = fed[b]
  BY Zenon, <1>0, <1>1, <1>3
<1>6. fed'[a].closed = fed[a].closed
  BY Zenon, <1>1, <1>3
<1>7. /\ wire' \in [Side -> Seq(Nat)] /\ wire'[b] = wire[b]
      /\ wire'[a] = wire[a] \/ wire'[a] = Append(wire[a], r + 1)
  <2>1. wire \in [Side -> Seq(Nat)] /\ wire[a] \in Seq(Nat)
    BY Zenon, <1>0 DEF NetType
  <2>2. Append(wire[a], r + 1) \in Seq(Nat)
    BY SMTT(60), <1>3, <2>1
  <2> QED
    BY ZenonT(60), <1>0, <1>2, <2>1, <2>2
<1>8. in' \in [Side -> Worker] /\ in'[b] = in[b] /\ in'[a] \in {in[a], "failed"}
  <2>1. in \in [Side -> Worker]
    BY Zenon, <1>0 DEF NetType
  <2> QED
    BY Zenon, <1>0, <1>2, <2>1 DEF Worker
<1>9. NetType'
  BY Zenon, <1>0, <1>1, <1>4, <1>7, <1>8 DEF NetType
<1>10. Clean' = Clean
  BY Zenon, <1>1 DEF Clean
<1>11. End(b)' /\ Way(a, b)'
  BY Zenon, <1>0, <1>1, <1>5, <1>7, <1>8, <1>10 DEF End, Way
<1>12. End(a)'
  <2>1. EndIs(fed[a], super[a], in[a], out[a], writer[a], talk[a].chunks, Clean)
    BY ZenonT(60), <1>0 DEF End
  <2>2. r + 1 =< fed[a].n
    BY SMTT(60), <1>0, <1>1, <1>r, Fields
  <2>3. EndIs(fed'[a], super[a], in'[a], out[a], writer[a], talk[a].chunks, Clean)
    BY ZenonT(60), <1>1, <1>5, <1>6, <1>8, <2>1, <2>2 DEF EndIs
  <2> QED
    BY ZenonT(60), <1>1, <1>10, <2>3 DEF End
<1>13. Way(b, a)'
  <2>1. Moved(got[b].data, wire[a], r, out[b], "run", writer[a], Clean)
    BY ZenonT(60), <1>0, <1>1, <1>r DEF Way
  <2>2. /\ got[b].data \in Seq(Nat) /\ wire[a] \in Seq(Nat) /\ out[b] \in Worker
        /\ Clean \in BOOLEAN
    BY ZenonT(60), <1>0, Fields
  <2>3. CASE /\ wire' = [wire EXCEPT ![a] = Append(wire[a], r + 1)]
             /\ in' = in /\ writer[a] = "open"
    <3>1. Moved(got[b].data, Append(wire[a], r + 1), r + 1, out[b], "run", "open", Clean)
      BY ZenonT(60), <1>r, <2>1, <2>2, <2>3, MovedSends
    <3>2. wire'[a] = Append(wire[a], r + 1)
      BY ZenonT(60), <1>0, <2>3 DEF NetType
    <3> QED
      BY ZenonT(60), <1>1, <1>5, <1>10, <2>3, <3>1, <3>2 DEF Way
  <2>4. CASE wire' = wire /\ in' = [in EXCEPT ![a] = "failed"]
    <3>1. Moved(got[b].data, wire[a], r + 1, out[b], "failed", writer[a], Clean)
      BY ZenonT(60), <1>r, <2>1, <2>2, MovedDrops DEF Worker
    <3>2. in'[a] = "failed"
      BY Zenon, <1>0, <2>4 DEF NetType
    <3> QED
      BY ZenonT(60), <1>1, <1>5, <1>10, <2>4, <3>1, <3>2 DEF Way
  <2>5. CASE wire' = wire /\ in' = in /\ writer[a] # "open"
    <3>1. ~Clean
      BY Zenon, <1>0, <1>1, <2>5 DEF End, EndIs
    <3>2. Moved(got[b].data, wire[a], r + 1, out[b], "run", writer[a], Clean)
      BY ZenonT(60), <1>r, <2>1, <2>2, <2>5, <3>1, MovedDrops DEF Worker
    <3> QED
      BY Zenon, <1>1, <1>5, <1>10, <2>5, <3>2 DEF Way
  <2> QED
    BY ZenonT(60), <1>2, <2>3, <2>4, <2>5
<1> QED
  BY Zenon, <1>b, <1>9, <1>11, <1>12, <1>13, BothEnds

\* The end of a script's input ends its worker, and with half-close the
\* direction.
LEMMA InputEndKeeps ==
    ASSUME NetInv, NEW a \in Side, InputFinishes(a)
    PROVE  NetInv'
<1>b. PICK b \in Side : b = Peer(a)
  BY Zenon, PeersSwap
<1>0. NetType /\ End(a) /\ End(b) /\ Way(a, b) /\ Way(b, a) /\ a # b
  BY ZenonT(60), <1>b, OfEnds
<1>1. /\ UNCHANGED <<talk, fed, wire, out, got, super>>
      /\ in[a] = "run" /\ in' = [in EXCEPT ![a] = "done"]
      /\ super[a].cancel \/ InputDrained(a)
  BY ZenonT(60) DEF InputFinishes
<1>2. in' \in [Side -> Worker] /\ in'[a] = "done" /\ in'[b] = in[b]
  BY ZenonT(60), <1>0, <1>1 DEF NetType, Worker
<1>3. /\ writer' \in [Side -> {"open", "closed"}] /\ writer'[b] = writer[b]
      /\ writer'[a] = writer[a] \/ writer'[a] = "closed"
  BY ZenonT(60), <1>0 DEF InputFinishes, NetType
<1>4. NetType'
  BY ZenonT(60), <1>0, <1>1, <1>2, <1>3 DEF NetType
<1>5. Clean' = Clean
  BY ZenonT(60), <1>1 DEF Clean
<1>6. End(b)' /\ Way(a, b)'
  BY ZenonT(60), <1>0, <1>1, <1>2, <1>3, <1>5 DEF End, Way
<1>7. End(a)'
  <2>1. EndIs(fed[a], super[a], "run", out[a], writer[a], talk[a].chunks, Clean)
    BY ZenonT(60), <1>0, <1>1 DEF End
  <2>2. EndIs(fed[a], super[a], "done", out[a], writer'[a], talk[a].chunks, Clean)
    BY ZenonT(60), <1>1, <2>1 DEF EndIs, InputDrained
  <2> QED
    BY ZenonT(60), <1>1, <1>2, <1>5, <2>2 DEF End
<1>8. Way(b, a)'
  <2>1. Moved(got[b].data, wire[a], fed[a].read, out[b], "run", writer[a], Clean)
    BY ZenonT(60), <1>0, <1>1 DEF Way
  <2>2. Moved(got[b].data, wire[a], fed[a].read, out[b], "done", writer'[a], Clean)
    BY SMTT(60), <1>0, <1>3, <2>1, Fields, MovedShut
  <2> QED
    BY ZenonT(60), <1>1, <1>2, <1>5, <2>2 DEF Way
<1> QED
  BY Zenon, <1>b, <1>4, <1>6, <1>7, <1>8, BothEnds

\* The receiver takes a chunk from the wire, or its pipe breaks under it.
LEMMA OutputKeeps ==
    ASSUME NetInv, NEW a \in Side, OutputMoves(a)
    PROVE  NetInv'
<1>b. PICK b \in Side : b = Peer(a)
  BY Zenon, PeersSwap
<1>0. NetType /\ End(a) /\ End(b) /\ Way(a, b) /\ Way(b, a) /\ a # b
  BY Zenon, <1>b, OfEnds
<1>1. /\ UNCHANGED <<talk, fed, writer, in, super>>
      /\ out[a] = "run" /\ wire[b] # <<>> /\ wire' = [wire EXCEPT ![b] = Tail(wire[b])]
  BY Zenon, <1>b DEF OutputMoves
<1>2. \/ /\ out' = [out EXCEPT ![a] = "failed"]
         /\ \E c \in BOOLEAN : got' = [got EXCEPT ![a].closed = c]
      \/ got' = [got EXCEPT ![a].data = Append(got[a].data, Head(wire[b]))] /\ out' = out
  <2>1. got[a].closed \in BOOLEAN
    <3>1. got[a] \in [data : Seq(Nat), closed : BOOLEAN]
      BY ZenonT(60), <1>0 DEF NetType
    <3> QED
      BY ZenonT(60), <3>1
  <2>2. (got[a].closed \/ ~Memory) \in BOOLEAN
    BY ZenonT(60)
  <2> QED
    BY ZenonT(60), <1>b, <2>2 DEF OutputMoves
<1>3. wire[b] \in Seq(Nat) /\ got[a].data \in Seq(Nat) /\ in[b] \in Worker /\ Clean \in BOOLEAN
      /\ fed[b].read \in Nat
  BY ZenonT(60), <1>0, Fields
<1>4. Tail(wire[b]) \in Seq(Nat) /\ Append(got[a].data, Head(wire[b])) \in Seq(Nat)
  BY SMTT(60), <1>1, <1>3
<1>5. wire' \in [Side -> Seq(Nat)] /\ wire'[a] = wire[a] /\ wire'[b] = Tail(wire[b])
  <2>1. wire \in [Side -> Seq(Nat)]
    BY ZenonT(60), <1>0 DEF NetType
  <2> QED
    BY ZenonT(60), <1>0, <1>1, <1>4, <2>1
<1>6. /\ out' \in [Side -> Worker] /\ out'[b] = out[b]
      /\ out'[a] = "failed" \/ out'[a] = "run"
  <2>1. out \in [Side -> Worker]
    BY ZenonT(60), <1>0 DEF NetType
  <2> QED
    BY ZenonT(60), <1>0, <1>1, <1>2, <2>1 DEF Worker
<1>7. /\ got' \in [Side -> [data : Seq(Nat), closed : BOOLEAN]] /\ got'[b] = got[b]
      /\ \/ out'[a] = "failed" /\ got'[a].data = got[a].data
         \/ out'[a] = "run" /\ got'[a].data = Append(got[a].data, Head(wire[b]))
  <2>1. got \in [Side -> [data : Seq(Nat), closed : BOOLEAN]]
    BY ZenonT(60), <1>0 DEF NetType
  <2>2. out \in [Side -> Worker]
    BY Zenon, <1>0 DEF NetType
  <2>3. ASSUME NEW c \in BOOLEAN, got' = [got EXCEPT ![a].closed = c],
               out' = [out EXCEPT ![a] = "failed"]
        PROVE  /\ got' \in [Side -> [data : Seq(Nat), closed : BOOLEAN]] /\ got'[b] = got[b]
               /\ out'[a] = "failed" /\ got'[a].data = got[a].data
    BY ZenonT(60), <1>0, <2>1, <2>2, <2>3
  <2>4. CASE got' = [got EXCEPT ![a].data = Append(got[a].data, Head(wire[b]))] /\ out' = out
    <3>1. PICK d \in Seq(Nat) : d = Append(got[a].data, Head(wire[b]))
      BY ZenonT(60), <1>4
    <3>2. got' = [got EXCEPT ![a].data = d]
      BY ZenonT(60), <2>4, <3>1
    <3>3. got' \in [Side -> [data : Seq(Nat), closed : BOOLEAN]]
      BY ZenonT(60), <2>1, <3>1, <3>2
    <3>4. got'[b] = got[b] /\ got'[a].data = d
      BY ZenonT(60), <1>0, <2>1, <3>2
    <3> QED
      BY ZenonT(60), <1>1, <2>4, <3>1, <3>3, <3>4
  <2> QED
    BY ZenonT(60), <1>2, <2>3, <2>4
<1>8. NetType'
  BY ZenonT(60), <1>0, <1>1, <1>5, <1>6, <1>7 DEF NetType
<1>9. Clean' = Clean
  BY ZenonT(60), <1>1 DEF Clean
<1>10. End(b)' /\ Way(b, a)'
  BY ZenonT(60), <1>0, <1>1, <1>5, <1>6, <1>7, <1>9 DEF End, Way
<1>11. End(a)'
  <2>1. EndIs(fed[a], super[a], in[a], "run", writer[a], talk[a].chunks, Clean)
    BY ZenonT(60), <1>0, <1>1 DEF End
  <2>2. EndIs(fed[a], super[a], in[a], out'[a], writer[a], talk[a].chunks, Clean)
    BY ZenonT(60), <2>1 DEF EndIs
  <2> QED
    BY ZenonT(60), <1>1, <1>9, <2>2 DEF End
<1>12. Way(a, b)'
  <2>1. Moved(got[a].data, wire[b], fed[b].read, "run", in[b], writer[b], Clean)
    BY ZenonT(60), <1>0, <1>1 DEF Way
  <2>2. CASE out'[a] = "failed" /\ got'[a].data = got[a].data
    <3>1. Moved(got[a].data, Tail(wire[b]), fed[b].read, "failed", in[b], writer[b], Clean)
      BY ZenonT(60), <2>1, MovedBreaks
    <3> QED
      BY ZenonT(60), <1>1, <1>5, <1>9, <2>2, <3>1 DEF Way
  <2>3. CASE out'[a] = "run" /\ got'[a].data = Append(got[a].data, Head(wire[b]))
    <3>1. Moved(Append(got[a].data, Head(wire[b])), Tail(wire[b]), fed[b].read, "run", in[b],
                writer[b], Clean)
      BY ZenonT(60), <1>1, <1>3, <2>1, MovedTakes
    <3> QED
      BY ZenonT(60), <1>1, <1>5, <1>9, <2>3, <3>1 DEF Way
  <2> QED
    BY ZenonT(60), <1>7, <2>2, <2>3
<1> QED
  BY Zenon, <1>b, <1>8, <1>10, <1>11, <1>12, BothEnds

\* The receiver ends at the end of the wire, which is empty then and has no
\* sender any more, or because its call was cancelled.
LEMMA OutputEndKeeps ==
    ASSUME NetInv, NEW a \in Side, OutputFinishes(a)
    PROVE  NetInv'
<1>b. PICK b \in Side : b = Peer(a)
  BY Zenon, PeersSwap
<1>0. NetType /\ End(a) /\ End(b) /\ Way(a, b) /\ Way(b, a) /\ a # b
  BY Zenon, <1>b, OfEnds
<1>1. /\ UNCHANGED <<talk, fed, wire, writer, in, super>>
      /\ out[a] = "run" /\ out' = [out EXCEPT ![a] = "done"]
      /\ \/ super[a].cancel \/ super[a].shut
         \/ wire[b] = <<>> /\ (writer[b] = "closed" \/ super[b].socketGone)
  BY ZenonT(60), <1>b DEF OutputFinishes, WireEnded
<1>2. /\ got' \in [Side -> [data : Seq(Nat), closed : BOOLEAN]] /\ got'[b] = got[b]
      /\ got'[a].data = got[a].data
  <2>1. got \in [Side -> [data : Seq(Nat), closed : BOOLEAN]]
    BY ZenonT(60), <1>0 DEF NetType
  <2>2. PICK c \in BOOLEAN : got' = [got EXCEPT ![a].closed = c]
    <3>1. (got[a].closed \/ ~Memory \/ ~super[a].cancel) \in BOOLEAN
      BY ZenonT(60)
    <3> QED
      BY ZenonT(60), <3>1 DEF OutputFinishes
  <2> QED
    BY ZenonT(60), <1>0, <2>1, <2>2
<1>3. out' \in [Side -> Worker] /\ out'[b] = out[b] /\ out'[a] = "done"
  <2>1. out \in [Side -> Worker]
    BY Zenon, <1>0 DEF NetType
  <2> QED
    BY ZenonT(60), <1>0, <1>1, <2>1 DEF Worker
<1>4. NetType'
  BY ZenonT(60), <1>0, <1>1, <1>2, <1>3 DEF NetType
<1>5. Clean' = Clean
  BY ZenonT(60), <1>1 DEF Clean
<1>6. End(b)' /\ Way(b, a)'
  BY ZenonT(60), <1>0, <1>1, <1>2, <1>3, <1>5 DEF End, Way
<1>7. End(a)'
  <2>1. EndIs(fed[a], super[a], in[a], "run", writer[a], talk[a].chunks, Clean)
    BY ZenonT(60), <1>0, <1>1 DEF End
  <2>2. EndIs(fed[a], super[a], in[a], "done", writer[a], talk[a].chunks, Clean)
    BY ZenonT(60), <2>1 DEF EndIs
  <2> QED
    BY ZenonT(60), <1>1, <1>3, <1>5, <2>2 DEF End
<1>8. Way(a, b)'
  <2>1. Moved(got[a].data, wire[b], fed[b].read, "run", in[b], writer[b], Clean)
    BY ZenonT(60), <1>0, <1>1 DEF Way
  <2>2. Clean => super[a].state # "cancelled"
    BY ZenonT(60) DEF Clean
  <2>3. Clean /\ in[b] # "failed" => wire[b] = <<>> /\ in[b] = "done"
    <3>1. Clean => wire[b] = <<>> /\ in[b] # "run"
      BY ZenonT(60), <1>0, <1>1, <2>2 DEF End, EndIs
    <3> QED
      BY ZenonT(60), <1>0, <3>1, Fields DEF Worker
  <2>4. Moved(got[a].data, wire[b], fed[b].read, "done", in[b], writer[b], Clean)
    BY ZenonT(60), <1>0, <2>1, <2>3, Fields, MovedEnds
  <2> QED
    BY ZenonT(60), <1>1, <1>2, <1>3, <1>5, <2>4 DEF Way
<1> QED
  BY Zenon, <1>b, <1>4, <1>6, <1>7, <1>8, BothEnds

\* A call whose workers have both reported returns and drops its writer.
LEMMA ReturnKeeps ==
    ASSUME NetInv, NEW a \in Side, Returns(a)
    PROVE  NetInv'
<1>b. PICK b \in Side : b = Peer(a)
  BY Zenon, PeersSwap
<1>0. NetType /\ End(a) /\ End(b) /\ Way(a, b) /\ Way(b, a) /\ a # b
  BY Zenon, <1>b, OfEnds
<1>c. /\ super \in [Side -> [state : {"running", "ok", "failed", "cancelled"}, cancel : BOOLEAN,
                            shut : BOOLEAN, socketGone : BOOLEAN]]
      /\ writer \in [Side -> {"open", "closed"}]
  BY ZenonT(60), <1>0 DEF NetType
<1>1. /\ UNCHANGED <<talk, fed, wire, in, out, got>>
      /\ super[a].state = "running" /\ in[a] # "run" /\ out[a] # "run"
      /\ writer' = [writer EXCEPT ![a] = "closed"]
  BY ZenonT(60) DEF Returns, Running
<1>2. PICK s \in {"ok", "failed"}, g \in BOOLEAN :
          /\ super' = [super EXCEPT ![a].state = s, ![a].socketGone = g]
          /\ s = "ok" => in[a] # "failed" /\ out[a] # "failed"
  <2>1. (~Memory) \in BOOLEAN
    BY ZenonT(60)
  <2> QED
    BY ZenonT(60), <2>1 DEF Returns
<1>3. /\ super'[a].state = s /\ super'[a].cancel = super[a].cancel /\ super'[a].shut = super[a].shut
      /\ super'[b] = super[b]
  BY ZenonT(60), <1>0, <1>c, <1>2
<1>4. super' \in [Side -> [state : {"running", "ok", "failed", "cancelled"}, cancel : BOOLEAN,
                          shut : BOOLEAN, socketGone : BOOLEAN]]
  BY ZenonT(60), <1>c, <1>2
<1>5. /\ writer' \in [Side -> {"open", "closed"}] /\ writer'[b] = writer[b]
      /\ writer'[a] = "closed"
  BY Zenon, <1>0, <1>c, <1>1
<1>6. NetType'
  BY ZenonT(60), <1>0, <1>1, <1>4, <1>5 DEF NetType
<1>7. Clean' = Clean
  <2>1. s # "cancelled"
    BY Zenon, <1>2
  <2>2. \A x \in Side : super'[x].state # "cancelled" <=> super[x].state # "cancelled"
    BY SMTT(60), <1>b, <1>1, <1>3, <2>1, PeersSwap DEF Side
  <2> QED
    BY Zenon, <2>2 DEF Clean
<1>8. End(b)' /\ Way(a, b)'
  BY ZenonT(60), <1>0, <1>1, <1>3, <1>5, <1>7 DEF End, Way
<1>9. End(a)'
  <2>1. EndIs(fed[a], super[a], in[a], out[a], writer[a], talk[a].chunks, Clean)
    BY ZenonT(60), <1>0 DEF End
  <2>2. in[a] \in {"done", "failed"} /\ out[a] \in {"done", "failed"}
    BY ZenonT(60), <1>0, <1>1, Fields DEF Worker
  <2>3. EndIs(fed[a], super'[a], in[a], out[a], writer'[a], talk[a].chunks, Clean)
    BY ZenonT(60), <1>1, <1>2, <1>3, <2>1, <2>2 DEF EndIs
  <2> QED
    BY ZenonT(60), <1>1, <1>7, <2>3 DEF End
<1>10. Way(b, a)'
  <2>1. Moved(got[b].data, wire[a], fed[a].read, out[b], in[a], writer[a], Clean)
    BY ZenonT(60), <1>0 DEF Way
  <2>2. Moved(got[b].data, wire[a], fed[a].read, out[b], in[a], "closed", Clean)
    BY SMTT(60), <1>0, <2>1, Fields, MovedShut
  <2> QED
    BY ZenonT(60), <1>1, <1>5, <1>7, <2>2 DEF Way
<1> QED
  BY ZenonT(60), <1>b, <1>6, <1>8, <1>9, <1>10, BothEnds

\* A cancellation: both directions of a memory session are closed, a socket's
\* own one is.
LEMMA CancelKeeps ==
    ASSUME NetInv, NEW a \in Side, SessionCancelled(a)
    PROVE  NetInv'
<1>b. PICK b \in Side : b = Peer(a)
  BY Zenon, PeersSwap
<1>0. NetType /\ End(a) /\ End(b) /\ Way(a, b) /\ Way(b, a) /\ a # b
  BY Zenon, <1>b, OfEnds
<1>c. /\ super \in [Side -> [state : {"running", "ok", "failed", "cancelled"}, cancel : BOOLEAN,
                            shut : BOOLEAN, socketGone : BOOLEAN]]
      /\ writer \in [Side -> {"open", "closed"}]
  BY Zenon, <1>0 DEF NetType
<1>g. got \in [Side -> [data : Seq(Nat), closed : BOOLEAN]]
  BY ZenonT(60), <1>0 DEF NetType
<1>f. fed \in [Side -> [n : Nat, read : Nat, closed : BOOLEAN]]
  BY Zenon, <1>0 DEF NetType
<1>1. /\ UNCHANGED <<talk, wire, in, out>> /\ super[a].state = "running"
      /\ got' = [got EXCEPT ![a].closed = TRUE] /\ fed' = [fed EXCEPT ![a].closed = TRUE]
      /\ \/ writer' = [x \in Side |-> "closed"]
         \/ writer' = [writer EXCEPT ![a] = "closed"]
  BY Zenon, PeersSwap DEF SessionCancelled, Running
<1>2. PICK t \in BOOLEAN, g \in BOOLEAN :
          super' = [super EXCEPT ![a].state = "cancelled", ![a].cancel = t, ![a].shut = g]
  <2>1. (~Memory) \in BOOLEAN
    BY Zenon
  <2> QED
    BY ZenonT(60), <2>1 DEF SessionCancelled
<1>3. /\ super'[a].state = "cancelled" /\ super'[a].socketGone = super[a].socketGone
      /\ super'[b] = super[b]
  BY SMTT(60), <1>0, <1>c, <1>2
<1>4. super' \in [Side -> [state : {"running", "ok", "failed", "cancelled"}, cancel : BOOLEAN,
                          shut : BOOLEAN, socketGone : BOOLEAN]]
  <2>1. PICK y : y = [super[a] EXCEPT !.state = "cancelled", !.cancel = t, !.shut = g]
    BY Zenon
  <2>2. y \in [state : {"running", "ok", "failed", "cancelled"}, cancel : BOOLEAN,
               shut : BOOLEAN, socketGone : BOOLEAN]
    BY ZenonT(60), <1>c, <2>1
  <2>3. super' = [super EXCEPT ![a] = y]
    BY ZenonT(60), <1>2, <2>1
  <2> QED BY Zenon, <1>c, <2>2, <2>3
<1>5. /\ writer' \in [Side -> {"open", "closed"}]
      /\ \A x \in Side : writer'[x] = writer[x] \/ writer'[x] = "closed"
  BY ZenonT(60), <1>0, <1>c, <1>1
<1>6. /\ got' \in [Side -> [data : Seq(Nat), closed : BOOLEAN]]
      /\ got'[b] = got[b] /\ got'[a].data = got[a].data
  BY ZenonT(60), <1>0, <1>g, <1>1
<1>7. /\ fed' \in [Side -> [n : Nat, read : Nat, closed : BOOLEAN]]
      /\ fed'[b] = fed[b] /\ fed'[a].read = fed[a].read /\ fed'[a].n = fed[a].n
  BY ZenonT(60), <1>0, <1>f, <1>1
<1>8. NetType'
  BY ZenonT(60), <1>0, <1>1, <1>4, <1>5, <1>6, <1>7 DEF NetType
<1>9. Clean' = FALSE
  BY ZenonT(60), <1>3 DEF Clean
<1>10. End(b)'
  <2>1. EndIs(fed[b], super[b], in[b], out[b], writer[b], talk[b].chunks, Clean)
    BY ZenonT(60), <1>0 DEF End
  <2>2. EndIs(fed[b], super[b], in[b], out[b], writer'[b], talk[b].chunks, FALSE)
    BY ZenonT(60), <2>1 DEF EndIs
  <2> QED
    BY ZenonT(60), <1>1, <1>3, <1>7, <1>9, <2>2 DEF End
<1>11. End(a)'
  <2>1. EndIs(fed[a], super[a], in[a], out[a], writer[a], talk[a].chunks, Clean)
    BY ZenonT(60), <1>0 DEF End
  <2>2. EndIs(fed'[a], super'[a], in[a], out[a], writer'[a], talk[a].chunks, FALSE)
    BY ZenonT(60), <1>3, <1>7, <2>1 DEF EndIs
  <2> QED
    BY ZenonT(60), <1>1, <1>9, <2>2 DEF End
<1>12. ASSUME NEW x \in Side, NEW y \in Side, Way(x, y), fed'[y].read = fed[y].read,
              got'[x].data = got[x].data
       PROVE  Way(x, y)'
  <2>1. Moved(got[x].data, wire[y], fed[y].read, out[x], in[y], writer[y], Clean)
    BY ZenonT(60), <1>12 DEF Way
  <2>2. Moved(got[x].data, wire[y], fed[y].read, out[x], in[y], writer'[y], FALSE)
    BY ZenonT(60), <1>5, <2>1 DEF Moved
  <2> QED
    BY ZenonT(60), <1>1, <1>9, <1>12, <2>2 DEF Way
<1>13. Way(a, b)' /\ Way(b, a)'
  BY ZenonT(60), <1>0, <1>6, <1>7, <1>12
<1> QED
  BY Zenon, <1>b, <1>8, <1>10, <1>11, <1>13, BothEnds

\* The inductive invariant of a session.
THEOREM SessionInductive == NetSpec => []NetInv
<1>1. NetInit => NetInv
  <2>1. SUFFICES ASSUME NetInit PROVE NetInv
    BY ZenonT(60)
  <2>2. NetType
    BY SMTT(60), <2>1, PeersSwap DEF NetInit, NetType, Worker
  <2>3. ASSUME NEW a \in Side PROVE End(a) /\ Way(a, Peer(a))
    <3>1. Peer(a) \in Side
      BY Zenon, PeersSwap
    <3>2. \A x \in Side : End(x)
      BY SMTT(60), <2>1, PeersSwap DEF NetInit, End, EndIs
    <3>3. \A x \in Side, y \in Side : Way(x, y)
      BY SMTT(60), <2>1, PeersSwap DEF NetInit, Way, Moved
    <3> QED
      BY Zenon, <3>1, <3>2, <3>3
  <2> QED
    BY ZenonT(60), <2>2, <2>3 DEF NetInv
<1>2. NetInv /\ [NetNext]_netVars => NetInv'
  <2>1. SUFFICES ASSUME NetInv, [NetNext]_netVars PROVE NetInv'
    BY Zenon
  <2>2. CASE UNCHANGED netVars
    <3>1. UNCHANGED <<talk, fed, wire, writer, in, out, got, super>>
      BY ZenonT(60), <2>2 DEF netVars
    <3>2. Clean' = Clean
      BY ZenonT(60), <3>1 DEF Clean
    <3>3. NetType'
      BY ZenonT(60), <2>1, <3>1 DEF NetInv, NetType
    <3> QED
      BY ZenonT(60), <2>1, <3>1, <3>2, <3>3 DEF NetInv, End, Way, Peer
  <2>3. ASSUME NEW a \in Side,
               \/ ScriptWrites(a) \/ ScriptCloses(a)
               \/ InputMoves(a) \/ InputFinishes(a) \/ OutputMoves(a) \/ OutputFinishes(a)
               \/ Returns(a) \/ SessionCancelled(a)
        PROVE  NetInv'
    BY ZenonT(60), <2>1, <2>3, ScriptKeeps, InputKeeps, InputEndKeeps,
       OutputKeeps, OutputEndKeeps,
       ReturnKeeps, CancelKeeps
  <2> QED
    BY Zenon, <2>1, <2>2, <2>3, PeersSwap DEF NetNext
<1> QED
  BY <1>1, <1>2, PTL DEF NetSpec

\* pump_stream and pump_memory, for any two scripts: what one reads is a prefix
\* of what the other wrote, whatever breaks or is cancelled, and when both
\* calls return success nothing is missing.
THEOREM SessionsLoseNothing == NetSpec => []SessionsIntact
<1>1. NetInv => SessionsIntact
  <2>1. SUFFICES ASSUME NetInv, NEW a \in Side, NEW b \in Side, b = Peer(a)
        PROVE  /\ \E n \in 0..fed[b].n : got[a].data = Chunks(n)
               /\ (super[a].state = "ok" /\ super[b].state = "ok")
                     => got[a].data = Chunks(talk[b].chunks)
    BY ZenonT(60), PeersSwap DEF SessionsIntact
  <2>2. NetType /\ End(a) /\ End(b) /\ Way(a, b) /\ a # b
    BY ZenonT(60), <2>1, OfEnds
  <2>3. PICK g \in Nat : g = Len(got[a].data)
    <3>1. PICK d \in Seq(Nat) : d = got[a].data
      BY Zenon, <2>2, Fields
    <3>2. Len(d) \in Nat
      BY SMTT(60)
    <3> QED
      BY Zenon, <3>1, <3>2
  <2>4. got[a].data = Chunks(g)
    <3>1. got[a].data \in Seq(Nat) /\ \A k \in 1..g : got[a].data[k] = k
      BY ZenonT(60), <2>2, <2>3, Fields DEF Way, Moved
    <3>2. PICK d \in Seq(Nat) : d = got[a].data
      BY ZenonT(60), <3>1
    <3>3. Len(d) = g /\ \A k \in 1..g : d[k] = k
      BY ZenonT(60), <2>3, <3>1, <3>2
    <3>4. d = [k \in 1..g |-> k]
      BY SMTT(60), <3>2, <3>3
    <3> QED
      BY ZenonT(60), <3>2, <3>4 DEF Chunks
  <2>5. g \in 0..fed[b].n
    <3>1. g =< fed[b].read /\ fed[b].read =< fed[b].n
      BY ZenonT(60), <2>2, <2>3 DEF Way, Moved, End, EndIs
    <3> QED
      BY SMTT(60), <2>2, <2>3, <3>1, Fields
  <2>6. ASSUME super[a].state = "ok", super[b].state = "ok"
        PROVE  g = talk[b].chunks
    <3>1. Clean
      BY ZenonT(60), <2>1, <2>6, PeersSwap DEF Clean, Side
    <3>2. /\ out[a] = "done" /\ in[b] = "done" /\ fed[b].read = fed[b].n
          /\ fed[b].n = talk[b].chunks
      BY ZenonT(60), <2>2, <2>6 DEF End, EndIs
    <3>3. wire[b] = <<>> /\ g + Len(wire[b]) = fed[b].read
      BY ZenonT(60), <2>2, <2>3, <3>1, <3>2 DEF Way, Moved
    <3> QED
      BY SMTT(60), <2>3, <3>2, <3>3
  <2> QED
    BY ZenonT(60), <2>4, <2>5, <2>6
<1> QED
  BY <1>1, SessionInductive, PTL

-----------------------------------------------------------------------------
(* Service endpoints *)

Slot == [spec : Specs \cup {"none"}, persistent : BOOLEAN, claimed : BOOLEAN,
         queue : Seq(Callers)]
Handle == [state : {"unused", "open", "closed", "gone", "failed"}, func : Serves \cup {None},
           svc : Services \cup {None}, kind : {"tcp", "memory", "offline", None},
           held : BOOLEAN, serving : BOOLEAN]
Call == [pc : {"idle", "check", "poll", "dial", "enqueue", "waiting", "pumping", "closed",
               "cancelled", "done", "failed"},
         func : Dials \cup {"NET_ACCEPT", None}, on : Handles \cup {None},
         svc : Services \cup {None}, cancelled : BOOLEAN]

EndpointType ==
    /\ SetupOK(setup)
    /\ slots \in [Services -> Slot] /\ handle \in [Handles -> Handle]
    /\ call \in [Callers -> Call]

\* A handle that the script or a call still holds was opened and is not gone.
HeldOpened ==
    /\ \A h \in Handles : handle[h].held => handle[h].state \in {"open", "closed"}
    /\ \A c \in Callers : call[c].on # None => handle[call[c].on].state \in {"open", "closed"}

EInv == EndpointType /\ HeldOpened /\ ClaimHasOwner

\* A claim stands when the step leaves the service's open handles open, or
\* gives it one, or fails after the claim.
LEMMA ClaimsStand ==
    ASSUME ClaimHasOwner, setup' = setup,
           \A h \in Handles : handle[h].state = "failed" => handle'[h].state = "failed",
           \A s \in Services : slots'[s].claimed =>
              \/ \E h \in Handles : handle'[h].state = "open" /\ handle'[h].svc = s
              \/ setup.faults /\ \E h \in Handles : handle'[h].state = "failed"
              \/ /\ slots[s].claimed
                 /\ \A h \in Handles : handle[h].state = "open" /\ handle[h].svc = s =>
                       handle'[h].state = "open" /\ handle'[h].svc = s
    PROVE  ClaimHasOwner'
<1>1. ASSUME NEW s \in Services, slots'[s].claimed
      PROVE  \/ \E h \in Handles : handle'[h].state = "open" /\ handle'[h].svc = s
             \/ setup.faults /\ \E h \in Handles : handle'[h].state = "failed"
  BY SMTT(60), <1>1 DEF ClaimHasOwner, OpenOn
<1> QED
  BY ZenonT(60), <1>1 DEF ClaimHasOwner, OpenOn

\* The new value of one handle, one call, one slot.
LEMMA HandleBecomes ==
    ASSUME handle \in [Handles -> Handle], NEW h \in Handles, NEW d \in Handle,
           handle' = [handle EXCEPT ![h] = d]
    PROVE  /\ handle' \in [Handles -> Handle] /\ handle'[h] = d
           /\ \A g \in Handles \ {h} : handle'[g] = handle[g]
BY Zenon

\* A handle is closed, ends or fails.
LEMMA HandleState ==
    ASSUME handle \in [Handles -> Handle], NEW h \in Handles,
           NEW st \in {"closed", "gone", "failed"},
           \/ handle' = [handle EXCEPT ![h].state = st] /\ handle'[h].held = handle[h].held
           \/ handle' = [handle EXCEPT ![h].held = FALSE, ![h].state = st]
    PROVE  /\ handle' \in [Handles -> Handle] /\ handle'[h].state = st
           /\ handle'[h].svc = handle[h].svc /\ handle'[h].held \in {handle[h].held, FALSE}
           /\ \A g \in Handles \ {h} : handle'[g] = handle[g]
<1>1. CASE handle' = [handle EXCEPT ![h].state = st] /\ handle'[h].held = handle[h].held
  <2>1. handle' \in [Handles -> Handle]
    BY SMTT(60), <1>1 DEF Handle
  <2>2. /\ handle'[h].state = st /\ handle'[h].svc = handle[h].svc
        /\ \A g \in Handles \ {h} : handle'[g] = handle[g]
    BY ZenonT(60), <1>1 DEF Handle
  <2> QED
    BY Zenon, <1>1, <2>1, <2>2
<1>2. CASE handle' = [handle EXCEPT ![h].held = FALSE, ![h].state = st]
  <2>1. handle' \in [Handles -> Handle]
    <3>1. handle[h] \in Handle
      BY ZenonT(60)
    <3>2. [handle[h] EXCEPT !.held = FALSE, !.state = st] \in Handle
      BY ZenonT(60), <3>1 DEF Handle
    <3> QED
      BY ZenonT(60), <1>2, <3>2
  <2>2. /\ handle'[h].state = st /\ handle'[h].svc = handle[h].svc
        /\ \A g \in Handles \ {h} : handle'[g] = handle[g]
    BY ZenonT(60), <1>2 DEF Handle
  <2>3. handle'[h].held = FALSE
    BY ZenonT(60), <1>2 DEF Handle
  <2> QED
    BY ZenonT(60), <2>1, <2>2, <2>3
<1> QED
  BY ZenonT(60), <1>1, <1>2

\* A handle's value is dropped, or its server stops.
LEMMA HandleFlag ==
    ASSUME handle \in [Handles -> Handle], NEW h \in Handles,
           \/ handle' = [handle EXCEPT ![h].held = FALSE]
           \/ handle' = [handle EXCEPT ![h].serving = FALSE] /\ handle'[h].held = handle[h].held
    PROVE  /\ handle' \in [Handles -> Handle] /\ handle'[h].state = handle[h].state
           /\ handle'[h].svc = handle[h].svc /\ handle'[h].held \in {handle[h].held, FALSE}
           /\ \A g \in Handles \ {h} : handle'[g] = handle[g]
<1>1. CASE handle' = [handle EXCEPT ![h].held = FALSE]
  <2>1. handle' \in [Handles -> Handle]
    BY ZenonT(60), <1>1 DEF Handle
  <2>2. /\ handle'[h].state = handle[h].state /\ handle'[h].svc = handle[h].svc
        /\ \A g \in Handles \ {h} : handle'[g] = handle[g]
    BY ZenonT(60), <1>1 DEF Handle
  <2>3. handle'[h].held = FALSE
    BY ZenonT(60), <1>1 DEF Handle
  <2> QED
    BY ZenonT(60), <2>1, <2>2, <2>3
<1>2. CASE handle' = [handle EXCEPT ![h].serving = FALSE] /\ handle'[h].held = handle[h].held
  <2>1. handle' \in [Handles -> Handle]
    BY ZenonT(60), <1>2 DEF Handle
  <2>2. /\ handle'[h].state = handle[h].state /\ handle'[h].svc = handle[h].svc
        /\ \A g \in Handles \ {h} : handle'[g] = handle[g]
    BY ZenonT(60), <1>2 DEF Handle
  <2> QED
    BY Zenon, <1>2, <2>1, <2>2
<1> QED
  BY ZenonT(60), <1>1, <1>2

\* EndpointRegistry::release leaves the service unclaimed and claims nothing.
LEMMA SlotReleased ==
    ASSUME slots \in [Services -> Slot], NEW s, slots' = ReleaseService(s)
    PROVE  /\ slots' \in [Services -> Slot]
           /\ \A x \in Services : slots'[x].claimed => x # s /\ slots[x].claimed
<1>1. PICK d \in Slot : slots' = [slots EXCEPT ![s] = d] /\ (s \in Services => d.claimed = FALSE)
  <2>1. CASE s \in Services
    <3>1. slots[s] \in Slot
      BY ZenonT(60), <2>1
    <3>2. [slots[s] EXCEPT !.claimed = FALSE] \in Slot
          /\ [slots[s] EXCEPT !.claimed = FALSE].claimed = FALSE
      BY ZenonT(60), <3>1 DEF Slot
    <3>3. NoSlot \in Slot /\ NoSlot.claimed = FALSE
      BY SMTT(60) DEF NoSlot, Slot
    <3>4. slots' = [slots EXCEPT ![s] = IF slots[s].persistent
                                        THEN [slots[s] EXCEPT !.claimed = FALSE] ELSE NoSlot]
      BY Zenon DEF ReleaseService
    <3> QED
      BY ZenonT(60), <3>2, <3>3, <3>4
  <2>2. CASE s \notin Services
    <3>1. NoSlot \in Slot
      BY SMTT(60) DEF NoSlot, Slot
    <3>2. slots' = [slots EXCEPT ![s] = NoSlot]
      BY ZenonT(60), <2>2 DEF ReleaseService
    <3> QED
      BY ZenonT(60), <2>2, <3>1, <3>2
  <2> QED
    BY ZenonT(60), <2>1, <2>2
<1>2. slots' \in [Services -> Slot]
  BY ZenonT(60), <1>1
<1>3. \A x \in Services : slots'[x] = IF x = s THEN d ELSE slots[x]
  BY ZenonT(60), <1>1
<1> QED
  BY ZenonT(60), <1>1, <1>2, <1>3

\* NET_LISTEN and SSH_SERVE, and the ways they fail.
LEMMA ServeKeeps ==
    ASSUME None \notin Handles, EInv, NEW h \in Handles, NEW n \in setup.names,
           n[1] \in Serves,
           \/ Serve(h, n[1], n[2]) \/ ServeRefused(h, n[1], n[2])
           \/ ServeFails(h, n[1], n[2])
    PROVE  EInv'
<1>0. /\ SetupOK(setup) /\ slots \in [Services -> Slot] /\ handle \in [Handles -> Handle]
      /\ call \in [Callers -> Call] /\ HeldOpened /\ ClaimHasOwner
  BY ZenonT(60) DEF EInv, EndpointType
<1>1. n[2] \in Services
  BY ZenonT(60), <1>0 DEF SetupOK
<1>2. setup' = setup /\ call' = call /\ handle[h].state = "unused"
  BY ZenonT(60) DEF Serve, ServeRefused, ServeFails
<1>3. handle[h].held = FALSE /\ \A c \in Callers : call[c].on # h
  <2>1. handle[h].held \in BOOLEAN
    BY ZenonT(60), <1>0 DEF Handle
  <2> QED
    BY ZenonT(60), <1>0, <1>2, <2>1 DEF HeldOpened
<1>4. slots' \in [Services -> Slot]
      /\ \A s \in Services \ {n[2]} : slots'[s] = slots[s]
  <2>1. slots' = slots \/ slots' = [slots EXCEPT ![n[2]].claimed = TRUE]
    BY ZenonT(60) DEF Serve, ServeRefused, ServeFails
  <2>2. slots[n[2]] \in Slot
    BY ZenonT(60), <1>0, <1>1
  <2>3. [slots[n[2]] EXCEPT !.claimed = TRUE] \in Slot
    BY ZenonT(60), <2>2 DEF Slot
  <2> QED
    BY ZenonT(60), <1>0, <1>1, <2>1, <2>3
<1>5. CASE Serve(h, n[1], n[2])
  <2>1. PICK d \in Handle : /\ handle' = [handle EXCEPT ![h] = d]
                            /\ d.state = "open" /\ d.svc = n[2]
    <3> DEFINE d == [state |-> "open", func |-> n[1], svc |-> n[2], kind |-> Kind(n[2]),
                     held |-> TRUE,
                     serving |-> n[1] = "SSH_SERVE" /\ Kind(n[2]) = "tcp"]
    <3>1. Kind(n[2]) \in {"tcp", "memory", "offline"}
      BY ZenonT(60) DEF Kind
    <3>2. d \in Handle
      BY ZenonT(60), <1>1, <3>1 DEF Handle
    <3>3. handle' = [handle EXCEPT ![h] = d]
      BY ZenonT(60), <1>5 DEF Serve
    <3>4. d.state = "open" /\ d.svc = n[2]
      BY ZenonT(60)
    <3> QED
      BY ZenonT(60), <3>2, <3>3, <3>4
  <2>2. /\ handle' \in [Handles -> Handle] /\ handle'[h] = d
        /\ \A g \in Handles \ {h} : handle'[g] = handle[g]
    BY ZenonT(60), <1>0, <2>1, HandleBecomes
  <2>3. HeldOpened'
    BY ZenonT(60), <1>0, <1>2, <1>3, <2>1, <2>2 DEF HeldOpened, Call
  <2>4. ClaimHasOwner'
    BY ZenonT(60), <1>0, <1>1, <1>2, <1>4, <2>1, <2>2, ClaimsStand
  <2> QED
    BY ZenonT(60), <1>0, <1>2, <1>4, <2>2, <2>3, <2>4 DEF EInv, EndpointType
<1>6. CASE ServeRefused(h, n[1], n[2]) \/ ServeFails(h, n[1], n[2])
  <2>1. handle' = [handle EXCEPT ![h].state = "failed"]
    BY Zenon, <1>6 DEF ServeRefused, ServeFails
  <2>2. handle'[h].held = handle[h].held
    BY ZenonT(60), <1>0, <2>1 DEF Handle
  <2>3. /\ handle' \in [Handles -> Handle] /\ handle'[h].state = "failed"
        /\ \A g \in Handles \ {h} : handle'[g] = handle[g]
    BY ZenonT(60), <1>0, <2>1, <2>2, HandleState
  <2>4. HeldOpened'
    BY ZenonT(60), <1>0, <1>2, <1>3, <2>2, <2>3 DEF HeldOpened, Call
  <2>5. slots' = slots \/ setup.faults
    BY Zenon, <1>6 DEF ServeRefused, ServeFails
  <2>6. ClaimHasOwner'
    BY ZenonT(60), <1>0, <1>2, <2>3, <2>5, ClaimsStand
  <2> QED
    BY ZenonT(60), <1>0, <1>2, <1>4, <2>3, <2>4, <2>6 DEF EInv, EndpointType
<1> QED
  BY ZenonT(60), <1>5, <1>6

\* The end of a handle, whichever of a close, a drop and a call's end it is,
\* gives the service back.
LEMMA GivesBack ==
    ASSUME slots \in [Services -> Slot], handle \in [Handles -> Handle], ClaimHasOwner,
           setup' = setup, NEW h \in Handles, handle[h].state \in {"open", "closed"},
           slots' = ReleaseService(handle[h].svc),
           \A g \in Handles \ {h} : handle'[g] = handle[g]
    PROVE  slots' \in [Services -> Slot] /\ ClaimHasOwner'
<1>1. /\ slots' \in [Services -> Slot]
      /\ \A x \in Services : slots'[x].claimed => x # handle[h].svc /\ slots[x].claimed
  BY ZenonT(60), SlotReleased
<1>2. ClaimHasOwner'
  BY ZenonT(60), <1>1, ClaimsStand
<1> QED
  BY ZenonT(60), <1>1, <1>2

\* NET_CLOSE, SSH_CLOSE, and the drop of a value.
LEMMA CloseKeeps ==
    ASSUME None \notin Handles, EInv, NEW h \in Handles, Close(h) \/ DropValue(h)
    PROVE  EInv'
<1>0. /\ SetupOK(setup) /\ slots \in [Services -> Slot] /\ handle \in [Handles -> Handle]
      /\ call \in [Callers -> Call] /\ HeldOpened /\ ClaimHasOwner
  BY ZenonT(60) DEF EInv, EndpointType
<1>1. /\ setup' = setup /\ call' = call /\ handle[h].held
      /\ handle[h].state \in {"open", "closed"}
  BY ZenonT(60), <1>0 DEF Close, DropValue, HeldOpened
<1>2. CASE Close(h)
  <2>1. handle' = [handle EXCEPT ![h].state = "closed"] /\ slots' = ReleaseService(handle[h].svc)
    BY ZenonT(60), <1>2 DEF Close
  <2>2. handle'[h].held = handle[h].held
    BY ZenonT(60), <1>0, <2>1 DEF Handle
  <2>3. /\ handle' \in [Handles -> Handle] /\ handle'[h].state = "closed"
        /\ \A g \in Handles \ {h} : handle'[g] = handle[g]
    BY ZenonT(60), <1>0, <2>1, <2>2, HandleState
  <2>4. HeldOpened'
    BY SMTT(60), <1>0, <1>1, <2>3 DEF HeldOpened, Call
  <2>5. slots' \in [Services -> Slot] /\ ClaimHasOwner'
    BY Zenon, <1>0, <1>1, <2>1, <2>3, GivesBack
  <2> QED
    BY ZenonT(60), <1>0, <1>1, <2>3, <2>4, <2>5 DEF EInv, EndpointType
<1>3. CASE DropValue(h) /\ Uses(h) = {}
  <2>1. /\ handle' = [handle EXCEPT ![h].held = FALSE, ![h].state = "gone"]
        /\ slots' = ReleaseService(handle[h].svc)
    BY ZenonT(60), <1>3 DEF DropValue
  <2>2. /\ handle' \in [Handles -> Handle] /\ handle'[h].state = "gone"
        /\ \A g \in Handles \ {h} : handle'[g] = handle[g]
    BY ZenonT(60), <1>0, <2>1, HandleState
  <2>3. handle'[h].held = FALSE
    BY ZenonT(60), <1>0, <2>1 DEF Handle
  <2>4. \A c \in Callers : call[c].on # h
    BY ZenonT(60), <1>3 DEF Uses
  <2>5. HeldOpened'
    BY ZenonT(60), <1>0, <1>1, <2>2, <2>3, <2>4 DEF HeldOpened, Call
  <2>6. slots' \in [Services -> Slot] /\ ClaimHasOwner'
    BY Zenon, <1>0, <1>1, <2>1, <2>2, GivesBack
  <2> QED
    BY Zenon, <1>0, <1>1, <2>2, <2>5, <2>6 DEF EInv, EndpointType
<1>4. CASE DropValue(h) /\ Uses(h) # {}
  <2>1. handle' = [handle EXCEPT ![h].held = FALSE] /\ slots' = slots
    BY ZenonT(60), <1>4 DEF DropValue
  <2>2. /\ handle' \in [Handles -> Handle] /\ handle'[h].state = handle[h].state
        /\ handle'[h].svc = handle[h].svc
        /\ \A g \in Handles \ {h} : handle'[g] = handle[g]
    BY ZenonT(60), <1>0, <2>1, HandleFlag
  <2>3. HeldOpened'
    BY ZenonT(60), <1>0, <1>1, <2>2 DEF HeldOpened, Call
  <2>4. ClaimHasOwner'
    BY ZenonT(60), <1>0, <1>1, <2>1, <2>2, ClaimsStand
  <2> QED
    BY Zenon, <1>0, <1>1, <2>1, <2>2, <2>3, <2>4 DEF EInv, EndpointType
<1> QED
  BY ZenonT(60), <1>2, <1>3, <1>4

\* A step that changes calls but lets none of them take a handle, and that
\* opens, closes and claims nothing.
LEMMA CallsMove ==
    ASSUME EInv, setup' = setup, handle' = handle, slots' \in [Services -> Slot],
           \A s \in Services : slots'[s].claimed => slots[s].claimed,
           call' \in [Callers -> Call],
           \A c \in Callers : call'[c].on = None \/ call'[c].on = call[c].on
    PROVE  EInv'
<1>0. /\ SetupOK(setup) /\ handle \in [Handles -> Handle] /\ HeldOpened /\ ClaimHasOwner
  BY ZenonT(60) DEF EInv, EndpointType
<1>1. HeldOpened'
  BY ZenonT(60), <1>0 DEF HeldOpened
<1>2. ClaimHasOwner'
  BY ZenonT(60), <1>0, ClaimsStand
<1> QED
  BY ZenonT(60), <1>0, <1>1, <1>2 DEF EInv, EndpointType

\* The new program counter of one call.
LEMMA CallBecomes ==
    ASSUME call \in [Callers -> Call], NEW c \in Callers,
           NEW p \in {"idle", "check", "poll", "dial", "enqueue", "waiting", "pumping", "closed",
                      "cancelled", "done", "failed"},
           call' = [call EXCEPT ![c].pc = p]
    PROVE  call' \in [Callers -> Call] /\ \A d \in Callers : call'[d].on = call[d].on
<1>1. call[c] \in Call
  BY ZenonT(60)
<1>2. [call[c] EXCEPT !.pc = p] \in Call /\ [call[c] EXCEPT !.pc = p].on = call[c].on
  BY ZenonT(60), <1>1 DEF Call
<1> QED
  BY ZenonT(60), <1>2

\* The end of a call lets go of its handle; the last to hold a dropped one
\* gives the service back.
LEMMA EndsKeeps ==
    ASSUME None \notin Handles, EInv, setup' = setup, NEW c \in Callers,
           NEW how \in {"cancelled", "closed", "done"}, Ends(c, how)
    PROVE  EInv'
<1>0. /\ SetupOK(setup) /\ slots \in [Services -> Slot] /\ handle \in [Handles -> Handle]
      /\ call \in [Callers -> Call] /\ HeldOpened /\ ClaimHasOwner
  BY ZenonT(60) DEF EInv, EndpointType
<1>1. PICK h : h = call[c].on
  BY ZenonT(60)
<1>2. call' \in [Callers -> Call] /\ call'[c].on = None
      /\ \A d \in Callers \ {c} : call'[d] = call[d]
  <2>1. call' = [call EXCEPT ![c].pc = how, ![c].on = None]
    BY ZenonT(60) DEF Ends
  <2>2. call[c] \in Call
    BY ZenonT(60), <1>0
  <2>3. /\ [call[c] EXCEPT !.pc = how, !.on = None] \in Call
        /\ [call[c] EXCEPT !.pc = how, !.on = None].on = None
    BY ZenonT(60), <2>2 DEF Call
  <2> QED
    BY ZenonT(60), <1>0, <2>1, <2>3
<1>3. CASE h # None /\ ~handle[h].held /\ Uses(h) = {c}
  <2>1. handle' = [handle EXCEPT ![h].state = "gone"] /\ slots' = ReleaseService(handle[h].svc)
    BY ZenonT(60), <1>1, <1>3 DEF Ends
  <2>2. h \in Handles /\ handle[h].state \in {"open", "closed"}
    <3>1. call[c] \in Call
      BY Zenon, <1>0
    <3> QED
      BY ZenonT(60), <1>0, <1>1, <1>3, <3>1 DEF Call, HeldOpened
  <2>3. handle'[h].held = handle[h].held
    BY ZenonT(60), <1>0, <2>1, <2>2 DEF Handle
  <2>4. /\ handle' \in [Handles -> Handle] /\ handle'[h].state = "gone"
        /\ \A g \in Handles \ {h} : handle'[g] = handle[g]
    BY ZenonT(60), <1>0, <2>1, <2>2, <2>3, HandleState
  <2>5. \A d \in Callers \ {c} : call[d].on # h
    BY ZenonT(60), <1>3 DEF Uses
  <2>6. HeldOpened'
    <3>1. \A g \in Handles : handle'[g].held => handle'[g].state \in {"open", "closed"}
      BY ZenonT(60), <1>0, <1>3, <2>3, <2>4 DEF HeldOpened
    <3>2. \A d \in Callers : call[d].on \in Handles \cup {None}
      BY ZenonT(60), <1>0 DEF Call
    <3>3. \A d \in Callers : call'[d].on # None =>
              handle'[call'[d].on].state \in {"open", "closed"}
      BY SMTT(60), <1>0, <1>2, <2>4, <2>5, <3>2 DEF HeldOpened
    <3> QED
      BY ZenonT(60), <3>1, <3>3 DEF HeldOpened
  <2>7. slots' \in [Services -> Slot] /\ ClaimHasOwner'
    BY Zenon, <1>0, <2>1, <2>2, <2>4, GivesBack
  <2> QED
    BY ZenonT(60), <1>0, <1>2, <2>4, <2>6, <2>7 DEF EInv, EndpointType
<1>4. CASE ~(h # None /\ ~handle[h].held /\ Uses(h) = {c})
  <2>1. handle' = handle /\ slots' = slots
    BY Zenon, <1>1, <1>4 DEF Ends
  <2> QED
    BY Zenon, <1>0, <1>2, <2>1, CallsMove
<1> QED
  BY Zenon, <1>3, <1>4

\* NET_ACCEPT takes a handle that the script still holds.
LEMMA AcceptKeeps ==
    ASSUME None \notin Handles, EInv, NEW c \in Callers, NEW h \in Handles, Accept(c, h)
    PROVE  EInv'
<1>0. /\ SetupOK(setup) /\ slots \in [Services -> Slot] /\ handle \in [Handles -> Handle]
      /\ call \in [Callers -> Call] /\ HeldOpened /\ ClaimHasOwner
  BY ZenonT(60) DEF EInv, EndpointType
<1>1. UNCHANGED <<setup, slots, handle>> /\ handle[h].held
  BY ZenonT(60) DEF Accept
<1>2. CASE call' = [call EXCEPT ![c].pc = "closed"]
  BY ZenonT(60), <1>0, <1>1, <1>2, CallBecomes, CallsMove
<1>3. CASE call' = [call EXCEPT ![c] = [pc |-> "check", func |-> "NET_ACCEPT", on |-> h,
                                          svc |-> handle[h].svc, cancelled |-> FALSE]]
  <2>1. handle[h].svc \in Services \cup {None}
    BY ZenonT(60), <1>0 DEF Handle
  <2>2. [pc |-> "check", func |-> "NET_ACCEPT", on |-> h, svc |-> handle[h].svc,
         cancelled |-> FALSE] \in Call
    BY ZenonT(60), <2>1 DEF Call
  <2>3. /\ call' \in [Callers -> Call] /\ call'[c].on = h
        /\ \A d \in Callers \ {c} : call'[d] = call[d]
    BY ZenonT(60), <1>0, <1>3, <2>2
  <2>4. HeldOpened'
    BY ZenonT(60), <1>0, <1>1, <2>3 DEF HeldOpened
  <2>5. ClaimHasOwner'
    BY ZenonT(60), <1>0, <1>1, ClaimsStand
  <2> QED
    BY ZenonT(60), <1>0, <1>1, <2>3, <2>4, <2>5 DEF EInv, EndpointType
<1> QED
  BY ZenonT(60), <1>2, <1>3 DEF Accept

\* A turn of an accept loop, a dial, the sessions, a cancellation.
LEMMA CallStepKeeps ==
    ASSUME None \notin Handles, EInv, NEW c \in Callers,
           \/ AcceptChecks(c) \/ Dial(c) \/ PumpEnds(c) \/ Cancel(c)
           \/ \E n \in setup.names : n[1] \in Dials /\ Connect(c, n[1], n[2])
    PROVE  EInv'
<1>0. /\ SetupOK(setup) /\ slots \in [Services -> Slot] /\ handle \in [Handles -> Handle]
      /\ call \in [Callers -> Call]
  BY ZenonT(60) DEF EInv, EndpointType
<1>1. ASSUME UNCHANGED <<setup, slots, handle>>,
             NEW p \in {"poll", "waiting", "pumping"}, call' = [call EXCEPT ![c].pc = p]
      PROVE  EInv'
  BY ZenonT(60), <1>0, <1>1, CallBecomes, CallsMove
<1>2. CASE AcceptChecks(c)
  <2>1. setup' = setup
    BY ZenonT(60), <1>2 DEF AcceptChecks
  <2> QED
    BY ZenonT(60), <1>1, <1>2, <2>1, EndsKeeps DEF AcceptChecks
<1>3. CASE Dial(c)
  BY ZenonT(60), <1>1, <1>3 DEF Dial
<1>4. CASE PumpEnds(c)
  BY ZenonT(60), <1>4, EndsKeeps DEF PumpEnds
<1>5. CASE Cancel(c)
  <2>1. setup' = setup
    BY ZenonT(60), <1>5 DEF Cancel
  <2>2. CASE Ends(c, "cancelled")
    BY ZenonT(60), <2>1, <2>2, EndsKeeps
  <2>3. CASE call' = [call EXCEPT ![c].cancelled = TRUE] /\ UNCHANGED <<handle, slots>>
    <3>1. call[c] \in Call
      BY ZenonT(60), <1>0
    <3>2. /\ [call[c] EXCEPT !.cancelled = TRUE] \in Call
          /\ [call[c] EXCEPT !.cancelled = TRUE].on = call[c].on
      BY ZenonT(60), <3>1 DEF Call
    <3>3. call' \in [Callers -> Call] /\ \A d \in Callers : call'[d].on = call[d].on
      BY ZenonT(60), <1>0, <2>3, <3>2
    <3> QED
      BY ZenonT(60), <1>0, <2>1, <2>3, <3>3, CallsMove
  <2> QED
    BY ZenonT(60), <1>5, <2>2, <2>3 DEF Cancel
<1>6. ASSUME NEW n \in setup.names, n[1] \in Dials, Connect(c, n[1], n[2])
      PROVE  EInv'
  <2>1. n[2] \in Services
    BY ZenonT(60), <1>0 DEF SetupOK
  <2>2. PICK p \in {"failed", "dial", "enqueue"} :
            call' = [call EXCEPT ![c] = [pc |-> p, func |-> n[1], on |-> None, svc |-> n[2],
                                           cancelled |-> FALSE]]
    BY ZenonT(60), <1>6 DEF Connect
  <2>3. [pc |-> p, func |-> n[1], on |-> None, svc |-> n[2], cancelled |-> FALSE] \in Call
    BY ZenonT(60), <1>6, <2>1 DEF Call
  <2>4. call' \in [Callers -> Call] /\ call'[c].on = None
        /\ \A d \in Callers \ {c} : call'[d] = call[d]
    BY ZenonT(60), <1>0, <2>2, <2>3
  <2>5. UNCHANGED <<setup, slots, handle>>
    BY ZenonT(60), <1>6 DEF Connect
  <2> QED
    BY ZenonT(60), <1>0, <2>4, <2>5, CallsMove
<1> QED
  BY ZenonT(60), <1>2, <1>3, <1>4, <1>5, <1>6

\* A connection is taken: some calls start to pump.
LEMMA TakeMoves ==
    ASSUME call \in [Callers -> Call], NEW s, NEW who, NEW ends, Take(s, who, ends)
    PROVE  call' \in [Callers -> Call] /\ \A d \in Callers : call'[d].on = call[d].on
<1>1. ASSUME NEW d \in Callers
      PROVE  /\ [call[d] EXCEPT !.pc = "pumping"] \in Call
             /\ [call[d] EXCEPT !.pc = "pumping"].on = call[d].on
  <2>1. call[d] \in Call
    BY ZenonT(60)
  <2> QED
    BY ZenonT(60), <2>1 DEF Call
<1>2. call' = [d \in Callers |-> IF d \in ends \/ (d = who /\ call[d].pc = "waiting")
                                  THEN [call[d] EXCEPT !.pc = "pumping"] ELSE call[d]]
  BY ZenonT(60) DEF Take
<1>3. \A d \in Callers : call'[d] \in {call[d], [call[d] EXCEPT !.pc = "pumping"]}
  BY ZenonT(60), <1>2
<1> QED
  BY ZenonT(60), <1>1, <1>2, <1>3

\* The queue of a memory service changes with its claim left alone.
LEMMA QueueChanges ==
    ASSUME slots \in [Services -> Slot], NEW s, NEW q,
           s \in Services => q \in Seq(Callers),
           slots' = [slots EXCEPT ![s].queue = q]
    PROVE  /\ slots' \in [Services -> Slot]
           /\ \A x \in Services : slots'[x].claimed => slots[x].claimed
<1>1. CASE s \in Services
  <2>1. slots[s] \in Slot
    BY ZenonT(60), <1>1
  <2>2. /\ [slots[s] EXCEPT !.queue = q] \in Slot
        /\ [slots[s] EXCEPT !.queue = q].claimed = slots[s].claimed
    BY ZenonT(60), <1>1, <2>1 DEF Slot
  <2> QED
    BY ZenonT(60), <1>1, <2>2
<1>2. CASE s \notin Services
  <2>1. slots' = slots
    BY ZenonT(60), <1>2
  <2> QED
    BY ZenonT(60), <2>1
<1> QED
  BY ZenonT(60), <1>1, <1>2

\* The steps of accept loops, of the queue and of servers keep the invariant.
LEMMA SessionKeeps ==
    ASSUME None \notin Handles, EInv,
           \/ \E c \in Callers : AcceptPolls(c) \/ Enqueue(c)
           \/ \E h \in Handles : ServerAccepts(h) \/ ServerStops(h)
           \/ PreRunCheck
    PROVE  EInv'
<1>0. /\ SetupOK(setup) /\ slots \in [Services -> Slot] /\ handle \in [Handles -> Handle]
      /\ call \in [Callers -> Call] /\ HeldOpened /\ ClaimHasOwner
  BY ZenonT(60) DEF EInv, EndpointType
<1>1. ASSUME NEW c \in Callers, AcceptPolls(c) PROVE EInv'
  <2>1. setup' = setup /\ handle' = handle
    BY ZenonT(60), <1>1 DEF AcceptPolls
  <2>2. CASE call' = [call EXCEPT ![c].pc = "check"] /\ slots' = slots
    BY ZenonT(60), <1>0, <2>1, <2>2, CallBecomes, CallsMove
  <2>3. ASSUME NEW who, Take(call[c].svc, who, {c}),
               \/ slots' = slots
               \/ /\ slots[call[c].svc].queue # <<>>
                  /\ slots' = [slots EXCEPT ![call[c].svc].queue = Tail(slots[call[c].svc].queue)]
        PROVE  EInv'
    <3>1. call' \in [Callers -> Call] /\ \A d \in Callers : call'[d].on = call[d].on
      BY ZenonT(60), <1>0, <2>3, TakeMoves
    <3>2. CASE slots' = slots
      BY ZenonT(60), <1>0, <2>1, <3>1, <3>2, CallsMove
    <3>3. CASE /\ slots[call[c].svc].queue # <<>>
               /\ slots' = [slots EXCEPT ![call[c].svc].queue = Tail(slots[call[c].svc].queue)]
      <4>1. call[c].svc \in Services => slots[call[c].svc].queue \in Seq(Callers)
        BY ZenonT(60), <1>0 DEF Slot
      <4>2. call[c].svc \in Services => Tail(slots[call[c].svc].queue) \in Seq(Callers)
        BY SMTT(60), <3>3, <4>1
      <4>3. /\ slots' \in [Services -> Slot]
            /\ \A x \in Services : slots'[x].claimed => slots[x].claimed
        BY ZenonT(60), <1>0, <3>3, <4>2, QueueChanges
      <4> QED
        BY ZenonT(60), <2>1, <3>1, <4>3, CallsMove
    <3> QED
      BY ZenonT(60), <2>3, <3>2, <3>3
  <2> QED
    BY ZenonT(60), <1>1, <2>2, <2>3 DEF AcceptPolls
<1>2. ASSUME NEW c \in Callers, Enqueue(c) PROVE EInv'
  <2>1. setup' = setup /\ handle' = handle
    BY ZenonT(60), <1>2 DEF Enqueue
  <2>2. CASE call' = [call EXCEPT ![c].pc = "failed"] /\ slots' = slots
    BY ZenonT(60), <1>0, <2>1, <2>2, CallBecomes, CallsMove
  <2>3. CASE /\ slots' = [slots EXCEPT ![call[c].svc].queue = Append(slots[call[c].svc].queue, c)]
             /\ call' = [call EXCEPT ![c].pc = "waiting"]
    <3>1. call[c].svc \in Services => slots[call[c].svc].queue \in Seq(Callers)
      BY Zenon, <1>0 DEF Slot
    <3>2. call[c].svc \in Services => Append(slots[call[c].svc].queue, c) \in Seq(Callers)
      BY SMTT(60), <3>1
    <3>3. /\ slots' \in [Services -> Slot]
          /\ \A x \in Services : slots'[x].claimed => slots[x].claimed
      BY ZenonT(60), <1>0, <2>3, <3>2, QueueChanges
    <3>4. call' \in [Callers -> Call] /\ \A d \in Callers : call'[d].on = call[d].on
      BY ZenonT(60), <1>0, <2>3, CallBecomes
    <3> QED
      BY ZenonT(60), <2>1, <3>3, <3>4, CallsMove
  <2> QED
    BY ZenonT(60), <1>2, <2>2, <2>3 DEF Enqueue
<1>3. ASSUME NEW h \in Handles, ServerAccepts(h) PROVE EInv'
  <2>1. UNCHANGED <<setup, slots, handle>>
    BY ZenonT(60), <1>3 DEF ServerAccepts
  <2>2. call' \in [Callers -> Call] /\ \A d \in Callers : call'[d].on = call[d].on
    BY ZenonT(60), <1>0, <1>3, TakeMoves DEF ServerAccepts
  <2> QED
    BY ZenonT(60), <1>0, <2>1, <2>2, CallsMove
<1>4. ASSUME NEW h \in Handles, ServerStops(h) PROVE EInv'
  <2>1. handle' = [handle EXCEPT ![h].serving = FALSE] /\ UNCHANGED <<setup, slots, call>>
    BY ZenonT(60), <1>4 DEF ServerStops
  <2>2. handle'[h].held = handle[h].held
    BY ZenonT(60), <1>0, <2>1 DEF Handle
  <2>3. /\ handle' \in [Handles -> Handle] /\ handle'[h].state = handle[h].state
        /\ handle'[h].svc = handle[h].svc
        /\ \A g \in Handles \ {h} : handle'[g] = handle[g]
    BY ZenonT(60), <1>0, <2>1, <2>2, HandleFlag
  <2>4. HeldOpened'
    BY SMTT(60), <1>0, <2>1, <2>2, <2>3 DEF HeldOpened, Call
  <2>5. ClaimHasOwner'
    BY ZenonT(60), <1>0, <2>1, <2>3, ClaimsStand
  <2> QED
    BY ZenonT(60), <1>0, <2>1, <2>3, <2>4, <2>5 DEF EInv, EndpointType
<1>5. CASE PreRunCheck
  <2>1. UNCHANGED <<setup, slots, handle, call>>
    BY ZenonT(60), <1>5 DEF PreRunCheck
  <2> QED
    BY ZenonT(60), <1>0, <2>1, CallsMove
<1> QED
  BY ZenonT(60), <1>1, <1>2, <1>3, <1>4, <1>5

\* The inductive invariant of the registry and its handles.
THEOREM EndpointsInductive ==
    ASSUME None \notin Handles, \A u \in Setups : SetupOK(u)
    PROVE  EndpointsSpec => []EInv
<1>1. EndpointsInit => EInv
  <2>1. SUFFICES ASSUME EndpointsInit PROVE EInv
    BY ZenonT(60)
  <2>2. SetupOK(setup)
    BY ZenonT(60), <2>1 DEF EndpointsInit
  <2>3. /\ slots \in [Services -> Slot] /\ \A s \in Services : slots[s].claimed = FALSE
    <3>1. slots = [s \in Services |->
                     IF s \in DOMAIN setup.specs
                     THEN [NoSlot EXCEPT !.spec = setup.specs[s],
                                           !.persistent = setup.specs[s] = "exposed"]
                     ELSE NoSlot]
      BY ZenonT(60), <2>1 DEF EndpointsInit, Mapped
    <3>2. NoSlot \in Slot /\ NoSlot.claimed = FALSE
      BY SMTT(60) DEF NoSlot, Slot
    <3>3. ASSUME NEW p \in Specs, NEW b \in BOOLEAN
          PROVE  /\ [NoSlot EXCEPT !.spec = p, !.persistent = b] \in Slot
                 /\ [NoSlot EXCEPT !.spec = p, !.persistent = b].claimed = FALSE
      <4>1. [NoSlot EXCEPT !.spec = p, !.persistent = b] \in Slot
        BY ZenonT(60), <3>2 DEF Slot
      <4>2. [NoSlot EXCEPT !.spec = p, !.persistent = b].claimed = FALSE
        BY ZenonT(60) DEF NoSlot
      <4> QED
        BY ZenonT(60), <4>1, <4>2
    <3>4. \A s \in DOMAIN setup.specs :
              setup.specs[s] \in Specs /\ (setup.specs[s] = "exposed") \in BOOLEAN
      BY ZenonT(60), <2>2 DEF SetupOK
    <3>5. ASSUME NEW s \in Services
          PROVE  slots[s] \in Slot /\ slots[s].claimed = FALSE
      BY ZenonT(60), <3>1, <3>2, <3>3, <3>4
    <3> QED
      BY ZenonT(60), <3>1, <3>5
  <2>4. handle \in [Handles -> Handle] /\ \A h \in Handles : handle[h].held = FALSE
    BY ZenonT(60), <2>1 DEF EndpointsInit, Closed, Handle
  <2>5. call \in [Callers -> Call] /\ \A c \in Callers : call[c].on = None
    BY ZenonT(60), <2>1 DEF EndpointsInit, Idle, Call
  <2>6. HeldOpened
    BY ZenonT(60), <2>4, <2>5 DEF HeldOpened
  <2>7. ClaimHasOwner
    BY ZenonT(60), <2>3 DEF ClaimHasOwner
  <2> QED
    BY ZenonT(60), <2>2, <2>3, <2>4, <2>5, <2>6, <2>7 DEF EInv, EndpointType
<1>2. EInv /\ [EndpointsNext]_endpointsVars => EInv'
  <2>1. SUFFICES ASSUME EInv, [EndpointsNext]_endpointsVars PROVE EInv'
    BY ZenonT(60)
  <2>2. CASE UNCHANGED endpointsVars
    <3>1. UNCHANGED <<setup, slots, handle, call>>
      BY ZenonT(60), <2>2 DEF endpointsVars
    <3>2. slots \in [Services -> Slot] /\ call \in [Callers -> Call]
      BY ZenonT(60), <2>1 DEF EInv, EndpointType
    <3> QED
      BY ZenonT(60), <2>1, <3>1, <3>2, CallsMove
  <2>3. CASE PreRunCheck
    BY ZenonT(60), <2>1, <2>3, SessionKeeps
  <2>4. CASE ScriptStep
    BY ZenonT(60), <2>1, <2>4, ServeKeeps, CloseKeeps, AcceptKeeps,
       CallStepKeeps DEF ScriptStep
  <2>5. ASSUME NEW c \in Callers, TaskStep(c) \/ Cancel(c) PROVE EInv'
    BY ZenonT(60), <2>1, <2>5, CallStepKeeps, SessionKeeps DEF TaskStep
  <2>6. ASSUME NEW h \in Handles, ServerAccepts(h) \/ ServerStops(h) PROVE EInv'
    BY ZenonT(60), <2>1, <2>6, SessionKeeps
  <2> QED
    BY ZenonT(60), <2>1, <2>2, <2>3, <2>4, <2>5, <2>6 DEF EndpointsNext
<1> QED
  BY <1>1, <1>2, PTL DEF EndpointsSpec

\* EndpointRegistry::release and its callers, for any services, handles and
\* calls: a claimed service has an open handle that will give it back, unless a
\* start failed between its claim and the handle.
THEOREM ClaimsHaveOwners ==
    ASSUME None \notin Handles, \A u \in Setups : SetupOK(u)
    PROVE  EndpointsSpec => []ClaimHasOwner
<1>1. EInv => ClaimHasOwner
  BY Zenon DEF EInv
<1> QED
  BY <1>1, EndpointsInductive, PTL

=============================================================================

-------------------------- MODULE McpServerProofs --------------------------
(***************************************************************************)
(* Proofs about the MCP server: what a client learns from the generation   *)
(* it is told, and what it gets of the output of its calls.                *)
(***************************************************************************)
EXTENDS McpServer, FiniteSetTheorems, WellFoundedInduction, NaturalsInduction, TLAPS

-----------------------------------------------------------------------------
(* The MCP server: requests are ordered by a clock of arrivals and answers *)

Version == Nat \cup {Absent}
Status == [generation : Nat, hash : Version]
Request == [pc : {"new", "lookup", "spawned", "running", "returned", "failed", "answered"},
            answer : {Absent, "ok", "error"}, ran : Version,
            status : Status \cup {Absent}, since : Nat, until : Nat]
Inner == [session : Version, tools : Version, generation : Nat, hash : Version,
          ok : BOOLEAN, poisoned : BOOLEAN]
Watch == [pc : {"seed", "idle", "reload"}, last : Version, text : Version]
Probes == Requests \ Calls

ClockOf(q) == Cardinality({r \in Requests : q[r].pc # "new"})
              + Cardinality({r \in Requests : q[r].pc = "answered"})

\* The call c, which ran a script, arrived after the probe s was answered.
Before(q, s, c) == q[s].answer = "ok" /\ q[c].ran # Absent /\ q[s].until < q[c].since

\* A request's fields are those of its progress, and its times are past.
Timed(q) ==
    /\ q \in [Requests -> Request]
    /\ \A r \in Requests : q[r].since =< ClockOf(q)
    /\ \A r \in Requests : q[r].answer = "ok" => q[r].pc = "answered"
    /\ \A r \in Requests : q[r].pc = "new" => q[r].ran = Absent

\* What an answered probe says is not newer than the session, and is about
\* the session unless a swap followed; a call that started after the probe
\* then ran what the probe says; and so for a probe that follows the call.
Probed(q, in) ==
    /\ in \in Inner /\ in.session = in.hash
    /\ \A s \in Probes : q[s].answer = "ok" =>
          /\ q[s].status \in Status
          /\ q[s].status.generation =< in.generation
          /\ q[s].status.generation = in.generation => q[s].status.hash = in.hash
    /\ \A s \in Probes, c \in Calls :
          Before(q, s, c) /\ q[s].status.generation = in.generation
          => q[s].status.hash = q[c].ran
Detected(q) ==
    \A s1, s2 \in Probes, c \in Calls :
        /\ Before(q, s1, c) /\ q[s2].answer = "ok"
        /\ q[c].pc = "answered" /\ q[c].until < q[s2].since
        /\ q[s1].status.generation = q[s2].status.generation
        => q[s1].status.hash = q[c].ran /\ q[s2].status.hash = q[c].ran

McpInv ==
    /\ Timed(req) /\ Probed(req, inner) /\ Detected(req)
    /\ file \in Nat /\ watch \in Watch

\* The request r, and no other, goes from q to p.
Changes(q, p, r) ==
    /\ p \in [Requests -> Request]
    /\ \A x \in Requests \ {r} : p[x] = q[x]

\* A request that leaves "new" or is answered moves the clock forward.
LEMMA ClockGrows ==
    ASSUME IsFiniteSet(Requests), NEW q \in [Requests -> Request], NEW p, NEW r \in Requests,
           Changes(q, p, r), p[r].pc # "new", q[r].pc # "answered"
    PROVE  /\ ClockOf(q) \in Nat /\ ClockOf(p) \in Nat
           /\ ClockOf(q) =< ClockOf(p)
           /\ q[r].pc = "new" => ClockOf(q) < ClockOf(p)
           /\ p[r].pc = "answered" => ClockOf(q) < ClockOf(p)
<1> DEFINE A(x) == {y \in Requests : x[y].pc # "new"}
           B(x) == {y \in Requests : x[y].pc = "answered"}
<1>1. A(q) \subseteq A(p) /\ B(q) \subseteq B(p)
  BY Zenon DEF Changes
<1>2. A(p) \in SUBSET Requests /\ B(p) \in SUBSET Requests
  BY Zenon
<1>3. IsFiniteSet(A(p)) /\ IsFiniteSet(B(p))
  BY ZenonT(60), <1>2, FS_Subset
<1>4. /\ IsFiniteSet(A(q)) /\ Cardinality(A(q)) =< Cardinality(A(p))
      /\ Cardinality(A(p)) = Cardinality(A(q)) => A(p) = A(q)
  BY ZenonT(60), <1>1, <1>3, FS_Subset
<1>5. /\ IsFiniteSet(B(q)) /\ Cardinality(B(q)) =< Cardinality(B(p))
      /\ Cardinality(B(p)) = Cardinality(B(q)) => B(p) = B(q)
  BY ZenonT(60), <1>1, <1>3, FS_Subset
<1>6. /\ Cardinality(A(q)) \in Nat /\ Cardinality(A(p)) \in Nat
      /\ Cardinality(B(q)) \in Nat /\ Cardinality(B(p)) \in Nat
  BY ZenonT(60), <1>3, <1>4, <1>5, FS_CardinalityType
<1>7. q[r].pc = "new" => A(p) # A(q)
  BY ZenonT(60)
<1>8. p[r].pc = "answered" => B(p) # B(q)
  BY ZenonT(60)
<1>9. ClockOf(q) = Cardinality(A(q)) + Cardinality(B(q))
  BY Zenon DEF ClockOf
<1>10. ClockOf(p) = Cardinality(A(p)) + Cardinality(B(p))
  BY Zenon DEF ClockOf
<1> HIDE DEF A, B
<1> QED
  BY SMTT(60), <1>4, <1>5, <1>6, <1>7, <1>8, <1>9, <1>10

\* The model's clock is the one above.
LEMMA ClockIs ==
    ASSUME IsFiniteSet(Requests) PROVE Clock = ClockOf(req) /\ ClockOf(req) \in Nat
<1>1. Clock = ClockOf(req)
  BY ZenonT(60) DEF Clock, ClockOf
<1>2. /\ IsFiniteSet({r \in Requests : req[r].pc # "new"})
      /\ IsFiniteSet({r \in Requests : req[r].pc = "answered"})
  BY ZenonT(60), FS_Subset
<1>3. ClockOf(req) \in Nat
  BY SMTT(60), <1>2, FS_CardinalityType DEF ClockOf
<1> QED BY ZenonT(60), <1>1, <1>3

-----------------------------------------------------------------------------
(* The four things that can happen to the requests and the session *)

\* A request arrives: its time is now, and it has not run.
LEMMA Arrival ==
    ASSUME IsFiniteSet(Requests), Absent \notin {"ok", "error"}, NEW q, NEW p, NEW in,
           NEW r \in Requests, Timed(q), Probed(q, in), Detected(q), Changes(q, p, r),
           q[r].pc = "new", p[r].pc = "lookup", p[r].since = ClockOf(q),
           p[r].ran = q[r].ran, p[r].answer = q[r].answer
    PROVE  Timed(p) /\ Probed(p, in) /\ Detected(p)
<1>1. ClockOf(q) \in Nat /\ ClockOf(p) \in Nat /\ ClockOf(q) =< ClockOf(p)
  BY Zenon, ClockGrows DEF Timed
<1>2. p[r].answer # "ok" /\ p[r].ran = Absent
  BY Zenon DEF Timed
<1>3. Timed(p)
  <2>1. p \in [Requests -> Request]
    BY ZenonT(60) DEF Changes
  <2>2. \A x \in Requests : p[x].since =< ClockOf(p)
    <3> SUFFICES ASSUME NEW x \in Requests PROVE p[x].since =< ClockOf(p)
      BY Zenon
    <3>1. CASE x = r
      BY ZenonT(60), <3>1, <1>1
    <3>2. CASE x # r
      <4>1. p[x] = q[x] /\ q[x].since =< ClockOf(q) /\ q[x].since \in Nat
        BY Zenon, <3>2 DEF Changes, Timed, Request
      <4> QED BY SMTT(60), <4>1, <1>1
    <3> QED BY ZenonT(60), <3>1, <3>2
  <2>3. \A x \in Requests : p[x].answer = "ok" => p[x].pc = "answered"
    BY ZenonT(60), <1>2 DEF Changes, Timed
  <2>4. \A x \in Requests : p[x].pc = "new" => p[x].ran = Absent
    BY ZenonT(60), <1>2 DEF Changes, Timed
  <2> QED BY ZenonT(60), <2>1, <2>2, <2>3, <2>4 DEF Timed
<1>4. Probed(p, in)
  <2>1. \A s \in Probes : p[s].answer = "ok" => p[s] = q[s]
    BY Zenon, <1>2 DEF Changes, Probes
  <2>2. \A s \in Probes, c \in Calls : Before(p, s, c) => p[s] = q[s] /\ p[c] = q[c]
    BY ZenonT(60), <1>2 DEF Changes, Probes, Before, Calls
  <2> QED BY SMTT(60), <2>1, <2>2 DEF Probed, Before
<1>5. Detected(p)
  <2>1. \A s \in Probes : p[s].answer = "ok" => p[s] = q[s]
    BY Zenon, <1>2 DEF Changes, Probes
  <2>2. \A s \in Probes, c \in Calls : Before(p, s, c) => p[s] = q[s] /\ p[c] = q[c]
    BY Zenon, <1>2 DEF Changes, Probes, Before, Calls
  <2> QED BY SMTT(60), <2>1, <2>2 DEF Detected, Before
<1> QED BY ZenonT(60), <1>3, <1>4, <1>5


\* A call makes progress; if it ran a script, it was the session's.
LEMMA Progress ==
    ASSUME IsFiniteSet(Requests), Absent \notin {"ok", "error"}, NEW q, NEW p, NEW in, NEW in2,
           NEW r \in Calls, Timed(q), Probed(q, in), Detected(q), Changes(q, p, r),
           q[r].pc \notin {"new", "answered"}, p[r].pc \notin {"new", "answered"},
           p[r].since = q[r].since, p[r].answer = q[r].answer,
           p[r].ran = q[r].ran \/ p[r].ran = in.session,
           in2 \in Inner, in2.session = in.session, in2.hash = in.hash,
           in2.generation = in.generation
    PROVE  Timed(p) /\ Probed(p, in2) /\ Detected(p)
<1>0. r \in Requests /\ r \notin Probes
  BY Zenon DEF Calls, Probes
<1>1. ClockOf(q) \in Nat /\ ClockOf(p) \in Nat /\ ClockOf(q) =< ClockOf(p)
  BY Zenon, <1>0, ClockGrows DEF Timed
<1>2. \A s \in Probes : p[s] = q[s] /\ s \in Requests
  BY Zenon, <1>0 DEF Changes, Probes
<1>3. Timed(p)
  <2>1. p \in [Requests -> Request]
    BY Zenon DEF Changes
  <2>2. \A x \in Requests : p[x].since =< ClockOf(p)
    <3> SUFFICES ASSUME NEW x \in Requests PROVE p[x].since =< ClockOf(p)
      BY ZenonT(60)
    <3>1. p[x].since = q[x].since /\ q[x].since =< ClockOf(q) /\ q[x].since \in Nat
      BY ZenonT(60) DEF Changes, Timed, Request
    <3> QED BY SMTT(60), <3>1, <1>1
  <2>3. \A x \in Requests : p[x].answer = "ok" => p[x].pc = "answered"
    BY DEF Changes, Timed
  <2>4. \A x \in Requests : p[x].pc = "new" => p[x].ran = Absent
    BY ZenonT(60) DEF Changes, Timed
  <2> QED BY ZenonT(60), <2>1, <2>2, <2>3, <2>4 DEF Timed
<1>4. Probed(p, in2)
  <2>1. \A s \in Probes : p[s].answer = "ok" =>
          /\ p[s].status \in Status
          /\ p[s].status.generation =< in2.generation
          /\ p[s].status.generation = in2.generation => p[s].status.hash = in2.hash
    BY ZenonT(60), <1>2 DEF Probed
  <2>2. ASSUME NEW s \in Probes, NEW c \in Calls, Before(p, s, c),
               p[s].status.generation = in2.generation
        PROVE  p[s].status.hash = p[c].ran
    <3>1. CASE p[c].ran = q[c].ran
      <4>1. p[c].since = q[c].since
        BY Zenon, <1>0 DEF Changes, Calls
      <4> QED BY ZenonT(60), <4>1, <3>1, <2>2, <1>2 DEF Probed, Before
    <3>2. CASE p[c].ran # q[c].ran
      <4>1. p[c].ran = in.session
        BY ZenonT(60), <3>2 DEF Changes, Calls
      <4> QED BY ZenonT(60), <4>1, <2>1, <2>2 DEF Probed, Before
    <3> QED BY Zenon, <3>1, <3>2
  <2> QED BY Zenon, <2>1, <2>2 DEF Probed
<1>5. Detected(p)
  <2>1. \A c \in Calls : p[c].pc = "answered" => p[c] = q[c]
    BY Zenon DEF Changes, Calls
  <2> QED BY SMTT(60), <2>1, <1>2 DEF Detected, Before
<1> QED BY Zenon, <1>3, <1>4, <1>5

\* A request is answered now: a probe says what the session is.
LEMMA Answer ==
    ASSUME IsFiniteSet(Requests), Absent \notin {"ok", "error"}, NEW q, NEW p, NEW in,
           NEW r \in Requests, Timed(q), Probed(q, in), Detected(q), Changes(q, p, r),
           q[r].pc \notin {"new", "answered"}, p[r].pc = "answered",
           p[r].since = q[r].since, p[r].ran = q[r].ran, p[r].until = ClockOf(q),
           r \in Probes => /\ p[r].status \in Status
                           /\ p[r].status.generation = in.generation
                           /\ p[r].status.hash = in.hash
    PROVE  Timed(p) /\ Probed(p, in) /\ Detected(p)
<1>1. ClockOf(q) \in Nat /\ ClockOf(p) \in Nat /\ ClockOf(q) =< ClockOf(p)
  BY Zenon, ClockGrows DEF Timed
<1>2. \A x \in Requests : /\ p[x].since = q[x].since /\ p[x].ran = q[x].ran
                          /\ q[x].since =< ClockOf(q) /\ q[x].since \in Nat
  BY ZenonT(60) DEF Changes, Timed, Request
<1>3. \A x \in Requests : ~ (p[r].until < p[x].since)
  BY SMTT(60), <1>1, <1>2
<1>4. Timed(p)
  <2>1. p \in [Requests -> Request]
    BY Zenon DEF Changes
  <2>2. \A x \in Requests : p[x].since =< ClockOf(p)
    BY SMTT(60), <1>1, <1>2
  <2>3. \A x \in Requests : p[x].answer = "ok" => p[x].pc = "answered"
    BY ZenonT(60) DEF Changes, Timed
  <2>4. \A x \in Requests : p[x].pc = "new" => p[x].ran = Absent
    BY ZenonT(60) DEF Changes, Timed
  <2> QED BY Zenon, <2>1, <2>2, <2>3, <2>4 DEF Timed
<1>5. Probes \subseteq Requests /\ Calls \subseteq Requests
  BY Zenon DEF Probes, Calls
<1>6. \A s \in Probes, c \in Calls : Before(p, s, c) => p[s] = q[s] /\ Before(q, s, c)
  BY ZenonT(60), <1>2, <1>3, <1>5 DEF Changes, Before
<1>7. Probed(p, in)
  <2>1. \A s \in Probes : p[s].answer = "ok" =>
          /\ p[s].status \in Status
          /\ p[s].status.generation =< in.generation
          /\ p[s].status.generation = in.generation => p[s].status.hash = in.hash
    <3> SUFFICES ASSUME NEW s \in Probes, p[s].answer = "ok"
                 PROVE  /\ p[s].status \in Status
                        /\ p[s].status.generation =< in.generation
                        /\ p[s].status.generation = in.generation => p[s].status.hash = in.hash
      BY Zenon
    <3>1. CASE s = r
      <4>1. in.generation \in Nat
        BY Zenon DEF Probed, Inner
      <4> QED BY SMTT(60), <3>1, <4>1
    <3>2. CASE s # r
      BY SMTT(60), <3>2, <1>5 DEF Changes, Probed
    <3> QED BY Zenon, <3>1, <3>2
  <2> QED BY SMTT(60), <2>1, <1>2, <1>5, <1>6 DEF Probed
<1>8. Detected(p)
  <2> SUFFICES ASSUME NEW s1 \in Probes, NEW s2 \in Probes, NEW c \in Calls,
                      Before(p, s1, c), p[s2].answer = "ok", p[c].pc = "answered",
                      p[c].until < p[s2].since,
                      p[s1].status.generation = p[s2].status.generation
               PROVE  p[s1].status.hash = p[c].ran /\ p[s2].status.hash = p[c].ran
    BY ZenonT(60) DEF Detected
  <2>1. p[s1] = q[s1] /\ Before(q, s1, c) /\ p[c].ran = q[c].ran
    BY Zenon, <1>2, <1>5, <1>6
  <2>2. p[c] = q[c]
    BY ZenonT(60), <1>3, <1>5 DEF Changes
  <2>3. CASE s2 = r
    BY ZenonT(60), <2>1, <2>3 DEF Probed, Before
  <2>4. CASE s2 # r
    <3>1. p[s2] = q[s2]
      BY Zenon, <2>4, <1>5 DEF Changes
    <3> QED BY SMTT(60), <3>1, <2>1, <2>2 DEF Detected
  <2> QED BY Zenon, <2>3, <2>4
<1> QED BY Zenon, <1>4, <1>7, <1>8

\* The session is swapped, and counted: no answer is about the new one yet.
LEMMA Swapped ==
    ASSUME NEW q, NEW in, NEW in2, Timed(q), Probed(q, in),
           in2 \in Inner, in2.session = in2.hash, in2.generation = in.generation + 1
    PROVE  Probed(q, in2)
<1>1. in.generation \in Nat
  BY Zenon DEF Probed, Inner
<1>2. \A s \in Probes : q[s].answer = "ok" =>
        /\ q[s].status.generation \in Nat
        /\ q[s].status.generation < in2.generation
  BY SMTT(60), <1>1 DEF Probed, Status
<1> QED BY SMTT(60), <1>1, <1>2 DEF Probed, Before


-----------------------------------------------------------------------------
(* The steps of the server *)

\* The initial state satisfies the invariant: nothing was asked yet.
LEMMA McpInit ==
    ASSUME IsFiniteSet(Requests), Absent \notin {"ok", "error"}, ServerInit PROVE McpInv
<1>1. req = [r \in Requests |-> [pc |-> "new", answer |-> Absent, ran |-> Absent,
                                 status |-> Absent, since |-> 0, until |-> 0]]
  BY Zenon DEF ServerInit
<1>2. req \in [Requests -> Request]
  BY Zenon, <1>1 DEF Request, Version
<1>3. \A r \in Requests : req[r].since = 0 /\ req[r].answer # "ok" /\ req[r].ran = Absent
                          /\ req[r].pc = "new"
  BY Zenon, <1>1
<1>4. ClockOf(req) \in Nat
  BY Zenon, ClockIs
<1>5. Timed(req)
  BY SMTT(60), <1>2, <1>3, <1>4 DEF Timed
<1>6. inner \in Inner /\ inner.session = inner.hash
  BY ZenonT(60) DEF ServerInit, Inner, Version
<1>7. Probed(req, inner) /\ Detected(req)
  BY ZenonT(60), <1>3, <1>6 DEF Probed, Detected, Before, Probes
<1>8. file \in Nat /\ watch \in Watch
  BY Zenon DEF ServerInit, Version, Watch
<1> QED BY Zenon, <1>5, <1>7, <1>8 DEF McpInv

\* A handler starts on the reactor.
LEMMA ArriveStep ==
    ASSUME IsFiniteSet(Requests), Absent \notin {"ok", "error"}, McpInv, NEW r \in Requests,
           Arrive(r)
    PROVE  McpInv'
<1>1. req \in [Requests -> Request] /\ req[r] \in Request
  BY Zenon DEF McpInv, Timed
<1>2. ClockOf(req) = Clock /\ req' = [req EXCEPT ![r].pc = "lookup", ![r].since = Clock]
  BY Zenon, ClockIs DEF Arrive
<1>3. ClockOf(req) \in Nat
  BY Zenon, ClockIs
<1>4. Changes(req, req', r)
  BY ZenonT(60), <1>1, <1>2, <1>3 DEF Changes, Request
<1>5. /\ req'[r].pc = "lookup" /\ req'[r].since = ClockOf(req)
      /\ req'[r].ran = req[r].ran /\ req'[r].answer = req[r].answer
  BY ZenonT(60), <1>1, <1>2 DEF Request
<1>6. /\ req[r].pc = "new"
      /\ inner' = inner /\ file' = file /\ watch' = watch
  BY Zenon DEF Arrive
<1>7. Timed(req') /\ Probed(req', inner) /\ Detected(req')
  BY ZenonT(60), <1>4, <1>5, <1>6, Arrival DEF McpInv
<1> QED BY ZenonT(60), <1>6, <1>7 DEF McpInv

\* `list_tools' and `status_payload' answer under the mutex.
LEMMA ReportStep ==
    ASSUME IsFiniteSet(Requests), Absent \notin {"ok", "error"}, McpInv, NEW r \in Requests,
           Report(r)
    PROVE  McpInv'
<1>1. req \in [Requests -> Request] /\ req[r] \in Request /\ inner \in Inner
  BY ZenonT(60) DEF McpInv, Timed, Probed
<1>2. PICK a \in {"ok", "error"}, v \in Status :
        /\ v.generation = inner.generation /\ v.hash = inner.hash
        /\ req' = [req EXCEPT ![r] = [[@ EXCEPT !.status = v] EXCEPT
                                        !.pc = "answered", !.answer = a, !.until = Clock]]
  <2>1. [generation |-> inner.generation, hash |-> inner.hash] \in Status
    BY ZenonT(60), <1>1 DEF Status, Inner
  <2> QED BY ZenonT(60), <2>1 DEF Report, Answered
<1>3. ClockOf(req) = Clock /\ ClockOf(req) \in Nat
  BY ZenonT(60), ClockIs
<1>4. Changes(req, req', r)
  BY ZenonT(60), <1>1, <1>2, <1>3 DEF Changes, Request
<1>5. /\ req'[r].pc = "answered" /\ req'[r].since = req[r].since /\ req'[r].ran = req[r].ran
      /\ req'[r].until = ClockOf(req) /\ req'[r].status = v
  BY ZenonT(60), <1>1, <1>2, <1>3 DEF Request
<1>6. /\ req[r].pc = "lookup"
      /\ inner' = inner /\ file' = file /\ watch' = watch
  BY ZenonT(60) DEF Report
<1>8. Timed(req) /\ Probed(req, inner) /\ Detected(req)
  BY ZenonT(60) DEF McpInv
<1>9. r \in Probes => /\ req'[r].status \in Status
                     /\ req'[r].status.generation = inner.generation
                     /\ req'[r].status.hash = inner.hash
  BY ZenonT(60), <1>2, <1>5
<1>7. Timed(req') /\ Probed(req', inner) /\ Detected(req')
  BY ZenonT(60), <1>4, <1>5, <1>6, <1>8, <1>9, Answer
<1> QED BY ZenonT(60), <1>6, <1>7 DEF McpInv

\* The reactor answers a call, with an error or a value.
LEMMA CallAnswered ==
    ASSUME IsFiniteSet(Requests), Absent \notin {"ok", "error"}, McpInv, NEW r \in Calls,
           NEW a \in {"ok", "error"}, req' = [req EXCEPT ![r] = Answered(r, a, @)],
           req[r].pc \notin {"new", "answered"}, UNCHANGED <<inner, file, watch>>
    PROVE  McpInv'
<1>0. r \in Requests /\ r \notin Probes
  BY ZenonT(60) DEF Calls, Probes
<1>1. req \in [Requests -> Request] /\ req[r] \in Request
  BY ZenonT(60), <1>0 DEF McpInv, Timed
<1>3. ClockOf(req) = Clock /\ ClockOf(req) \in Nat
  BY ZenonT(60), ClockIs
<1>2. PICK n : /\ n = [req[r] EXCEPT !.pc = "answered", !.answer = a, !.until = ClockOf(req)]
               /\ req' = [req EXCEPT ![r] = n]
  BY ZenonT(60), <1>3 DEF Answered
<1>6. /\ n \in Request /\ n.pc = "answered" /\ n.since = req[r].since /\ n.ran = req[r].ran
      /\ n.until = ClockOf(req)
  BY ZenonT(60), <1>1, <1>2, <1>3 DEF Request
<1>4. Changes(req, req', r)
  BY ZenonT(60), <1>0, <1>1, <1>2, <1>6 DEF Changes
<1>5. /\ req'[r].pc = "answered" /\ req'[r].since = req[r].since /\ req'[r].ran = req[r].ran
      /\ req'[r].until = ClockOf(req)
  BY ZenonT(60), <1>0, <1>1, <1>2, <1>6
<1>7. Timed(req') /\ Probed(req', inner) /\ Detected(req')
  BY ZenonT(60), <1>0, <1>4, <1>5, Answer DEF McpInv
<1> QED BY ZenonT(60), <1>7 DEF McpInv


\* A call goes on, without an answer, and the session keeps its script.
LEMMA CallGoesOn ==
    ASSUME IsFiniteSet(Requests), Absent \notin {"ok", "error"}, McpInv, NEW r \in Calls,
           NEW n \in Request, req' = [req EXCEPT ![r] = n],
           req[r].pc \notin {"new", "answered"}, n.pc \notin {"new", "answered"},
           n.since = req[r].since, n.answer = req[r].answer,
           n.ran = req[r].ran \/ n.ran = inner.session,
           inner' \in Inner, inner'.session = inner.session, inner'.hash = inner.hash,
           inner'.generation = inner.generation, UNCHANGED <<file, watch>>
    PROVE  McpInv'
<1>0. r \in Requests
  BY Zenon DEF Calls
<1>1. req \in [Requests -> Request]
  BY Zenon DEF McpInv, Timed
<1>2. Changes(req, req', r) /\ req'[r] = n
  BY Zenon, <1>0, <1>1 DEF Changes
<1>3. Timed(req) /\ Probed(req, inner) /\ Detected(req)
  BY ZenonT(60) DEF McpInv
<1>4. Timed(req') /\ Probed(req', inner') /\ Detected(req')
  BY ZenonT(60), <1>2, <1>3, Progress
<1> QED BY Zenon, <1>4 DEF McpInv

\* `find' and `map_json_args' refuse, or the call starts.
LEMMA FindStep ==
    ASSUME IsFiniteSet(Requests), Absent \notin {"ok", "error"}, McpInv, NEW r \in Requests,
           Find(r)
    PROVE  McpInv'
<1>0. r \in Calls
  BY Zenon DEF Find, Calls
<1>1. req \in [Requests -> Request] /\ req[r] \in Request /\ inner \in Inner
  BY Zenon DEF McpInv, Timed, Probed
<1>2. req[r].pc = "lookup" /\ UNCHANGED <<inner, file, watch>>
  BY ZenonT(60) DEF Find
<1>3. CASE req' = [req EXCEPT ![r].pc = "spawned"]
  <2>1. PICK n : n = [req[r] EXCEPT !.pc = "spawned"] /\ req' = [req EXCEPT ![r] = n]
    BY ZenonT(60), <1>3
  <2>2. /\ n \in Request /\ n.pc = "spawned" /\ n.since = req[r].since
        /\ n.answer = req[r].answer /\ n.ran = req[r].ran
    BY ZenonT(60), <1>1, <2>1 DEF Request
  <2> QED BY ZenonT(60), <1>0, <1>1, <1>2, <2>1, <2>2, CallGoesOn
<1>4. CASE req' = [req EXCEPT ![r] = Answered(r, "error", @)]
  BY ZenonT(60), <1>0, <1>2, <1>4, CallAnswered
<1> QED BY Zenon, <1>3, <1>4 DEF Find

\* The blocking thread takes the mutex, and with it the session.
LEMMA LockStep ==
    ASSUME IsFiniteSet(Requests), Absent \notin {"ok", "error"}, McpInv, NEW r \in Calls,
           LockSession(r)
    PROVE  McpInv'
<1>1. req \in [Requests -> Request] /\ req[r] \in Request /\ inner \in Inner
  BY Zenon DEF McpInv, Timed, Probed, Calls
<1>2. req[r].pc = "spawned" /\ UNCHANGED <<inner, file, watch>>
  BY ZenonT(60) DEF LockSession
<1>3. CASE req' = [req EXCEPT ![r].pc = "failed"]
  <2>1. PICK n : n = [req[r] EXCEPT !.pc = "failed"] /\ req' = [req EXCEPT ![r] = n]
    BY ZenonT(60), <1>3
  <2>2. /\ n \in Request /\ n.pc = "failed" /\ n.since = req[r].since
        /\ n.answer = req[r].answer /\ n.ran = req[r].ran
    BY ZenonT(60), <1>1, <2>1 DEF Request
  <2> QED BY ZenonT(60), <1>1, <1>2, <2>1, <2>2, CallGoesOn
<1>4. CASE req' = [req EXCEPT ![r].pc = "running", ![r].ran = inner.session]
  <2>1. PICK n : /\ n = [req[r] EXCEPT !.pc = "running", !.ran = inner.session]
                 /\ req' = [req EXCEPT ![r] = n]
    BY ZenonT(60), <1>1, <1>4 DEF Calls
  <2>2. /\ n \in Request /\ n.pc = "running" /\ n.since = req[r].since
        /\ n.answer = req[r].answer /\ n.ran = inner.session
    BY ZenonT(60), <1>1, <2>1 DEF Request, Inner
  <2> QED BY ZenonT(60), <1>1, <1>2, <2>1, <2>2, CallGoesOn
<1> QED BY ZenonT(60), <1>3, <1>4 DEF LockSession

\* The call returns or panics; a panic poisons the mutex.
LEMMA ReturnStep ==
    ASSUME IsFiniteSet(Requests), Absent \notin {"ok", "error"}, McpInv, NEW r \in Calls,
           ToolReturns(r) \/ ToolPanics(r)
    PROVE  McpInv'
<1>1. req \in [Requests -> Request] /\ req[r] \in Request /\ inner \in Inner
  BY ZenonT(60) DEF McpInv, Timed, Probed, Calls
<1>2. req[r].pc = "running" /\ UNCHANGED <<file, watch>>
  BY Zenon DEF ToolReturns, ToolPanics
<1>3. PICK p \in {"returned", "failed"} : req' = [req EXCEPT ![r].pc = p]
  BY Zenon DEF ToolReturns, ToolPanics
<1>4. PICK n : n = [req[r] EXCEPT !.pc = p] /\ req' = [req EXCEPT ![r] = n]
  BY ZenonT(60), <1>3
<1>5. /\ n \in Request /\ n.pc = p /\ n.since = req[r].since
      /\ n.answer = req[r].answer /\ n.ran = req[r].ran
  BY ZenonT(60), <1>1, <1>4 DEF Request
<1>6. /\ inner' \in Inner /\ inner'.session = inner.session /\ inner'.hash = inner.hash
      /\ inner'.generation = inner.generation
  BY ZenonT(60), <1>1 DEF ToolReturns, ToolPanics, Inner
<1> QED BY ZenonT(60), <1>2, <1>4, <1>5, <1>6, CallGoesOn

\* `reload': a good build replaces the session and is counted.
LEMMA SwapStep ==
    ASSUME McpInv, Swap PROVE McpInv'
<1>1. inner \in Inner /\ watch \in Watch /\ req' = req /\ file' = file
  BY ZenonT(60) DEF McpInv, Probed, Swap
<1>2. watch' \in Watch
  BY ZenonT(60), <1>1 DEF Swap, Watch
<1>3. CASE inner' = inner
  BY ZenonT(60), <1>1, <1>2, <1>3 DEF McpInv
<1>4. CASE inner' = [inner EXCEPT !.ok = FALSE]
  <2>1. /\ inner' \in Inner /\ inner'.session = inner.session /\ inner'.hash = inner.hash
        /\ inner'.generation = inner.generation
    BY ZenonT(60), <1>1, <1>4 DEF Inner
  <2>2. Probed(req, inner')
    BY ZenonT(60), <2>1 DEF McpInv, Probed
  <2> QED BY ZenonT(60), <1>1, <1>2, <2>2 DEF McpInv
<1>5. CASE inner' = [inner EXCEPT !.session = watch.text, !.tools = watch.text,
                                  !.generation = @ + 1, !.hash = watch.text, !.ok = TRUE]
  <2>1. /\ inner' \in Inner /\ inner'.session = inner'.hash
        /\ inner'.generation = inner.generation + 1
    <3>1. watch.text \in Version /\ inner.generation + 1 \in Nat
      BY <1>1 DEF Watch, Inner
    <3>2. PICK v \in Version, g \in Nat :
            /\ g = inner.generation + 1
            /\ inner' = [inner EXCEPT !.session = v, !.tools = v, !.generation = g,
                                      !.hash = v, !.ok = TRUE]
      BY ZenonT(60), <1>5, <3>1
    <3>3. inner' \in Inner
      BY ZenonT(60), <1>1, <3>2 DEF Inner
    <3>4. inner'.session = v /\ inner'.hash = v /\ inner'.generation = g
      BY Zenon, <1>1, <3>2 DEF Inner
    <3> QED BY ZenonT(60), <3>2, <3>3, <3>4
  <2>2. Timed(req) /\ Probed(req, inner)
    BY Zenon DEF McpInv
  <2>3. Probed(req, inner')
    BY Zenon, <2>1, <2>2, Swapped
  <2> QED BY Zenon, <1>1, <1>2, <2>3 DEF McpInv
<1> QED BY Zenon, <1>3, <1>4, <1>5 DEF Swap

\* No step of the server breaks the invariant.
LEMMA McpStep ==
    ASSUME IsFiniteSet(Requests), Absent \notin {"ok", "error"}, McpInv, [ServerNext]_serverVars
    PROVE  McpInv'
<1>1. CASE UNCHANGED serverVars
  BY ZenonT(60), <1>1 DEF serverVars, McpInv, Timed, Probed, Detected
<1>2. ASSUME NEW r \in Requests, Serve(r) PROVE McpInv'
  <2>1. CASE Arrive(r)
    BY ZenonT(60), <2>1, ArriveStep
  <2>2. CASE Report(r)
    BY ZenonT(60), <2>2, ReportStep
  <2>3. CASE Find(r)
    BY Zenon, <2>3, FindStep
  <2>4. ASSUME r \in Calls, LockSession(r) PROVE McpInv'
    BY ZenonT(60), <2>4, LockStep
  <2>5. ASSUME r \in Calls, ToolReturns(r) \/ ToolPanics(r) PROVE McpInv'
    BY ZenonT(60), <2>5, ReturnStep
  <2>6. ASSUME r \in Calls, AnswerCall(r) PROVE McpInv'
    <3>1. /\ req[r].pc \in {"failed", "returned"} /\ UNCHANGED <<inner, file, watch>>
          /\ \E a \in {"ok", "error"} : req' = [req EXCEPT ![r] = Answered(r, a, @)]
      BY Zenon, <2>6 DEF AnswerCall
    <3> QED BY ZenonT(60), <2>6, <3>1, CallAnswered
  <2> QED BY ZenonT(60), <1>2, <2>1, <2>2, <2>3, <2>4, <2>5, <2>6 DEF Serve
<1>3. ASSUME NEW r \in Calls, Forward(r) \/ Write(r) \/ DetachedEnds(r)
      PROVE  McpInv'
  <2>1. UNCHANGED <<req, inner, file, watch>>
    BY ZenonT(60), <1>3 DEF Forward, Receive, Drain, Emit, ForwarderEnds, Write,
                DetachedEnds
  <2> QED BY Zenon, <2>1 DEF McpInv
<1>4. CASE SeedStamp \/ Poll \/ Edit
  <2>1. UNCHANGED <<req, inner>> /\ (file' = file \/ file' = file + 1)
    BY ZenonT(60), <1>4 DEF SeedStamp, Poll, Edit
  <2>2. file \in Nat /\ watch \in Watch
    BY Zenon DEF McpInv
  <2>3. watch' \in Watch
    <3>1. file \in Version
      BY ZenonT(60), <2>2 DEF Version
    <3>2. CASE SeedStamp
      BY ZenonT(60), <2>2, <3>1, <3>2 DEF SeedStamp, Watch
    <3>3. CASE Poll
      BY ZenonT(60), <3>1, <3>3 DEF Poll, Watch
    <3>4. CASE Edit
      BY ZenonT(60), <2>2, <3>4 DEF Edit
    <3> QED BY ZenonT(60), <1>4, <3>2, <3>3, <3>4
  <2> QED BY SMTT(60), <2>1, <2>2, <2>3 DEF McpInv
<1>5. CASE Swap
  BY ZenonT(60), <1>5, SwapStep
<1>6. CASE Idle
  BY ZenonT(60), <1>1, <1>6 DEF Idle
<1> QED BY Zenon, <1>1, <1>2, <1>3, <1>4, <1>5, <1>6 DEF ServerNext, Watcher

\* The invariant holds in every state of the server, whatever the requests,
\* the edits and the scripts that do not build.
THEOREM McpInductive ==
    ASSUME IsFiniteSet(Requests), Absent \notin {"ok", "error"} PROVE ServerSpec => []McpInv
<1>1. ServerInit => McpInv
  BY ZenonT(60), McpInit
<1>2. McpInv /\ [ServerNext]_serverVars => McpInv'
  BY ZenonT(60), McpStep
<1> QED BY <1>1, <1>2, PTL DEF ServerSpec

\* "compare it across calls to detect tools changing underneath you": a call
\* made between two status probes that report the same generation ran the
\* script that both of them name, for any requests, however the handlers,
\* the blocking threads and the reload task interleave.
THEOREM SwapsAreDetected ==
    ASSUME IsFiniteSet(Requests), Absent \notin {"ok", "error"}
    PROVE  ServerSpec => []GenerationDetectsSwap
<1>1. McpInv => GenerationDetectsSwap
  BY ZenonT(60) DEF McpInv, Detected, Before, Probes, GenerationDetectsSwap
<1> QED BY <1>1, McpInductive, PTL

-----------------------------------------------------------------------------
(* Flattening a sequence of batches *)

\* The order of the naturals, as a set of pairs.
Less == {ss \in Nat \X Nat : ss[1] < ss[2]}

\* The naturals are well ordered.
LEMMA LessWellFounded == IsWellFoundedOn(Less, Nat)
  BY Zenon, NatLessThanWellFounded DEF OpToRel, Less

\* Every non-empty set of naturals has a least element.
LEMMA LeastOf ==
  ASSUME NEW S \in SUBSET Nat, S # {}
  PROVE  \E m \in S : \A n \in S : m =< n
<1>1. PICK m \in S : \A n \in S : <<n, m>> \notin Less
  BY ZenonT(60), LessWellFounded, WFMin
<1>2. ASSUME NEW n \in S PROVE m =< n
  <2>1. <<n, m>> \in Nat \X Nat /\ <<n, m>>[1] = n /\ <<n, m>>[2] = m
    BY ZenonT(60)
  <2>2. ~(n < m)
    BY <1>1, <2>1, ZenonT(60) DEF Less
  <2> QED
    BY <2>2
<1> QED
  BY Zenon, <1>2

\* Concatenations of sequences.
LEMMA ConcatIs ==
    ASSUME NEW S, NEW s \in Seq(S), NEW t \in Seq(S)
    PROVE  /\ s \o t \in Seq(S) /\ Len(s \o t) = Len(s) + Len(t)
           /\ \A i \in 1..Len(s) : (s \o t)[i] = s[i]
  OBVIOUS

\* An empty sequence adds nothing.
LEMMA ConcatEmpty ==
    ASSUME NEW S, NEW s \in Seq(S) PROVE s \o <<>> = s /\ <<>> \o s = s
  OBVIOUS

\* Concatenations can be regrouped.
LEMMA ConcatGroups ==
    ASSUME NEW S, NEW s \in Seq(S), NEW t \in Seq(S), NEW u \in Seq(S)
    PROVE  (s \o t) \o u = s \o (t \o u)
  BY SMTT(60)

\* An element more is a sequence of one more.
LEMMA AppendIs ==
    ASSUME NEW S, NEW s \in Seq(S), NEW e \in S
    PROVE  Append(s, e) = s \o <<e>> /\ Append(s, e) \in Seq(S) /\ <<e>> \in Seq(S)
  OBVIOUS

\* The first n elements of a sequence.
LEMMA PrefixIs ==
    ASSUME NEW S, NEW s \in Seq(S), NEW n \in 0..Len(s)
    PROVE  /\ SubSeq(s, 1, n) \in Seq(S) /\ Len(SubSeq(s, 1, n)) = n
           /\ \A i \in 1..n : SubSeq(s, 1, n)[i] = s[i]
  OBVIOUS

\* Sequences are equal when they have the same elements.
LEMMA SeqEqual ==
    ASSUME NEW S, NEW s \in Seq(S), NEW t \in Seq(S), Len(s) = Len(t),
           \A i \in 1..Len(s) : s[i] = t[i]
    PROVE  s = t
  BY SMTT(60)

\* g holds the concatenations of the first batches of s, up to the n-th.
Joins(s, n, g) == g = [i \in 0..n |-> IF i = 0 THEN <<>> ELSE g[i - 1] \o s[i]]

\* There is one such function only.
LEMMA JoinsUnique ==
    ASSUME NEW s, NEW n \in Nat, NEW g, NEW h, Joins(s, n, g), Joins(s, n, h)
    PROVE  g = h
<1> DEFINE Bad == {i \in 0..n : g[i] # h[i]}
<1>1. /\ g = [i \in 0..n |-> g[i]] /\ h = [i \in 0..n |-> h[i]]
      /\ \A i \in 0..n : g[i] = IF i = 0 THEN <<>> ELSE g[i - 1] \o s[i]
      /\ \A i \in 0..n : h[i] = IF i = 0 THEN <<>> ELSE h[i - 1] \o s[i]
  BY ZenonT(60) DEF Joins
<1>2. ASSUME Bad # {} PROVE FALSE
  <2>1. Bad \in SUBSET Nat
    OBVIOUS
  <2> HIDE DEF Bad
  <2>2. PICK m \in Bad : \A k \in Bad : m =< k
    BY Zenon, <1>2, <2>1, LeastOf
  <2>3. m \in 0..n /\ g[m] # h[m]
    BY Zenon DEF Bad
  <2>4. m # 0
    BY ZenonT(60), <1>1, <2>3
  <2>5. m - 1 \in 0..n /\ ~(m =< m - 1)
    BY SMTT(60), <2>3, <2>4
  <2>6. g[m - 1] = h[m - 1]
    BY Zenon, <2>2, <2>5 DEF Bad
  <2> QED BY ZenonT(60), <1>1, <2>3, <2>4, <2>6
<1> QED BY ZenonT(60), <1>1, <1>2

\* And there is one: the least n without one would have that of n - 1, which
\* one more batch extends.
LEMMA JoinsExists ==
    ASSUME NEW T, NEW s \in Seq(Seq(T)), NEW n \in 0..Len(s)
    PROVE  \E g : Joins(s, n, g) /\ \A i \in 0..n : g[i] \in Seq(T)
<1> DEFINE Good(k) == \E g : Joins(s, k, g) /\ \A i \in 0..k : g[i] \in Seq(T)
           Bad == {k \in 0..Len(s) : ~Good(k)}
<1>0. Len(s) \in Nat /\ \A i \in 1..Len(s) : s[i] \in Seq(T)
  OBVIOUS
<1>1. Good(0)
  <2>1. PICK g : g = [i \in 0..0 |-> <<>>]
    BY ZenonT(60)
  <2>2. Joins(s, 0, g) /\ \A i \in 0..0 : g[i] \in Seq(T)
    BY SMTT(60), <2>1 DEF Joins
  <2> QED BY Zenon, <2>2
<1>2. ASSUME Bad # {} PROVE FALSE
  <2>1. Bad \in SUBSET Nat
    BY SMTT(60), <1>0
  <2>k. ASSUME NEW k \in Bad PROVE k \in 0..Len(s) /\ ~Good(k)
    BY Zenon
  <2>q. ASSUME NEW k \in 0..Len(s), k \notin Bad PROVE Good(k)
    BY <2>q, ZenonT(60)
  <2> HIDE DEF Bad
  <2>2. PICK m \in Bad : \A k \in Bad : m =< k
    BY Zenon, <1>2, <2>1, LeastOf
  <2>3. m \in 1..Len(s)
    BY SMTT(60), <1>0, <1>1, <2>k
  <2>4. m - 1 \in 0..Len(s) /\ m - 1 \notin Bad
    BY SMTT(60), <1>0, <2>2, <2>3
  <2>5. Good(m - 1)
    BY Zenon, <2>q, <2>4
  <2>6. PICK g : Joins(s, m - 1, g) /\ \A i \in 0..(m - 1) : g[i] \in Seq(T)
    BY ZenonT(60), <2>5
  <2>7. PICK h : h = [i \in 0..m |-> IF i < m THEN g[i] ELSE g[m - 1] \o s[m]]
    BY ZenonT(60)
  <2>8. \A i \in 0..(m - 1) : g[i] = IF i = 0 THEN <<>> ELSE g[i - 1] \o s[i]
    BY ZenonT(60), <2>6, <2>3 DEF Joins
  <2>9. \A i \in 0..m : h[i] = IF i = 0 THEN <<>> ELSE h[i - 1] \o s[i]
    <3> TAKE i \in 0..m
    <3>1. CASE i = m
      BY SMTT(60), <3>1, <2>3, <2>7
    <3>2. CASE i # m
      <4>1. i \in 0..(m - 1) /\ i < m
        BY SMTT(60), <3>2, <2>3
      <4>2. h[i] = g[i]
        BY ZenonT(60), <4>1, <2>7
      <4>3. i # 0 => i - 1 \in 0..m /\ i - 1 < m
        BY SMTT(60), <4>1, <2>3
      <4>4. i # 0 => h[i - 1] = g[i - 1]
        BY ZenonT(60), <4>3, <2>7
      <4> QED BY ZenonT(60), <4>1, <4>2, <4>4, <2>8
    <3> QED BY ZenonT(60), <3>1, <3>2
  <2>10. Joins(s, m, h)
    BY ZenonT(60), <2>7, <2>9 DEF Joins
  <2>11. \A i \in 0..m : h[i] \in Seq(T)
    <3>1. m - 1 \in 0..(m - 1)
      BY SMTT(60), <2>3
    <3>2. g[m - 1] \o s[m] \in Seq(T)
      BY ZenonT(60), <2>6, <2>3, <1>0, <3>1, ConcatIs
    <3> QED BY SMTT(60), <3>2, <2>6, <2>7, <2>3
  <2>12. Good(m)
    BY ZenonT(60), <2>10, <2>11
  <2> QED BY ZenonT(60), <2>12, <2>k
<1> QED BY Zenon, <1>2

\* So what Flat chooses is the last of the concatenations.
LEMMA FlatIs ==
    ASSUME NEW T, NEW s \in Seq(Seq(T)), NEW g, Joins(s, Len(s), g)
    PROVE  Flat(s) = g[Len(s)]
<1>1. Len(s) \in Nat
  OBVIOUS
<1> DEFINE f == CHOOSE h : Joins(s, Len(s), h)
<1>2. Joins(s, Len(s), f)
  BY ZenonT(60)
<1>3. f = g
  BY ZenonT(60), <1>1, <1>2, JoinsUnique
<1>4. Flat(s) = f[Len(s)]
  BY <1>1, ZenonT(60) DEF Flat, Joins
<1> QED BY ZenonT(60), <1>3, <1>4

\* Flattened batches are a sequence of their elements.
LEMMA FlatType ==
    ASSUME NEW T, NEW s \in Seq(Seq(T)) PROVE Flat(s) \in Seq(T)
<1>1. Len(s) \in Nat /\ Len(s) \in 0..Len(s)
  OBVIOUS
<1>2. PICK g : Joins(s, Len(s), g) /\ \A i \in 0..Len(s) : g[i] \in Seq(T)
  BY ZenonT(60), <1>1, JoinsExists
<1> QED BY ZenonT(60), <1>1, <1>2, FlatIs

\* No batches, and a batch more.
LEMMA FlatAppend ==
    ASSUME NEW T, NEW s \in Seq(Seq(T)), NEW b \in Seq(T)
    PROVE  Flat(Append(s, b)) = Flat(s) \o b /\ Flat(<<>>) = <<>>
<1>0. Flat(<<>>) = <<>>
  <2>1. <<>> \in Seq(Seq(T)) /\ Len(<<>>) = 0
    OBVIOUS
  <2>2. PICK e : e = <<>>
    BY ZenonT(60)
  <2>3. e \in Seq(Seq(T)) /\ Len(e) = 0 /\ 0 \in 0..Len(e)
    BY SMTT(60), <2>1, <2>2
  <2>4. PICK g : Joins(e, 0, g)
    BY ZenonT(60), <2>3, JoinsExists
  <2>5. Flat(e) = g[0]
    BY ZenonT(60), <2>3, <2>4, FlatIs
  <2>6. g[0] = <<>>
    BY SMTT(60), <2>4 DEF Joins
  <2> QED BY ZenonT(60), <2>2, <2>5, <2>6
<1>1. PICK n, t : n = Len(s) /\ t = Append(s, b)
  BY ZenonT(60)
<1>2. /\ n \in Nat /\ t \in Seq(Seq(T)) /\ Len(t) = n + 1 /\ t[n + 1] = b
      /\ \A i \in 1..n : t[i] = s[i]
  BY SMTT(60), <1>1
<1>3. PICK h : Joins(t, n + 1, h)
  BY SMTT(60), <1>2, JoinsExists
<1>4. Flat(t) = h[n + 1]
  BY ZenonT(60), <1>2, <1>3, FlatIs
<1>5. PICK k : k = [i \in 0..n |-> h[i]]
  BY ZenonT(60)
<1>6. \A i \in 0..(n + 1) : h[i] = IF i = 0 THEN <<>> ELSE h[i - 1] \o t[i]
  BY ZenonT(60), <1>2, <1>3 DEF Joins
<1>7. \A i \in 0..n : k[i] = IF i = 0 THEN <<>> ELSE k[i - 1] \o s[i]
  <2> TAKE i \in 0..n
  <2>1. k[i] = h[i] /\ i \in 0..(n + 1) /\ (i # 0 => t[i] = s[i])
    BY SMTT(60), <1>2, <1>5
  <2>2. i # 0 => k[i - 1] = h[i - 1]
    BY SMTT(60), <1>2, <1>5
  <2> QED BY ZenonT(60), <1>6, <2>1, <2>2
<1>8. Joins(s, n, k)
  BY Zenon, <1>5, <1>7 DEF Joins
<1>9. Flat(s) = k[n]
  BY Zenon, <1>1, <1>8, FlatIs
<1>10. k[n] = h[n] /\ h[n + 1] = h[n] \o b
  <2>1. n \in 0..n /\ n + 1 \in 0..(n + 1) /\ n + 1 # 0 /\ (n + 1) - 1 = n
    BY SMTT(60), <1>2
  <2>2. h[n + 1] = h[(n + 1) - 1] \o t[n + 1]
    BY ZenonT(60), <1>6, <2>1
  <2> QED BY ZenonT(60), <1>2, <1>5, <2>1, <2>2
<1> QED BY ZenonT(60), <1>0, <1>1, <1>4, <1>9, <1>10

-----------------------------------------------------------------------------
(* The stream of a call: nothing is lost or reordered before the result    *)

Chunk == Streams \X Nat
Forwarder ==
    [pc : {"off", "run", "last", "end"}, chan : Seq(Chunk), out : Seq(Chunk), err : Seq(Chunk),
     ready : Seq(Seq(Chunk)), sent : Seq(Seq(Chunk)), done : BOOLEAN, senders : {0, 1},
     accepted : Seq(Chunk), dropped : Nat, atEnd : Nat]

\* What a forwarder has in hand, in the order in which it will send it.
Whole(sent, ready, stages, chan) == (sent \o (ready \o stages)) \o chan

\* One stage at most is in use, so one batch at most is ready; all of what
\* was accepted is somewhere on its way; and a forwarder that has left its
\* loop has drained its stages and all that was accepted during the call.
Streamed(f) ==
    /\ f \in Forwarder
    /\ f.out = <<>> \/ f.err = <<>>
    /\ f.ready = <<>> \/ \E b \in Seq(Chunk) : f.ready = <<b>>
    /\ Whole(Flat(f.sent), Flat(f.ready), f.out \o f.err, f.chan) = f.accepted
    /\ f.atEnd =< Len(f.accepted)
    /\ f.pc \in {"last", "end"} => f.out = <<>> /\ f.err = <<>>
    /\ f.pc = "end" => f.ready = <<>>
    /\ f.done /\ f.pc \in {"last", "end"} =>
          f.atEnd =< Len(Flat(f.sent)) + Len(Flat(f.ready))

\* The forwarder of a call that still runs is in its loop, and a value is
\* answered when it has ended.
Coupled(q, f) ==
    /\ q.pc \in {"new", "lookup"} => f.pc = "off" /\ ~f.done /\ f.senders = 0
    /\ q.pc \in {"spawned", "running"} => f.pc = "run" /\ ~f.done /\ f.senders = 1
    /\ q.pc = "returned" => f.done
    /\ q.answer = "ok" => q.pc = "answered" /\ f.done /\ f.pc = "end"

StreamInv ==
    /\ fwd \in [Calls -> Forwarder]
    /\ \A r \in Calls : Streamed(fwd[r]) /\ Coupled(req[r], fwd[r])

\* One batch, flattened, is itself.
LEMMA FlatOne ==
    ASSUME NEW T, NEW b \in Seq(T) PROVE Flat(<<b>>) = b /\ Flat(<<>>) = <<>>
<1>1. <<>> \in Seq(Seq(T)) /\ Append(<<>>, b) = <<b>>
  OBVIOUS
<1>2. Flat(Append(<<>>, b)) = Flat(<<>>) \o b /\ Flat(<<>>) = <<>>
  BY ZenonT(60), <1>1, FlatAppend
<1> QED BY ZenonT(60), <1>1, <1>2, ConcatEmpty

\* What heads the channel moves behind what is staged.
LEMMA WholeShifts ==
    ASSUME NEW T, NEW F \in Seq(T), NEW g \in Seq(T), NEW u \in Seq(T), NEW t \in Seq(T)
    PROVE  Whole(F, g, u, t) = Whole(F, <<>>, g, u \o t)
<1>1. <<>> \o g = g
  BY ZenonT(60), ConcatEmpty
<1>2. (F \o g) \o u = F \o (g \o u)
  BY SMTT(60)
<1>3. PICK v \in Seq(T) : v = F \o g
  BY ZenonT(60), ConcatIs
<1>4. (v \o u) \o t = v \o (u \o t)
  BY SMTT(60), <1>3, ConcatGroups
<1> QED BY <1>1, <1>2, <1>3, <1>4, ZenonT(60) DEF Whole

\* A non-empty sequence is its head and its tail.
LEMMA HeadAndTail ==
    ASSUME NEW T, NEW c \in Seq(T), c # <<>>
    PROVE  Head(c) \in T /\ Tail(c) \in Seq(T) /\ c = <<Head(c)>> \o Tail(c)
<1>1. PICK x, t : x = Head(c) /\ t = Tail(c)
  BY ZenonT(60)
<1>2. x \in T /\ t \in Seq(T) /\ Len(t) = Len(c) - 1 /\ Len(c) \in Nat /\ Len(c) > 0
      /\ x = c[1] /\ \A i \in 1..Len(t) : t[i] = c[i + 1]
  BY <1>1
<1>3. PICK u : u = <<x>> \o t
  BY ZenonT(60)
<1>4. <<x>> \in Seq(T) /\ Len(<<x>>) = 1 /\ <<x>>[1] = x
  BY SMTT(60), <1>2
<1>5. /\ u \in Seq(T) /\ Len(u) = 1 + Len(t)
      /\ \A i \in 1..(1 + Len(t)) : u[i] = IF i =< 1 THEN <<x>>[i] ELSE t[i - 1]
  BY SMTT(60), <1>2, <1>3, <1>4, ConcatIs
<1>6. Len(u) = Len(c) /\ \A i \in 1..Len(u) : u[i] = c[i]
  BY SMTT(60), <1>2, <1>4, <1>5
<1>7. u = c
  BY Zenon, <1>5, <1>6, SeqEqual
<1> QED BY Zenon, <1>1, <1>2, <1>3, <1>7

\* `Coalescer::push' stages the chunk behind what was staged, in one stage,
\* and what it flushes is what was staged before it.
LEMMA PushIs ==
    ASSUME NEW f \in Forwarder, f.ready = <<>>, f.out = <<>> \/ f.err = <<>>,
           NEW x \in Chunk
    PROVE  \E b, o, e \in Seq(Chunk), y \in Seq(Seq(Chunk)) :
              /\ y = <<>> \/ y = <<b>>
              /\ Push(f, x) = [f EXCEPT !.ready = y, !.out = o, !.err = e]
              /\ o = <<>> \/ e = <<>>
              /\ Flat(y) \o (o \o e) = (f.out \o f.err) \o <<x>>
<1>1. /\ f.out \in Seq(Chunk) /\ f.err \in Seq(Chunk) /\ <<x>> \in Seq(Chunk)
      /\ <<>> \in Seq(Chunk) /\ x[1] \in {"out", "err"}
  BY SMTT(60) DEF Forwarder, Chunk, Streams
<1>2. Flat(<<>>) = <<>> /\ Flat(<<f.out>>) = f.out /\ Flat(<<f.err>>) = f.err
  BY Zenon, <1>1, FlatOne
<1>3. /\ f.out \o <<>> = f.out /\ <<>> \o f.out = f.out /\ f.err \o <<>> = f.err
      /\ <<>> \o f.err = f.err /\ <<x>> \o <<>> = <<x>> /\ <<>> \o <<x>> = <<x>>
      /\ <<>> \o <<>> = <<>>
  BY Zenon, <1>1, ConcatEmpty
<1>4. /\ Append(f.out, x) = f.out \o <<x>> /\ Append(f.err, x) = f.err \o <<x>>
      /\ Append(f.out, x) \in Seq(Chunk) /\ Append(f.err, x) \in Seq(Chunk)
      /\ <<>> \o Append(f.out, x) = Append(f.out, x) /\ <<>> \o Append(f.err, x) = Append(f.err, x)
      /\ Append(f.out, x) \o <<>> = Append(f.out, x)
  BY SMTT(60), <1>1, AppendIs, ConcatEmpty
<1>5. ASSUME NEW B \in Seq(Chunk) PROVE <<>> \o <<B>> = <<B>> /\ <<B>> \o <<>> = <<B>>
  <2>1. <<B>> \in Seq(Seq(Chunk))
    OBVIOUS
  <2> QED BY Zenon, <2>1, ConcatEmpty
<1>6. CASE x[1] = "out"
  <2>1. PICK y, o : /\ y = (<<>> \o Batch(f.err))
                           \o (IF Len(f.out) + 1 > StageCap THEN Batch(f.out) ELSE <<>>)
                    /\ o = IF Len(f.out) + 1 > StageCap THEN <<x>> ELSE Append(f.out, x)
    BY ZenonT(60)
  <2>2. Push(f, x) = [f EXCEPT !.ready = y, !.out = o, !.err = <<>>]
    BY ZenonT(60), <1>6, <2>1 DEF Push, Forwarder
  <2>3. o \in Seq(Chunk)
    BY Zenon, <1>1, <1>4, <2>1
  <2>4. \E b \in Seq(Chunk) :
           /\ y \in Seq(Seq(Chunk)) /\ (y = <<>> \/ y = <<b>>)
           /\ Flat(y) \o (o \o <<>>) = (f.out \o f.err) \o <<x>>
    <3>1. o \o <<>> = o
      BY Zenon, <2>3, ConcatEmpty
    <3>2. CASE f.err # <<>>
      <4>1. f.out = <<>> /\ y = <<f.err>> /\ o = <<x>>
        BY ZenonT(60), <1>1, <1>3, <1>4, <1>5, <2>1, <3>2 DEF Batch
      <4> QED BY SMTT(60), <1>1, <1>2, <1>3, <3>1, <4>1
    <3>3. CASE f.err = <<>> /\ Len(f.out) + 1 > StageCap /\ f.out # <<>>
      <4>1. y = <<f.out>> /\ o = <<x>>
        BY Zenon, <1>1, <1>3, <1>5, <2>1, <3>3 DEF Batch
      <4> QED BY SMTT(60), <1>1, <1>2, <1>3, <3>1, <3>3, <4>1
    <3>4. CASE f.err = <<>> /\ ~(Len(f.out) + 1 > StageCap /\ f.out # <<>>)
      <4>1. y = <<>> /\ o = f.out \o <<x>>
        BY ZenonT(60), <1>1, <1>3, <1>4, <2>1, <3>4 DEF Batch
      <4>2. <<>> \o o = o
        BY <2>3, ConcatEmpty, ZenonT(60)
      <4>3. Flat(y) \o (o \o <<>>) = o
        BY <1>2, <3>1, <4>1, <4>2, ZenonT(60)
      <4>4. (f.out \o f.err) \o <<x>> = o
        BY <1>3, <3>4, <4>1, ZenonT(60)
      <4>5. y \in Seq(Seq(Chunk))
        BY SMTT(60), <4>1
      <4>6. Flat(y) \o (o \o <<>>) = (f.out \o f.err) \o <<x>>
        BY <4>3, <4>4, ZenonT(60)
      <4> QED BY <1>1, <4>1, <4>5, <4>6, ZenonT(60)
    <3> QED BY ZenonT(60), <3>2, <3>3, <3>4
  <2>5. <<>> \in Seq(Chunk)
    BY SMTT(60)
  <2> QED BY <1>1, <2>2, <2>3, <2>4, <2>5, ZenonT(60)
<1>7. CASE x[1] = "err"
  <2>1. PICK y, e : /\ y = (<<>> \o Batch(f.out))
                           \o (IF Len(f.err) + 1 > StageCap THEN Batch(f.err) ELSE <<>>)
                    /\ e = IF Len(f.err) + 1 > StageCap THEN <<x>> ELSE Append(f.err, x)
    BY ZenonT(60)
  <2>2. Push(f, x) = [f EXCEPT !.ready = y, !.out = <<>>, !.err = e]
    BY ZenonT(60), <1>7, <2>1 DEF Push, Forwarder
  <2>3. e \in Seq(Chunk)
    BY Zenon, <1>1, <1>4, <2>1
  <2>4. \E b \in Seq(Chunk) :
           /\ y \in Seq(Seq(Chunk)) /\ (y = <<>> \/ y = <<b>>)
           /\ Flat(y) \o (<<>> \o e) = (f.out \o f.err) \o <<x>>
    <3>1. <<>> \o e = e
      BY Zenon, <2>3, ConcatEmpty
    <3>2. CASE f.out # <<>>
      <4>1. f.err = <<>> /\ y = <<f.out>> /\ e = <<x>>
        BY ZenonT(60), <1>1, <1>3, <1>4, <1>5, <2>1, <3>2 DEF Batch
      <4> QED BY SMTT(60), <1>1, <1>2, <1>3, <3>1, <4>1
    <3>3. CASE f.out = <<>> /\ Len(f.err) + 1 > StageCap /\ f.err # <<>>
      <4>1. y = <<f.err>> /\ e = <<x>>
        BY ZenonT(60), <1>1, <1>3, <1>5, <2>1, <3>3 DEF Batch
      <4> QED BY SMTT(60), <1>1, <1>2, <1>3, <3>1, <3>3, <4>1
    <3>4. CASE f.out = <<>> /\ ~(Len(f.err) + 1 > StageCap /\ f.err # <<>>)
      <4>1. y = <<>> /\ e = f.err \o <<x>>
        BY ZenonT(60), <1>1, <1>3, <1>4, <2>1, <3>4 DEF Batch
      <4>2. Flat(y) \o (<<>> \o e) = e
        BY <1>2, <3>1, <4>1, ZenonT(60)
      <4>3. (f.out \o f.err) \o <<x>> = e
        BY <1>3, <3>4, <4>1, ZenonT(60)
      <4>4. y \in Seq(Seq(Chunk))
        BY SMTT(60), <4>1
      <4> QED BY <1>1, <4>1, <4>2, <4>3, <4>4, ZenonT(60)
    <3> QED BY ZenonT(60), <3>2, <3>3, <3>4
  <2> QED BY ZenonT(60), <1>1, <2>2, <2>3, <2>4
<1> QED BY ZenonT(60), <1>1, <1>6, <1>7

\* `Coalescer::flush' makes one batch of what is staged.
LEMMA FlushIs ==
    ASSUME NEW f \in Forwarder, f.ready = <<>>, f.out = <<>> \/ f.err = <<>>
    PROVE  \E b \in Seq(Chunk), y \in Seq(Seq(Chunk)) :
              /\ y = <<>> \/ y = <<b>>
              /\ Flush(f) = [f EXCEPT !.ready = y, !.out = <<>>, !.err = <<>>]
              /\ Flat(y) = f.out \o f.err
<1>1. f.out \in Seq(Chunk) /\ f.err \in Seq(Chunk) /\ <<>> \in Seq(Chunk)
  BY ZenonT(60) DEF Forwarder
<1>2. Flat(<<>>) = <<>> /\ Flat(<<f.out>>) = f.out /\ Flat(<<f.err>>) = f.err
  BY ZenonT(60), <1>1, FlatOne
<1>3. f.out \o <<>> = f.out /\ <<>> \o f.err = f.err /\ <<>> \o <<>> = <<>>
  BY ZenonT(60), <1>1, ConcatEmpty
<1>4. ASSUME NEW B \in Seq(Chunk) PROVE <<>> \o <<B>> = <<B>> /\ <<B>> \o <<>> = <<B>>
  <2>1. <<B>> \in Seq(Seq(Chunk))
    OBVIOUS
  <2> QED BY ZenonT(60), <2>1, ConcatEmpty
<1>5. PICK y : y = (<<>> \o Batch(f.out)) \o Batch(f.err)
  BY ZenonT(60)
<1>6. Flush(f) = [f EXCEPT !.ready = y, !.out = <<>>, !.err = <<>>]
  BY ZenonT(60), <1>5 DEF Flush, Forwarder
<1>7. \E b \in Seq(Chunk) :
         /\ y \in Seq(Seq(Chunk)) /\ (y = <<>> \/ y = <<b>>)
         /\ Flat(y) = f.out \o f.err
  <2>1. CASE f.out # <<>>
    <3>1. f.err = <<>> /\ y = <<f.out>>
      BY ZenonT(60), <1>1, <1>3, <1>4, <1>5, <2>1 DEF Batch
    <3> QED BY SMTT(60), <1>1, <1>2, <1>3, <3>1
  <2>2. CASE f.out = <<>> /\ f.err # <<>>
    <3>1. y = <<f.err>>
      BY ZenonT(60), <1>1, <1>3, <1>4, <1>5, <2>2 DEF Batch
    <3> QED BY SMTT(60), <1>1, <1>2, <1>3, <2>2, <3>1
  <2>3. CASE f.out = <<>> /\ f.err = <<>>
    <3>1. y = <<>>
      BY ZenonT(60), <1>3, <1>5, <2>3 DEF Batch
    <3>2. y \in Seq(Seq(Chunk))
      BY SMTT(60), <3>1
    <3>3. Flat(y) = f.out \o f.err
      BY <1>2, <1>3, <2>3, <3>1, ZenonT(60)
    <3> QED BY <1>1, <3>1, <3>2, <3>3, ZenonT(60)
  <2> QED BY ZenonT(60), <2>1, <2>2, <2>3
<1> QED BY ZenonT(60), <1>6, <1>7

\* The fields that Streamed is about, as sequences.
LEMMA StreamFields ==
    ASSUME NEW f, Streamed(f)
    PROVE  /\ f \in Forwarder /\ f.chan \in Seq(Chunk) /\ f.out \in Seq(Chunk)
           /\ f.err \in Seq(Chunk) /\ f.out \o f.err \in Seq(Chunk)
           /\ f.ready \in Seq(Seq(Chunk)) /\ f.sent \in Seq(Seq(Chunk))
           /\ Flat(f.sent) \in Seq(Chunk) /\ Flat(f.ready) \in Seq(Chunk)
           /\ f.accepted \in Seq(Chunk) /\ Flat(<<>>) = <<>> /\ <<>> \in Seq(Chunk)
           /\ f.pc \in {"off", "run", "last", "end"} /\ f.dropped \in Nat /\ f.atEnd \in Nat
           /\ f.senders \in {0, 1} /\ f.done \in BOOLEAN
<1>1. /\ f \in Forwarder /\ f.chan \in Seq(Chunk) /\ f.out \in Seq(Chunk)
      /\ f.err \in Seq(Chunk) /\ f.ready \in Seq(Seq(Chunk)) /\ f.sent \in Seq(Seq(Chunk))
      /\ f.accepted \in Seq(Chunk) /\ f.pc \in {"off", "run", "last", "end"}
      /\ f.dropped \in Nat /\ f.atEnd \in Nat /\ f.senders \in {0, 1} /\ f.done \in BOOLEAN
  BY ZenonT(60) DEF Streamed, Forwarder
<1>2. <<>> \in Seq(Chunk)
  BY SMTT(60)
<1> QED BY ZenonT(60), <1>1, <1>2, FlatType, FlatOne, ConcatIs

\* A received chunk keeps the stream whole.
LEMMA Received ==
    ASSUME NEW f, Streamed(f), f.pc = "run", f.ready = <<>>, f.chan # <<>>, NEW g,
           g = [Push(f, Head(f.chan)) EXCEPT !.chan = Tail(@)]
    PROVE  Streamed(g) /\ g.pc = f.pc /\ g.done = f.done /\ g.senders = f.senders
<1>1. /\ f \in Forwarder /\ f.chan \in Seq(Chunk) /\ f.out \in Seq(Chunk)
      /\ f.err \in Seq(Chunk) /\ f.out \o f.err \in Seq(Chunk)
      /\ Flat(f.sent) \in Seq(Chunk) /\ Flat(<<>>) = <<>>
  BY ZenonT(60), StreamFields
<1>2. PICK x, t : x = Head(f.chan) /\ t = Tail(f.chan)
  BY ZenonT(60)
<1>3. x \in Chunk /\ t \in Seq(Chunk) /\ f.chan = <<x>> \o t
  BY ZenonT(60), <1>1, <1>2, HeadAndTail
<1>4. f.out = <<>> \/ f.err = <<>>
  BY ZenonT(60) DEF Streamed
<1>5. PICK b \in Seq(Chunk), o \in Seq(Chunk), e \in Seq(Chunk), y \in Seq(Seq(Chunk)) :
              /\ y = <<>> \/ y = <<b>>
              /\ Push(f, x) = [f EXCEPT !.ready = y, !.out = o, !.err = e]
              /\ o = <<>> \/ e = <<>>
              /\ Flat(y) \o (o \o e) = (f.out \o f.err) \o <<x>>
  BY ZenonT(60), <1>1, <1>3, <1>4, PushIs
<1>6. PICK h : h = Push(f, x)
  BY ZenonT(60)
<1>7. /\ g \in Forwarder /\ g.pc = f.pc /\ g.done = f.done /\ g.senders = f.senders
      /\ g.ready = y /\ g.out = o /\ g.err = e /\ g.chan = t /\ g.sent = f.sent
      /\ g.accepted = f.accepted /\ g.atEnd = f.atEnd
  <2>1. h = [f EXCEPT !.ready = y, !.out = o, !.err = e] /\ y \in Seq(Seq(Chunk))
    BY Zenon, <1>5, <1>6
  <2>2. /\ h \in Forwarder /\ h.pc = f.pc /\ h.done = f.done /\ h.senders = f.senders
        /\ h.ready = y /\ h.out = o /\ h.err = e /\ h.chan = f.chan /\ h.sent = f.sent
        /\ h.accepted = f.accepted /\ h.atEnd = f.atEnd
    BY ZenonT(60), <1>1, <2>1 DEF Forwarder
  <2>3. g = [h EXCEPT !.chan = t]
    BY ZenonT(60), <1>2, <1>6, <2>2
  <2> QED BY ZenonT(60), <1>3, <2>2, <2>3 DEF Forwarder
<1>8. Flat(y) \in Seq(Chunk) /\ o \o e \in Seq(Chunk)
  BY ZenonT(60), <1>5, FlatType, ConcatIs
<1>9. Whole(Flat(f.sent), Flat(y), o \o e, t)
      = Whole(Flat(f.sent), <<>>, f.out \o f.err, f.chan)
  <2>1. PICK F, R, G, H, u : /\ F = Flat(f.sent) /\ R = Flat(y) /\ G = f.out \o f.err
                             /\ H = o \o e /\ u = <<x>>
    BY ZenonT(60)
  <2>2. u \in Seq(Chunk)
    BY SMTT(60), <1>3, <2>1
  <2>3. /\ F \in Seq(Chunk) /\ G \in Seq(Chunk) /\ R \o H = G \o u /\ f.chan = u \o t
    BY <1>1, <1>3, <1>5, <2>1, ZenonT(60)
  <2>4. Whole(F, G, u, t) = Whole(F, <<>>, G, u \o t)
    <3>1. /\ F \in Seq(Chunk) /\ G \in Seq(Chunk) /\ u \in Seq(Chunk) /\ t \in Seq(Chunk)
      BY <1>3, <2>2, <2>3, ZenonT(60)
    <3> QED BY SMTT(60), <3>1, WholeShifts
  <2>5. Whole(F, R, H, t) = Whole(F, <<>>, G, f.chan)
    BY <2>3, <2>4, ZenonT(60) DEF Whole
  <2> QED BY <2>1, <2>5, ZenonT(60)
<1>10. /\ Whole(Flat(f.sent), <<>>, f.out \o f.err, f.chan) = f.accepted
       /\ f.atEnd =< Len(f.accepted)
  BY Zenon, <1>1 DEF Streamed
<1> QED BY ZenonT(60), <1>5, <1>7, <1>9, <1>10 DEF Streamed

\* So does a flush; a forwarder that leaves its loop with an empty channel
\* holds all that was accepted.
LEMMA Flushed ==
    ASSUME NEW f, Streamed(f), f.pc = "run", f.ready = <<>>, NEW p \in {"run", "last"}, NEW g,
           g = [Flush(f) EXCEPT !.pc = p],
           p = "last" => f.chan = <<>>
    PROVE  Streamed(g) /\ g.pc = p /\ g.done = f.done /\ g.senders = f.senders
<1>1. /\ f \in Forwarder /\ f.chan \in Seq(Chunk) /\ f.out \in Seq(Chunk)
      /\ f.err \in Seq(Chunk) /\ f.out \o f.err \in Seq(Chunk)
      /\ Flat(f.sent) \in Seq(Chunk) /\ Flat(<<>>) = <<>> /\ <<>> \in Seq(Chunk)
  BY ZenonT(60), StreamFields
<1>2. f.out = <<>> \/ f.err = <<>>
  BY ZenonT(60) DEF Streamed
<1>3. PICK b \in Seq(Chunk), y \in Seq(Seq(Chunk)) :
              /\ y = <<>> \/ y = <<b>>
              /\ Flush(f) = [f EXCEPT !.ready = y, !.out = <<>>, !.err = <<>>]
              /\ Flat(y) = f.out \o f.err
  BY ZenonT(60), <1>1, <1>2, FlushIs
<1>4. /\ g \in Forwarder /\ g.pc = p /\ g.done = f.done /\ g.senders = f.senders
      /\ g.ready = y /\ g.out = <<>> /\ g.err = <<>> /\ g.chan = f.chan /\ g.sent = f.sent
      /\ g.accepted = f.accepted /\ g.atEnd = f.atEnd
  <2>1. y \in Seq(Seq(Chunk))
    BY Zenon, <1>3
  <2>2. g = [f EXCEPT !.ready = y, !.out = <<>>, !.err = <<>>, !.pc = p]
    BY Zenon, <1>1, <1>3 DEF Forwarder
  <2> QED BY ZenonT(60), <1>1, <2>1, <2>2 DEF Forwarder
<1>5. PICK F, S : F = Flat(f.sent) /\ S = f.out \o f.err
  BY ZenonT(60)
<1>6. F \in Seq(Chunk) /\ S \in Seq(Chunk)
  BY Zenon, <1>1, <1>5
<1>7. <<>> \o S = S /\ S \o (<<>> \o <<>>) = S /\ <<>> \o <<>> = <<>>
  BY ZenonT(60), <1>1, <1>6, ConcatEmpty
<1>8. Whole(F, <<>>, S, f.chan) = f.accepted /\ f.atEnd =< Len(f.accepted)
  BY ZenonT(60), <1>1, <1>5 DEF Streamed
<1>9. Whole(F, S, <<>> \o <<>>, f.chan) = f.accepted
  BY ZenonT(60), <1>7, <1>8 DEF Whole
<1>10. p = "last" => g.atEnd =< Len(F) + Len(S)
  <2>1. CASE f.chan = <<>>
    <3>1. F \o S \in Seq(Chunk) /\ Len(F \o S) = Len(F) + Len(S) /\ (F \o S) \o <<>> = F \o S
      BY SMTT(60), <1>6, ConcatIs, ConcatEmpty
    <3>2. f.accepted = F \o S
      BY Zenon, <1>7, <1>8, <2>1, <3>1 DEF Whole
    <3> QED BY ZenonT(60), <1>4, <1>8, <3>1, <3>2
  <2> QED BY ZenonT(60), <2>1
<1> QED BY ZenonT(60), <1>3, <1>4, <1>5, <1>8, <1>9, <1>10 DEF Streamed

\* A batch that is sent keeps its place.
LEMMA Emitted ==
    ASSUME NEW f, Streamed(f), f.ready # <<>>, NEW g,
           g = [f EXCEPT !.ready = Tail(@), !.sent = Append(@, Head(f.ready))]
    PROVE  Streamed(g) /\ g.pc = f.pc /\ g.done = f.done /\ g.senders = f.senders
<1>1. /\ f \in Forwarder /\ f.chan \in Seq(Chunk) /\ f.out \o f.err \in Seq(Chunk)
      /\ f.ready \in Seq(Seq(Chunk)) /\ f.sent \in Seq(Seq(Chunk))
      /\ Flat(f.sent) \in Seq(Chunk) /\ Flat(<<>>) = <<>> /\ <<>> \in Seq(Chunk)
  BY Zenon, StreamFields
<1>2. PICK b \in Seq(Chunk) : f.ready = <<b>>
  BY ZenonT(60) DEF Streamed
<1>3. Head(f.ready) = b /\ Tail(f.ready) = <<>> /\ Flat(<<b>>) = b
  BY SMTT(60), <1>2, FlatOne
<1>4. /\ g \in Forwarder /\ g.pc = f.pc /\ g.done = f.done /\ g.senders = f.senders
      /\ g.ready = <<>> /\ g.sent = Append(f.sent, b) /\ g.out = f.out /\ g.err = f.err
      /\ g.chan = f.chan /\ g.accepted = f.accepted /\ g.atEnd = f.atEnd
  <2>1. Append(f.sent, b) \in Seq(Seq(Chunk)) /\ <<>> \in Seq(Seq(Chunk))
    BY SMTT(60), <1>1
  <2> QED BY ZenonT(60), <1>1, <1>3, <2>1 DEF Forwarder
<1>5. PICK F, S : F = Flat(f.sent) /\ S = f.out \o f.err
  BY ZenonT(60)
<1>6. F \in Seq(Chunk) /\ S \in Seq(Chunk) /\ Flat(g.sent) = F \o b
  BY ZenonT(60), <1>1, <1>4, <1>5, FlatAppend
<1>7. <<>> \o S = S /\ (F \o b) \o S = F \o (b \o S) /\ Len(F \o b) = Len(F) + Len(b)
  BY SMTT(60), <1>6, ConcatEmpty, ConcatGroups, ConcatIs
<1>8. Whole(F, b, S, f.chan) = f.accepted
  BY Zenon, <1>2, <1>3, <1>5 DEF Streamed
<1>9. Whole(F \o b, <<>>, S, f.chan) = f.accepted
  BY ZenonT(60), <1>7, <1>8 DEF Whole
<1>10. Len(F \o b) + Len(<<>>) = Len(F) + Len(b)
  BY SMTT(60), <1>6, <1>7
<1>11. f.done /\ f.pc \in {"last", "end"} => f.atEnd =< Len(F) + Len(b)
  BY ZenonT(60), <1>2, <1>3, <1>5 DEF Streamed
<1>12. /\ f.out = <<>> \/ f.err = <<>>
       /\ f.atEnd =< Len(f.accepted)
       /\ f.pc \in {"last", "end"} => f.out = <<>> /\ f.err = <<>>
  BY ZenonT(60) DEF Streamed
<1> QED BY ZenonT(60), <1>1, <1>4, <1>5, <1>6, <1>9, <1>10, <1>11, <1>12
           DEF Streamed

\* A write that is accepted is the last of the channel, one that is not is
\* only counted.
LEMMA Offered ==
    ASSUME NEW r, NEW f, f = fwd[r], Streamed(f), NEW kind \in Streams
    PROVE  /\ Streamed(TrySend(r, kind)) /\ TrySend(r, kind).pc = f.pc
           /\ TrySend(r, kind).done = f.done /\ TrySend(r, kind).senders = f.senders
<1>1. /\ f \in Forwarder /\ f.chan \in Seq(Chunk) /\ f.out \o f.err \in Seq(Chunk)
      /\ Flat(f.sent) \in Seq(Chunk) /\ Flat(f.ready) \in Seq(Chunk)
      /\ f.accepted \in Seq(Chunk) /\ f.dropped \in Nat /\ f.atEnd \in Nat
  BY ZenonT(60), StreamFields
<1>2. PICK g : g = TrySend(r, kind)
  BY ZenonT(60)
<1>3. PICK x : x = <<kind, Len(f.accepted) + f.dropped>>
  BY ZenonT(60)
<1>4. x \in Chunk
  BY SMTT(60), <1>1, <1>3 DEF Chunk
<1>5. \/ g = [f EXCEPT !.dropped = @ + 1]
      \/ g = [f EXCEPT !.chan = Append(@, x), !.accepted = Append(@, x)]
  BY ZenonT(60), <1>2, <1>3 DEF TrySend
<1>6. CASE g = [f EXCEPT !.dropped = @ + 1]
  <2>1. /\ g \in Forwarder /\ g.pc = f.pc /\ g.done = f.done /\ g.senders = f.senders
        /\ g.ready = f.ready /\ g.sent = f.sent /\ g.out = f.out /\ g.err = f.err
        /\ g.chan = f.chan /\ g.accepted = f.accepted /\ g.atEnd = f.atEnd
    <3>1. PICK d \in Nat : d = f.dropped + 1
      BY SMTT(60), <1>1
    <3>2. g = [f EXCEPT !.dropped = d]
      BY ZenonT(60), <1>6, <3>1
    <3> QED BY ZenonT(60), <1>1, <3>2 DEF Forwarder
  <2> QED BY ZenonT(60), <1>2, <2>1 DEF Streamed
<1>7. CASE g = [f EXCEPT !.chan = Append(@, x), !.accepted = Append(@, x)]
  <2>1. Append(f.chan, x) \in Seq(Chunk) /\ Append(f.accepted, x) \in Seq(Chunk)
    BY SMTT(60), <1>1, <1>4
  <2>2. /\ g \in Forwarder /\ g.pc = f.pc /\ g.done = f.done /\ g.senders = f.senders
        /\ g.ready = f.ready /\ g.sent = f.sent /\ g.out = f.out /\ g.err = f.err
        /\ g.chan = Append(f.chan, x) /\ g.accepted = Append(f.accepted, x)
        /\ g.atEnd = f.atEnd
    BY ZenonT(60), <1>1, <1>7, <2>1 DEF Forwarder
  <2>3. PICK X : X = Flat(f.sent) \o (Flat(f.ready) \o (f.out \o f.err))
    BY ZenonT(60)
  <2>4. X \in Seq(Chunk)
    BY ZenonT(60), <1>1, <2>3, ConcatIs
  <2>5. X \o f.chan = f.accepted
    BY ZenonT(60), <2>3 DEF Streamed, Whole
  <2>6. /\ Append(f.chan, x) = f.chan \o <<x>> /\ Append(f.accepted, x) = f.accepted \o <<x>>
        /\ <<x>> \in Seq(Chunk)
    BY ZenonT(60), <1>1, <1>4, AppendIs
  <2>7. X \o Append(f.chan, x) = Append(f.accepted, x)
    <3>1. PICK c \in Seq(Chunk), u \in Seq(Chunk) : c = f.chan /\ u = <<x>>
      BY ZenonT(60), <1>1, <2>6
    <3>2. X \in Seq(Chunk) /\ c \in Seq(Chunk) /\ u \in Seq(Chunk)
      BY ZenonT(60), <2>4, <3>1
    <3>3. (X \o c) \o u = X \o (c \o u)
      BY SMTT(60), <3>2, ConcatGroups
    <3> QED BY <2>5, <2>6, <3>1, <3>3, ZenonT(60)
  <2>8. Len(f.accepted) \in Nat /\ Len(Append(f.accepted, x)) = Len(f.accepted) + 1
    BY SMTT(60), <1>1, <1>4
  <2>9. Whole(Flat(g.sent), Flat(g.ready), g.out \o g.err, g.chan) = g.accepted
    BY ZenonT(60), <2>2, <2>3, <2>7 DEF Whole
  <2>10. g.atEnd =< Len(g.accepted)
    BY SMTT(60), <1>1, <2>2, <2>8 DEF Streamed
  <2> QED BY ZenonT(60), <1>2, <2>2, <2>9, <2>10 DEF Streamed
<1> QED BY ZenonT(60), <1>5, <1>6, <1>7

\* What a step does to the stream of one call.
LEMMA StreamKept ==
    ASSUME StreamInv, NEW r \in Calls, NEW g, Streamed(g), fwd' = [fwd EXCEPT ![r] = g],
           Coupled(req'[r], g), \A x \in Calls \ {r} : req'[x] = req[x]
    PROVE  StreamInv'
<1>1. g \in Forwarder
  BY Zenon DEF Streamed
<1>2. fwd' \in [Calls -> Forwarder] /\ fwd'[r] = g /\ \A x \in Calls \ {r} : fwd'[x] = fwd[x]
  BY Zenon, <1>1 DEF StreamInv
<1>3. ASSUME NEW x \in Calls PROVE Streamed(fwd'[x]) /\ Coupled(req'[x], fwd'[x])
  <2>1. CASE x = r
    BY ZenonT(60), <1>2, <2>1
  <2>2. CASE x # r
    <3>1. Streamed(fwd[x]) /\ Coupled(req[x], fwd[x]) /\ fwd'[x] = fwd[x] /\ req'[x] = req[x]
      BY ZenonT(60), <1>2, <2>2 DEF StreamInv
    <3> QED BY ZenonT(60), <3>1
  <2> QED BY ZenonT(60), <2>1, <2>2
<1> QED BY Zenon, <1>2, <1>3 DEF StreamInv

\* The forwarder and the writers.
LEMMA ForwardStep ==
    ASSUME StreamInv, NEW r \in Calls, Forward(r) \/ Write(r) \/ DetachedEnds(r)
    PROVE  StreamInv'
<1>1. Streamed(fwd[r]) /\ Coupled(req[r], fwd[r]) /\ fwd \in [Calls -> Forwarder]
  BY ZenonT(60) DEF StreamInv
<1>2. req' = req
  BY ZenonT(60) DEF Forward, Receive, Drain, Emit, ForwarderEnds, Write,
     DetachedEnds
<1>3. PICK f : f = fwd[r]
  BY ZenonT(60)
<1>4. f \in Forwarder /\ f.senders \in {0, 1} /\ f.done \in BOOLEAN
  BY ZenonT(60), <1>1, <1>3, StreamFields
<1>5. ASSUME NEW g, Streamed(g), fwd' = [fwd EXCEPT ![r] = g], Coupled(req[r], g)
      PROVE  StreamInv'
  BY ZenonT(60), <1>2, <1>5, StreamKept
<1>6. ASSUME NEW g, Streamed(g), fwd' = [fwd EXCEPT ![r] = g], g.pc = f.pc, g.done = f.done,
             g.senders = f.senders
      PROVE  StreamInv'
  <2>1. Coupled(req[r], g)
    BY ZenonT(60), <1>1, <1>3, <1>6 DEF Coupled
  <2> QED BY ZenonT(60), <1>5, <1>6, <2>1
<1>7. ASSUME f.pc = "run", f.ready = <<>>, f.chan # <<>>,
             fwd' = [fwd EXCEPT ![r] = [Push(fwd[r], Head(fwd[r].chan)) EXCEPT !.chan = Tail(@)]]
      PROVE  StreamInv'
  <2>1. PICK g : g = [Push(f, Head(f.chan)) EXCEPT !.chan = Tail(@)]
    BY ZenonT(60)
  <2>2. fwd' = [fwd EXCEPT ![r] = g]
    BY ZenonT(60), <1>3, <1>7, <2>1
  <2>3. Streamed(g) /\ g.pc = f.pc /\ g.done = f.done /\ g.senders = f.senders
    BY ZenonT(60), <1>1, <1>3, <1>7, <2>1, Received
  <2> QED BY ZenonT(60), <1>6, <2>2, <2>3
<1>8. ASSUME f.pc = "run", f.ready = <<>>, f.chan = <<>>, f.done \/ f.senders = 0,
             fwd' = [fwd EXCEPT ![r] = [Flush(fwd[r]) EXCEPT !.pc = "last"]]
      PROVE  StreamInv'
  <2>1. PICK g : g = [Flush(f) EXCEPT !.pc = "last"]
    BY ZenonT(60)
  <2>2. fwd' = [fwd EXCEPT ![r] = g]
    BY Zenon, <1>3, <1>8, <2>1
  <2>3. Streamed(g) /\ g.pc = "last" /\ g.done = f.done /\ g.senders = f.senders
    <3>1. PICK p \in {"run", "last"} : p = "last"
      BY Zenon
    <3>2. g = [Flush(f) EXCEPT !.pc = p] /\ Streamed(f)
      BY Zenon, <1>1, <1>3, <2>1, <3>1
    <3> QED BY <1>8, <3>1, <3>2, Flushed, ZenonT(60)
  <2>4. Coupled(req[r], g)
    BY SMTT(60), <1>1, <1>3, <1>8, <2>3 DEF Coupled
  <2> QED BY ZenonT(60), <1>5, <2>2, <2>3, <2>4
<1>9. CASE Receive(r)
  <2>1. CASE fwd' = [fwd EXCEPT ![r] = Flush(fwd[r])]
    <3>1. f.pc = "run" /\ f.ready = <<>>
      BY ZenonT(60), <1>3, <1>9 DEF Receive
    <3>2. PICK g : g = [Flush(f) EXCEPT !.pc = "run"]
      BY ZenonT(60)
    <3>3. Flush(f) = g
      BY ZenonT(60), <1>4, <3>1, <3>2 DEF Flush, Forwarder
    <3>4. Streamed(g) /\ g.pc = "run" /\ g.done = f.done /\ g.senders = f.senders
      <4>1. PICK p \in {"run", "last"} : p = "run"
        BY Zenon
      <4>2. g = [Flush(f) EXCEPT !.pc = p] /\ Streamed(f) /\ (p = "last" => f.chan = <<>>)
        BY ZenonT(60), <1>1, <1>3, <3>2, <4>1
      <4> QED BY <3>1, <4>1, <4>2, Flushed, ZenonT(60)
    <3> QED BY ZenonT(60), <1>3, <1>6, <2>1, <3>1, <3>3, <3>4
  <2> QED BY Zenon, <1>3, <1>7, <1>8, <1>9, <2>1 DEF Receive
<1>10. CASE Drain(r)
  BY Zenon, <1>3, <1>7, <1>8, <1>10 DEF Drain
<1>11. CASE Emit(r)
  <2>1. PICK g : g = [f EXCEPT !.ready = Tail(@), !.sent = Append(@, Head(f.ready))]
    BY Zenon
  <2>2. fwd' = [fwd EXCEPT ![r] = g] /\ f.ready # <<>>
    BY ZenonT(60), <1>1, <1>3, <1>11, <2>1 DEF Emit
  <2>3. Streamed(g) /\ g.pc = f.pc /\ g.done = f.done /\ g.senders = f.senders
    BY ZenonT(60), <1>1, <1>3, <2>1, <2>2, Emitted
  <2> QED BY ZenonT(60), <1>6, <2>2, <2>3
<1>12. CASE ForwarderEnds(r)
  <2>1. PICK g : g = [f EXCEPT !.pc = "end"]
    BY ZenonT(60)
  <2>2. fwd' = [fwd EXCEPT ![r] = g] /\ f.pc = "last" /\ f.ready = <<>>
    BY Zenon, <1>3, <1>12, <2>1 DEF ForwarderEnds
  <2>3. /\ g \in Forwarder /\ g.pc = "end" /\ g.done = f.done /\ g.senders = f.senders
        /\ g.ready = f.ready /\ g.sent = f.sent /\ g.out = f.out /\ g.err = f.err
        /\ g.chan = f.chan /\ g.accepted = f.accepted /\ g.atEnd = f.atEnd
    BY ZenonT(60), <1>4, <2>1 DEF Forwarder
  <2>4. Streamed(g)
    BY ZenonT(60), <1>1, <1>3, <2>2, <2>3 DEF Streamed
  <2>5. Coupled(req[r], g)
    BY Zenon, <1>1, <1>3, <2>2, <2>3 DEF Coupled
  <2> QED BY ZenonT(60), <1>5, <2>2, <2>4, <2>5
<1>13. CASE Write(r)
  <2>1. PICK kind \in Streams : fwd' = [fwd EXCEPT ![r] = TrySend(r, kind)]
    BY ZenonT(60), <1>13 DEF Write
  <2>2. PICK g : g = TrySend(r, kind)
    BY Zenon
  <2>3. Streamed(g) /\ g.pc = f.pc /\ g.done = f.done /\ g.senders = f.senders
    BY ZenonT(60), <1>1, <1>3, <2>2, Offered
  <2> QED BY ZenonT(60), <1>6, <2>1, <2>2, <2>3
<1>14. CASE DetachedEnds(r)
  <2>1. PICK g : g = [f EXCEPT !.senders = 0]
    BY ZenonT(60)
  <2>2. /\ fwd' = [fwd EXCEPT ![r] = g] /\ f.done
        /\ req[r].pc \in {"returned", "failed", "answered"}
    BY ZenonT(60), <1>3, <1>14, <2>1 DEF DetachedEnds
  <2>3. /\ g \in Forwarder /\ g.pc = f.pc /\ g.done = f.done /\ g.senders = 0
        /\ g.ready = f.ready /\ g.sent = f.sent /\ g.out = f.out /\ g.err = f.err
        /\ g.chan = f.chan /\ g.accepted = f.accepted /\ g.atEnd = f.atEnd
    BY ZenonT(60), <1>4, <2>1 DEF Forwarder
  <2>4. Streamed(g)
    BY ZenonT(60), <1>1, <1>3, <2>3 DEF Streamed
  <2>5. Coupled(req[r], g)
    BY ZenonT(60), <1>1, <1>3, <2>2, <2>3 DEF Coupled
  <2> QED BY ZenonT(60), <1>5, <2>2, <2>4, <2>5
<1> QED BY ZenonT(60), <1>9, <1>10, <1>11, <1>12, <1>13, <1>14 DEF Forward

\* The request of a call moves on while its stream stays as it is.
LEMMA StreamAside ==
    ASSUME StreamInv, req \in [Requests -> Request], NEW r \in Requests, NEW n,
           req' = [req EXCEPT ![r] = n], fwd' = fwd,
           r \in Calls => Coupled(n, fwd[r])
    PROVE  StreamInv'
<1>1. req'[r] = n /\ \A x \in Requests \ {r} : req'[x] = req[x]
  BY ZenonT(60)
<1>2. ASSUME NEW x \in Calls PROVE Streamed(fwd'[x]) /\ Coupled(req'[x], fwd'[x])
  <2>1. x \in Requests /\ Streamed(fwd[x]) /\ Coupled(req[x], fwd[x])
    BY ZenonT(60) DEF StreamInv, Calls
  <2>2. CASE x = r
    BY ZenonT(60), <1>1, <2>1, <2>2
  <2>3. CASE x # r
    BY ZenonT(60), <1>1, <2>1, <2>3
  <2> QED BY ZenonT(60), <2>2, <2>3
<1> QED BY ZenonT(60), <1>2 DEF StreamInv

\* A call that starts, that its blocking thread runs, or that returns.
LEMMA StreamStarts ==
    ASSUME StreamInv, req \in [Requests -> Request], NEW r \in Calls, NEW n, NEW g,
           req' = [req EXCEPT ![r] = n], fwd' = [fwd EXCEPT ![r] = g], g \in Forwarder,
           g.ready = fwd[r].ready, g.sent = fwd[r].sent, g.out = fwd[r].out,
           g.err = fwd[r].err, g.chan = fwd[r].chan, g.accepted = fwd[r].accepted,
           g.pc = "run", g.atEnd =< Len(g.accepted), Coupled(n, g)
    PROVE  StreamInv'
<1>1. r \in Requests
  BY ZenonT(60) DEF Calls
<1>2. req'[r] = n /\ \A x \in Calls \ {r} : req'[x] = req[x]
  BY ZenonT(60), <1>1 DEF Calls
<1>3. Streamed(fwd[r])
  BY ZenonT(60) DEF StreamInv
<1>4. Streamed(g)
  BY ZenonT(60), <1>3 DEF Streamed
<1> QED BY ZenonT(60), <1>2, <1>4, StreamKept

\* The handlers of the reactor and of the blocking threads.
LEMMA ServeStep ==
    ASSUME StreamInv, McpInv, Absent \notin {"ok", "error"}, NEW r \in Requests, Serve(r)
    PROVE  StreamInv'
<1>1. req \in [Requests -> Request] /\ req[r] \in Request
  BY ZenonT(60) DEF McpInv, Timed
<1>2. r \in Calls => Streamed(fwd[r]) /\ Coupled(req[r], fwd[r]) /\ fwd[r] \in Forwarder
  BY ZenonT(60) DEF StreamInv
<1>3. CASE Arrive(r)
  <2>1. PICK n : n = [req[r] EXCEPT !.pc = "lookup", !.since = Clock]
    BY ZenonT(60)
  <2>2. req' = [req EXCEPT ![r] = n] /\ fwd' = fwd /\ req[r].pc = "new"
    BY ZenonT(60), <1>1, <1>3, <2>1 DEF Arrive
  <2>3. n.pc = "lookup" /\ n.answer = req[r].answer
    BY ZenonT(60), <1>1, <2>1 DEF Request
  <2>4. r \in Calls => Coupled(n, fwd[r])
    BY ZenonT(60), <1>2, <2>2, <2>3 DEF Coupled
  <2> QED BY ZenonT(60), <1>1, <2>2, <2>4, StreamAside
<1>4. CASE Report(r)
  <2>1. r \notin Calls
    BY ZenonT(60), <1>4 DEF Report, Calls
  <2>2. PICK n : req' = [req EXCEPT ![r] = n]
    BY ZenonT(60), <1>4 DEF Report
  <2>3. fwd' = fwd
    BY ZenonT(60), <1>4 DEF Report
  <2> QED BY ZenonT(60), <1>1, <2>1, <2>2, <2>3, StreamAside
<1>5. ASSUME r \in Calls, req' = [req EXCEPT ![r] = Answered(r, "error", @)], fwd' = fwd
      PROVE  StreamInv'
  <2>1. PICK n : n = Answered(r, "error", req[r])
    BY ZenonT(60)
  <2>2. n.pc = "answered" /\ n.answer = "error"
    BY ZenonT(60), <1>1, <2>1 DEF Answered, Request
  <2>3. req' = [req EXCEPT ![r] = n]
    BY ZenonT(60), <1>5, <2>1
  <2>4. Coupled(n, fwd[r])
    BY ZenonT(60), <2>2 DEF Coupled
  <2> QED BY ZenonT(60), <1>1, <1>5, <2>3, <2>4, StreamAside
<1>6. CASE Find(r)
  <2>0. r \in Calls /\ req[r].pc = "lookup"
    BY ZenonT(60), <1>6 DEF Find, Calls
  <2>1. CASE req' = [req EXCEPT ![r] = Answered(r, "error", @)] /\ UNCHANGED fwd
    BY ZenonT(60), <1>5, <2>0, <2>1
  <2>2. CASE /\ req' = [req EXCEPT ![r].pc = "spawned"]
             /\ fwd' = [fwd EXCEPT ![r].pc = "run", ![r].senders = 1]
    <3>1. PICK n, g : n = [req[r] EXCEPT !.pc = "spawned"]
                      /\ g = [fwd[r] EXCEPT !.pc = "run", !.senders = 1]
      BY ZenonT(60)
    <3>2. req' = [req EXCEPT ![r] = n] /\ fwd' = [fwd EXCEPT ![r] = g]
      BY ZenonT(60), <2>2, <3>1, <2>0 DEF StreamInv
    <3>3. n.pc = "spawned" /\ n.answer = req[r].answer
      BY ZenonT(60), <1>1, <3>1 DEF Request
    <3>4. /\ g \in Forwarder /\ g.pc = "run" /\ g.senders = 1 /\ g.done = fwd[r].done
          /\ g.ready = fwd[r].ready /\ g.sent = fwd[r].sent /\ g.out = fwd[r].out
          /\ g.err = fwd[r].err /\ g.chan = fwd[r].chan /\ g.accepted = fwd[r].accepted
          /\ g.atEnd = fwd[r].atEnd
      BY ZenonT(60), <1>2, <2>0, <3>1 DEF Forwarder
    <3>5. Coupled(n, g)
      BY ZenonT(60), <1>2, <2>0, <3>3, <3>4 DEF Coupled
    <3>6. g.atEnd =< Len(g.accepted)
      BY ZenonT(60), <1>2, <2>0, <3>4 DEF Streamed
    <3> QED BY ZenonT(60), <1>1, <2>0, <3>2, <3>4, <3>5, <3>6, StreamStarts
  <2> QED BY ZenonT(60), <1>6, <2>1, <2>2 DEF Find
<1>7. ASSUME r \in Calls, LockSession(r) PROVE StreamInv'
  <2>0. req[r].pc = "spawned"
    BY ZenonT(60), <1>7 DEF LockSession
  <2>1. CASE /\ req' = [req EXCEPT ![r].pc = "failed"]
             /\ fwd' = [fwd EXCEPT ![r].senders = 0]
    <3>1. PICK n, g : n = [req[r] EXCEPT !.pc = "failed"] /\ g = [fwd[r] EXCEPT !.senders = 0]
      BY ZenonT(60)
    <3>2. req' = [req EXCEPT ![r] = n] /\ fwd' = [fwd EXCEPT ![r] = g]
      BY ZenonT(60), <2>1, <3>1, <1>7 DEF StreamInv
    <3>3. n.pc = "failed" /\ n.answer = req[r].answer
      BY ZenonT(60), <1>1, <3>1 DEF Request
    <3>4. /\ g \in Forwarder /\ g.pc = fwd[r].pc /\ g.senders = 0 /\ g.done = fwd[r].done
          /\ g.ready = fwd[r].ready /\ g.sent = fwd[r].sent /\ g.out = fwd[r].out
          /\ g.err = fwd[r].err /\ g.chan = fwd[r].chan /\ g.accepted = fwd[r].accepted
          /\ g.atEnd = fwd[r].atEnd
      BY ZenonT(60), <1>2, <1>7, <3>1 DEF Forwarder
    <3>5. Coupled(n, g) /\ g.pc = "run"
      BY ZenonT(60), <1>2, <1>7, <2>0, <3>3, <3>4 DEF Coupled
    <3>6. g.atEnd =< Len(g.accepted)
      BY ZenonT(60), <1>2, <1>7, <3>4 DEF Streamed
    <3> QED BY ZenonT(60), <1>1, <1>7, <3>2, <3>4, <3>5, <3>6, StreamStarts
  <2>2. CASE req' = [req EXCEPT ![r].pc = "running", ![r].ran = inner.session] /\ UNCHANGED fwd
    <3>1. PICK n : n = [req[r] EXCEPT !.pc = "running", !.ran = inner.session]
      BY ZenonT(60)
    <3>2. req' = [req EXCEPT ![r] = n]
      BY ZenonT(60), <1>1, <2>2, <3>1
    <3>3. n.pc = "running" /\ n.answer = req[r].answer
      BY ZenonT(60), <1>1, <3>1 DEF Request
    <3>4. Coupled(n, fwd[r])
      BY ZenonT(60), <1>2, <1>7, <2>0, <3>3 DEF Coupled
    <3> QED BY ZenonT(60), <1>1, <2>2, <3>2, <3>4, StreamAside
  <2> QED BY ZenonT(60), <1>7, <2>1, <2>2 DEF LockSession
<1>8. ASSUME r \in Calls, ToolReturns(r) PROVE StreamInv'
  <2>0. req[r].pc = "running"
    BY ZenonT(60), <1>8 DEF ToolReturns
  <2>1. PICK p \in {"returned", "failed"}, d \in {0, 1} :
           /\ req' = [req EXCEPT ![r].pc = p]
           /\ fwd' = [fwd EXCEPT ![r].done = TRUE, ![r].senders = d,
                                 ![r].atEnd = Len(fwd[r].accepted)]
    BY ZenonT(60), <1>8 DEF ToolReturns
  <2>2. PICK n, g : /\ n = [req[r] EXCEPT !.pc = p]
                    /\ g = [fwd[r] EXCEPT !.done = TRUE, !.senders = d,
                                          !.atEnd = Len(fwd[r].accepted)]
    BY ZenonT(60)
  <2>3. req' = [req EXCEPT ![r] = n] /\ fwd' = [fwd EXCEPT ![r] = g]
    BY ZenonT(60), <2>1, <2>2, <1>8 DEF StreamInv
  <2>4. n.pc = p /\ n.answer = req[r].answer
    BY ZenonT(60), <1>1, <2>2 DEF Request
  <2>5. Len(fwd[r].accepted) \in Nat
    BY SMTT(60), <1>2, <1>8 DEF Forwarder
  <2>6. /\ g \in Forwarder /\ g.pc = fwd[r].pc /\ g.done = TRUE
        /\ g.ready = fwd[r].ready /\ g.sent = fwd[r].sent /\ g.out = fwd[r].out
        /\ g.err = fwd[r].err /\ g.chan = fwd[r].chan /\ g.accepted = fwd[r].accepted
        /\ g.atEnd = Len(fwd[r].accepted)
    BY ZenonT(60), <1>2, <1>8, <2>2, <2>5 DEF Forwarder
  <2>7. Coupled(n, g) /\ g.pc = "run"
    BY ZenonT(60), <1>2, <1>8, <2>0, <2>1, <2>4, <2>6 DEF Coupled
  <2>8. g.atEnd =< Len(g.accepted)
    BY SMTT(60), <2>5, <2>6
  <2> QED BY ZenonT(60), <1>1, <1>8, <2>3, <2>6, <2>7, <2>8, StreamStarts
<1>9. ASSUME r \in Calls, ToolPanics(r) PROVE StreamInv'
  <2>1. PICK n : n = [req[r] EXCEPT !.pc = "failed"]
    BY ZenonT(60)
  <2>2. req' = [req EXCEPT ![r] = n] /\ fwd' = fwd /\ req[r].pc = "running"
    BY ZenonT(60), <1>9, <2>1 DEF ToolPanics
  <2>3. n.pc = "failed" /\ n.answer = req[r].answer
    BY ZenonT(60), <1>1, <2>1 DEF Request
  <2>4. Coupled(n, fwd[r])
    BY ZenonT(60), <1>2, <1>9, <2>2, <2>3 DEF Coupled
  <2> QED BY ZenonT(60), <1>1, <2>2, <2>4, StreamAside
<1>10. ASSUME r \in Calls, AnswerCall(r) PROVE StreamInv'
  <2>1. CASE req' = [req EXCEPT ![r] = Answered(r, "error", @)]
    BY ZenonT(60), <1>5, <1>10, <2>1 DEF AnswerCall
  <2>2. CASE /\ req[r].pc = "returned" /\ fwd[r].pc = "end"
             /\ req' = [req EXCEPT ![r] = Answered(r, "ok", @)]
    <3>1. PICK n : n = Answered(r, "ok", req[r])
      BY ZenonT(60)
    <3>2. n.pc = "answered" /\ n.answer = "ok"
      BY ZenonT(60), <1>1, <3>1 DEF Answered, Request
    <3>3. req' = [req EXCEPT ![r] = n] /\ fwd' = fwd
      BY ZenonT(60), <1>10, <2>2, <3>1 DEF AnswerCall
    <3>4. Coupled(n, fwd[r])
      BY ZenonT(60), <1>2, <1>10, <2>2, <3>2 DEF Coupled
    <3> QED BY ZenonT(60), <1>1, <3>3, <3>4, StreamAside
  <2> QED BY ZenonT(60), <1>10, <2>1, <2>2 DEF AnswerCall
<1> QED BY ZenonT(60), <1>3, <1>4, <1>6, <1>7, <1>8, <1>9, <1>10 DEF Serve

\* No step of the server breaks a stream.
LEMMA StreamStep ==
    ASSUME Absent \notin {"ok", "error"}, McpInv, StreamInv, [ServerNext]_serverVars
    PROVE  StreamInv'
<1>1. ASSUME UNCHANGED <<req, fwd>> PROVE StreamInv'
  BY ZenonT(60), <1>1 DEF StreamInv
<1>2. CASE UNCHANGED serverVars
  BY ZenonT(60), <1>1, <1>2 DEF serverVars
<1>3. CASE SeedStamp \/ Poll \/ Swap \/ Edit \/ Idle
  BY ZenonT(60), <1>1, <1>2, <1>3 DEF SeedStamp, Poll, Swap, Edit, Idle
<1> QED BY ZenonT(60), <1>2, <1>3, ServeStep, ForwardStep DEF ServerNext,
           Watcher

\* Before anything is written every stream is empty.
LEMMA StreamInit ==
    ASSUME Absent \notin {"ok", "error"}, ServerInit PROVE StreamInv
<1>1. PICK e : e = [pc |-> "off", chan |-> <<>>, out |-> <<>>, err |-> <<>>, ready |-> <<>>,
                    sent |-> <<>>, done |-> FALSE, senders |-> 0, accepted |-> <<>>,
                    dropped |-> 0, atEnd |-> 0]
  BY ZenonT(60)
<1>2. e \in Forwarder
  BY SMTT(60), <1>1 DEF Forwarder
<1>3. <<>> \in Seq(Chunk) /\ Flat(<<>>) = <<>>
  <2>1. <<>> \in Seq(Chunk)
    BY SMTT(60)
  <2> QED BY <2>1, FlatOne, ZenonT(60)
<1>4. <<>> \o <<>> = <<>>
  BY ZenonT(60), <1>3, ConcatEmpty
<1>5. Streamed(e)
  BY SMTT(60), <1>1, <1>2, <1>3, <1>4 DEF Streamed, Whole
<1>6. fwd = [r \in Calls |-> e]
  BY ZenonT(60), <1>1 DEF ServerInit
<1>7. ASSUME NEW r \in Calls PROVE Coupled(req[r], e)
  <2>1. req[r].pc = "new" /\ req[r].answer = Absent
    BY ZenonT(60) DEF ServerInit, Calls
  <2> QED BY ZenonT(60), <1>1, <2>1 DEF Coupled
<1> QED BY ZenonT(60), <1>2, <1>5, <1>6, <1>7 DEF StreamInv

\* A stream that is whole is intact, and so is what an answered call sent.
LEMMA WholeIsIntact ==
    ASSUME StreamInv PROVE CallStreamIntact
<1>1. ASSUME NEW r \in Calls, NEW f, f = fwd[r]
      PROVE  /\ Flat(f.sent) \o Flat(f.ready) \o f.out \o f.err \o f.chan = f.accepted
             /\ req[r].answer = "ok" =>
                  /\ f.atEnd =< Len(Flat(f.sent))
                  /\ SubSeq(Flat(f.sent), 1, f.atEnd) = SubSeq(f.accepted, 1, f.atEnd)
  <2>0. Streamed(f) /\ Coupled(req[r], f)
    BY ZenonT(60), <1>1 DEF StreamInv
  <2>1. PICK F, R, o, e, c : /\ F = Flat(f.sent) /\ R = Flat(f.ready)
                             /\ o = f.out /\ e = f.err /\ c = f.chan
    BY ZenonT(60)
  <2>2. /\ F \in Seq(Chunk) /\ R \in Seq(Chunk) /\ o \in Seq(Chunk) /\ e \in Seq(Chunk)
        /\ c \in Seq(Chunk) /\ f.accepted \in Seq(Chunk) /\ f.atEnd \in Nat
        /\ Flat(<<>>) = <<>>
    BY ZenonT(60), <2>0, <2>1, StreamFields
  <2>3. /\ o \o e \in Seq(Chunk) /\ R \o (o \o e) \in Seq(Chunk) /\ F \o R \in Seq(Chunk)
        /\ (R \o (o \o e)) \o c \in Seq(Chunk)
    BY ZenonT(60), <2>2, ConcatIs
  <2>4. (F \o R) \o (o \o e) = F \o (R \o (o \o e))
    <3>1. PICK w \in Seq(Chunk) : w = o \o e
      BY ZenonT(60), <2>3
    <3>2. w \in Seq(Chunk) /\ F \in Seq(Chunk) /\ R \in Seq(Chunk)
      BY ZenonT(60), <2>2, <3>1
    <3>3. (F \o R) \o w = F \o (R \o w)
      BY SMTT(60), <3>2, ConcatGroups
    <3> QED BY <3>1, <3>3, ZenonT(60)
  <2>5. ((F \o R) \o o) \o e = (F \o R) \o (o \o e)
    <3>1. PICK w \in Seq(Chunk) : w = F \o R
      BY ZenonT(60), <2>3
    <3>2. w \in Seq(Chunk) /\ o \in Seq(Chunk) /\ e \in Seq(Chunk)
      BY Zenon, <2>2, <3>1
    <3>3. (w \o o) \o e = w \o (o \o e)
      BY SMTT(60), <3>2, ConcatGroups
    <3> QED BY <3>1, <3>3, ZenonT(60)
  <2>6. (F \o (R \o (o \o e))) \o c = f.accepted
    BY ZenonT(60), <2>0, <2>1 DEF Streamed, Whole
  <2>7. (((F \o R) \o o) \o e) \o c = f.accepted
    BY Zenon, <2>4, <2>5, <2>6
  <2>8. ASSUME req[r].answer = "ok"
        PROVE  f.atEnd =< Len(F) /\ SubSeq(F, 1, f.atEnd) = SubSeq(f.accepted, 1, f.atEnd)
    <3>1. f.done /\ f.pc = "end"
      BY ZenonT(60), <2>0, <2>8 DEF Coupled
    <3>2. R = <<>>
      BY ZenonT(60), <2>0, <2>1, <2>2, <3>1 DEF Streamed
    <3>3. f.atEnd =< Len(F) /\ f.atEnd =< Len(f.accepted)
      BY SMTT(60), <2>0, <2>1, <2>2, <3>1, <3>2 DEF Streamed
    <3>4. PICK t : t = (R \o (o \o e)) \o c
      BY ZenonT(60)
    <3>5. f.accepted = F \o t /\ t \in Seq(Chunk)
      <4>1. PICK w \in Seq(Chunk) : w = R \o (o \o e)
        BY ZenonT(60), <2>3
      <4>2. w \in Seq(Chunk) /\ F \in Seq(Chunk) /\ c \in Seq(Chunk)
        BY ZenonT(60), <2>2, <4>1
      <4>3. (F \o w) \o c = F \o (w \o c)
        BY SMTT(60), <4>2, ConcatGroups
      <4> QED BY <2>3, <2>6, <3>4, <4>1, <4>3, ZenonT(60)
    <3>6. \A i \in 1..f.atEnd : f.accepted[i] = F[i]
      BY SMTT(60), <2>2, <3>3, <3>5, ConcatIs
    <3>7. PICK s, u : s = SubSeq(f.accepted, 1, f.atEnd) /\ u = SubSeq(F, 1, f.atEnd)
      BY ZenonT(60)
    <3>8. /\ s \in Seq(Chunk) /\ Len(s) = f.atEnd /\ \A i \in 1..f.atEnd : s[i] = f.accepted[i]
          /\ u \in Seq(Chunk) /\ Len(u) = f.atEnd /\ \A i \in 1..f.atEnd : u[i] = F[i]
      <4>1. f.atEnd \in 0..Len(F) /\ f.atEnd \in 0..Len(f.accepted)
        BY SMTT(60), <2>2, <3>3
      <4> QED BY ZenonT(60), <2>2, <3>7, <4>1, PrefixIs
    <3>9. s = u
      BY ZenonT(60), <3>6, <3>8, SeqEqual
    <3> QED BY ZenonT(60), <3>3, <3>7, <3>9
  <2> QED BY ZenonT(60), <2>1, <2>7, <2>8
<1> QED BY ZenonT(60), <1>1 DEF CallStreamIntact, NothingLostOrReordered,
           StreamPrecedesResult

\* "queued chunks still drain first so nothing that arrived is lost" and
\* "every streamed byte precedes the final result": for any number of calls,
\* whatever the capacity of the channel and of the stages and however the
\* writers, the forwarder and the reactor interleave, what a client has been
\* sent, followed by what is on its way, is what the channel accepted, in
\* order, and a value is answered after all that was written during the call.
THEOREM StreamsArriveWhole ==
    ASSUME IsFiniteSet(Requests), Absent \notin {"ok", "error"}
    PROVE  ServerSpec => []CallStreamIntact
<1>1. ServerInit => StreamInv
  BY ZenonT(60), StreamInit
<1>2. McpInv /\ StreamInv /\ [ServerNext]_serverVars => StreamInv'
  BY ZenonT(60), StreamStep
<1>3. StreamInv => CallStreamIntact
  BY Zenon, WholeIsIntact
<1> QED BY <1>1, <1>2, <1>3, McpInductive, PTL DEF ServerSpec
=============================================================================

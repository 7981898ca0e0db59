---------------------------- MODULE InterpProofs -----------------------------
(***************************************************************************)
(* Proofs about Interp, for every set of scripts: the counters and stacks  *)
(* that the handlers push and pop by hand are those of the active frames,  *)
(* no file is initialised twice, and the store of an initialised module is *)
(* changed by its own code only.                                           *)
(*                                                                         *)
(* The argument is about a stack of frames c and an interpreter state s    *)
(* (Inv): a lemma for each way a frame comes or goes says that Inv stays,  *)
(* and every action is one or more of these.                               *)
(***************************************************************************)
EXTENDS Interp, FiniteSetTheorems, TLAPS

-----------------------------------------------------------------------------
(* Stacks: sequences over some set, and the frames of a kind on one *)

IsSeq(s) == \E S : s \in Seq(S)

Kinds(c, K) == {i \in 1..Len(c) : c[i].f \in K}
Number(c, K) == Cardinality(Kinds(c, K))
Weight(fr, K) == IF fr.f \in K THEN 1 ELSE 0

\* Appending to a stack and taking its last element off.
LEMMA StackAppend ==
    ASSUME NEW s, IsSeq(s), NEW x
    PROVE  /\ IsSeq(Append(s, x)) /\ Len(Append(s, x)) = Len(s) + 1 /\ Len(s) \in Nat
           /\ \A i \in 1..Len(s) : Append(s, x)[i] = s[i]
           /\ Append(s, x)[Len(s) + 1] = x
<1>1. PICK S : s \in Seq(S)
  BY Zenon DEF IsSeq
<1>2. s \in Seq(S \cup {x}) /\ x \in S \cup {x}
  BY <1>1
<1>3. Append(s, x) \in Seq(S \cup {x})
  BY <1>2
<1> QED BY SMTT(60), <1>2, <1>3 DEF IsSeq

\* Sequences are equal when they have the same elements.
LEMMA SeqEqual ==
    ASSUME NEW S, NEW s \in Seq(S), NEW t \in Seq(S), Len(s) = Len(t),
           \A i \in 1..Len(s) : s[i] = t[i]
    PROVE  s = t
  OBVIOUS

\* All but the last of a non-empty sequence is a sequence one shorter, with the
\* same elements.
LEMMA StackFront ==
    ASSUME NEW s, IsSeq(s), Len(s) # 0
    PROVE  /\ IsSeq(Front(s)) /\ Len(Front(s)) = Len(s) - 1 /\ Len(s) \in Nat \ {0}
           /\ \A i \in 1..(Len(s) - 1) : Front(s)[i] = s[i]
           /\ Last(s) = s[Len(s)]
<1>1. PICK S : s \in Seq(S)
  BY ZenonT(60) DEF IsSeq
<1>2. Len(s) \in Nat \ {0}
  BY <1>1
<1>3. Front(s) \in Seq(S) /\ Len(Front(s)) = Len(s) - 1
      /\ \A i \in 1..(Len(s) - 1) : Front(s)[i] = s[i]
  <2>1. \A i \in 1..(Len(s) - 1) : s[i] \in S
    BY SMTT(60), <1>1, <1>2
  <2>2. PICK n \in Nat : n = Len(s) - 1
    BY <1>2
  <2>3. /\ SubSeq(s, 1, n) \in Seq(S)
        /\ Len(SubSeq(s, 1, n)) = IF 1 <= n THEN n - 1 + 1 ELSE 0
        /\ \A i \in 1..(n - 1 + 1) : SubSeq(s, 1, n)[i] = s[1 + i - 1]
    BY SMTT(60), <1>1, <2>1, <2>2
  <2>4. Front(s) = SubSeq(s, 1, n)
    BY ZenonT(60), <2>2 DEF Front
  <2> QED BY SMTT(60), <2>2, <2>3, <2>4
<1> QED BY ZenonT(60), <1>2, <1>3 DEF IsSeq, Last

\* The number of frames of some kinds on a stack follows its top.
LEMMA NumberType ==
    ASSUME NEW c, IsSeq(c), NEW K
    PROVE  /\ Number(c, K) \in Nat /\ IsFiniteSet(Kinds(c, K))
           /\ Number(c, K) = 0 <=> Kinds(c, K) = {}
<1>1. Len(c) \in Nat
  BY DEF IsSeq
<1>2. IsFiniteSet(1..Len(c))
  BY SMTT(60), <1>1, FS_Interval
<1>3. IsFiniteSet(Kinds(c, K))
  BY ZenonT(60), <1>2, FS_Subset DEF Kinds
<1> QED BY ZenonT(60), <1>3, FS_CardinalityType, FS_EmptySet DEF Number

\* A push adds the weight of the frame pushed to each count of frames.
LEMMA NumberAppend ==
    ASSUME NEW c, IsSeq(c), NEW x, NEW K
    PROVE  Number(Append(c, x), K) = Number(c, K) + Weight(x, K)
<1>1. /\ Len(Append(c, x)) = Len(c) + 1 /\ Len(c) \in Nat
      /\ \A i \in 1..Len(c) : Append(c, x)[i] = c[i]
      /\ Append(c, x)[Len(c) + 1] = x
  BY StackAppend
<1>2. IsFiniteSet(Kinds(c, K)) /\ Number(c, K) \in Nat
  BY Zenon, NumberType
<1>3. CASE x.f \in K
  <2>1. Kinds(Append(c, x), K) = Kinds(c, K) \cup {Len(c) + 1} /\ Len(c) + 1 \notin Kinds(c, K)
    BY SMTT(60), <1>1, <1>3 DEF Kinds
  <2> QED BY ZenonT(60), <1>2, <1>3, <2>1, FS_AddElement DEF Number, Weight
<1>4. CASE x.f \notin K
  <2>1. Kinds(Append(c, x), K) = Kinds(c, K)
    BY SMTT(60), <1>1, <1>4 DEF Kinds
  <2> QED BY SMTT(60), <1>2, <1>4, <2>1 DEF Number, Weight
<1> QED BY ZenonT(60), <1>3, <1>4

\* A pop takes the weight of the frame popped from each count of frames.
LEMMA NumberFront ==
    ASSUME NEW c, IsSeq(c), Len(c) # 0, NEW K
    PROVE  Number(c, K) = Number(Front(c), K) + Weight(Last(c), K)
<1>1. /\ IsSeq(Front(c)) /\ Len(Front(c)) = Len(c) - 1 /\ Len(c) \in Nat \ {0}
      /\ \A i \in 1..(Len(c) - 1) : Front(c)[i] = c[i]
      /\ Last(c) = c[Len(c)]
  BY Zenon, StackFront
<1>2. IsFiniteSet(Kinds(Front(c), K)) /\ Number(Front(c), K) \in Nat
  BY Zenon, <1>1, NumberType
<1>3. CASE Last(c).f \in K
  <2>1. Kinds(c, K) = Kinds(Front(c), K) \cup {Len(c)} /\ Len(c) \notin Kinds(Front(c), K)
    BY SMTT(60), <1>1, <1>3 DEF Kinds
  <2> QED BY ZenonT(60), <1>2, <1>3, <2>1, FS_AddElement DEF Number, Weight
<1>4. CASE Last(c).f \notin K
  <2>1. Kinds(c, K) = Kinds(Front(c), K)
    BY SMTT(60), <1>1, <1>4 DEF Kinds
  <2> QED BY SMTT(60), <1>2, <1>4, <2>1 DEF Number, Weight
<1> QED BY Zenon, <1>3, <1>4


-----------------------------------------------------------------------------
(* The invariant: what the code counts by hand is what is on the stack *)

Framed(c) ==
    /\ IsSeq(c)
    /\ \A i \in 1..Len(c) : "f" \in DOMAIN c[i]

\* `depth', `module_stack', the import chain and the ISOLATED snapshots
\* against the active frames.
Matched(c, s) ==
    /\ {"depth", "mstack", "istack", "isolated", "modules"} \subseteq DOMAIN s
    /\ IsSeq(s.mstack) /\ IsSeq(s.istack) /\ IsSeq(s.isolated)
    /\ s.depth = Number(c, {"call"}) /\ s.depth =< MaxCallDepth
    /\ Len(s.mstack) = Number(c, {"call", "import"})
    /\ Len(s.istack) = Number(c, {"import", "harvest"})
    /\ Len(s.istack) =< MaxImportDepth
    /\ Len(s.isolated) = Number(c, {"isolated"})

\* Where the n-th file being loaded is on the stack.
Rank(c, i) == Cardinality({j \in 1..i : c[j].f \in {"import", "harvest"}})

\* The file of each loading frame is the one of its rank in the import chain,
\* no file is there twice, and none that runs its body is initialised.
Loading(c, s) ==
    /\ \A i, j \in 1..Len(s.istack) : s.istack[i] = s.istack[j] => i = j
    /\ \A i \in 1..Len(c) : c[i].f \in {"import", "harvest"} =>
          /\ "file" \in DOMAIN c[i]
          /\ Rank(c, i) \in 1..Len(s.istack)
          /\ c[i].file = s.istack[Rank(c, i)]
    /\ \A i \in 1..Len(c) : c[i].f = "import" => c[i].file \notin DOMAIN s.modules

\* An initialised module has a store, a value and an environment.
Stores(s) ==
    \A m \in DOMAIN s.modules : {"vars", "ret", "envs"} \subseteq DOMAIN s.modules[m]

\* The fields that the invariant reads are the same in s and t.
Keeps(s, t) ==
    /\ {"depth", "mstack", "istack", "isolated", "modules"} \subseteq DOMAIN t
    /\ t.depth = s.depth /\ t.mstack = s.mstack /\ t.istack = s.istack
    /\ t.isolated = s.isolated /\ t.modules = s.modules

\* Kinds of frames that nothing is counted for.
Plain == {"steps", "cmd", "scoped", "timeout", "remote", "for", "while", "block", "capture"}

\* The rank of a frame depends on the stack below it, and the rank of a
\* loading frame on top of the stack is the number of loading frames.
LEMMA RankBelow ==
    ASSUME NEW c, NEW d, NEW i \in Nat, \A j \in 1..i : d[j].f = c[j].f
    PROVE  Rank(d, i) = Rank(c, i)
<1>1. {j \in 1..i : d[j].f \in {"import", "harvest"}} = {j \in 1..i : c[j].f \in {"import", "harvest"}}
  BY Zenon
<1> QED BY ZenonT(60), <1>1 DEF Rank

\* The rank of the topmost frame is the number of loading frames.
LEMMA RankTop ==
    ASSUME NEW c, NEW i \in Nat, i = Len(c)
    PROVE  Rank(c, i) = Number(c, {"import", "harvest"})
BY Zenon DEF Rank, Number, Kinds

\* Below a loading frame on top, ranks are smaller.
LEMMA RankSmaller ==
    ASSUME NEW c, IsSeq(c), Len(c) # 0, NEW i \in 1..(Len(c) - 1),
           Last(c).f \in {"import", "harvest"}
    PROVE  Rank(c, i) < Number(c, {"import", "harvest"})
<1>1. Len(c) \in Nat \ {0} /\ Last(c) = c[Len(c)]
  BY Zenon, StackFront
<1> DEFINE A == {j \in 1..i : c[j].f \in {"import", "harvest"}}
           B == Kinds(c, {"import", "harvest"})
<1>2. A \subseteq B /\ Len(c) \in B /\ Len(c) \notin A
  BY SMTT(60), <1>1 DEF Kinds
<1>3. IsFiniteSet(B)
  BY Zenon, NumberType
<1>4. Cardinality(A) =< Cardinality(B) /\ (Cardinality(B) = Cardinality(A) => B = A) /\ IsFiniteSet(A)
  BY Zenon, <1>2, <1>3, FS_Subset
<1>5. Cardinality(A) \in Nat /\ Cardinality(B) \in Nat
  BY Zenon, <1>3, <1>4, FS_CardinalityType
<1>6. A # B
  BY ZenonT(60), <1>2
<1>7. Rank(c, i) = Cardinality(A) /\ Number(c, {"import", "harvest"}) = Cardinality(B)
  BY Zenon DEF Rank, Number
<1> HIDE DEF A, B
<1> QED BY SMTT(60), <1>4, <1>5, <1>6, <1>7

\* The top frame goes.
LEMMA FramedFront ==
    ASSUME NEW c, Framed(c), Len(c) # 0
    PROVE  Framed(Front(c)) /\ "f" \in DOMAIN Last(c)
BY SMTT(60), StackFront DEF Framed

\* A frame is pushed.
LEMMA FramedAppend ==
    ASSUME NEW c, Framed(c), NEW x, "f" \in DOMAIN x
    PROVE  Framed(Append(c, x))
BY StackAppend DEF Framed


-----------------------------------------------------------------------------
(* How the invariant of a stack c and a state s follows pushes and pops *)

Inv(c, s) == Framed(c) /\ Matched(c, s) /\ Loading(c, s) /\ Stores(s)
EngineInv == Inv(control, st)

\* A step that keeps the depths, the import stack and the module stores keeps the
\* invariant.
LEMMA InvKeeps ==
    ASSUME NEW c, NEW s, NEW t, Inv(c, s), Keeps(s, t) PROVE Inv(c, t)
BY ZenonT(60) DEF Inv, Keeps, Matched, Loading, Stores

\* The weights of a frame, by its kind.
LEMMA Weights ==
    ASSUME NEW x
    PROVE  /\ x.f \in Plain => /\ Weight(x, {"call"}) = 0 /\ Weight(x, {"call", "import"}) = 0
                               /\ Weight(x, {"import", "harvest"}) = 0
                               /\ Weight(x, {"isolated"}) = 0
           /\ x.f = "call" => /\ Weight(x, {"call"}) = 1 /\ Weight(x, {"call", "import"}) = 1
                              /\ Weight(x, {"import", "harvest"}) = 0
                              /\ Weight(x, {"isolated"}) = 0
           /\ x.f = "import" => /\ Weight(x, {"call"}) = 0 /\ Weight(x, {"call", "import"}) = 1
                                /\ Weight(x, {"import", "harvest"}) = 1
                                /\ Weight(x, {"isolated"}) = 0
           /\ x.f = "harvest" => /\ Weight(x, {"call"}) = 0 /\ Weight(x, {"call", "import"}) = 0
                                 /\ Weight(x, {"import", "harvest"}) = 1
                                 /\ Weight(x, {"isolated"}) = 0
           /\ x.f = "isolated" => /\ Weight(x, {"call"}) = 0
                                  /\ Weight(x, {"call", "import"}) = 0
                                  /\ Weight(x, {"import", "harvest"}) = 0
                                  /\ Weight(x, {"isolated"}) = 1
BY Zenon DEF Weight, Plain

\* Loading frames below the top keep their ranks when the top goes.
LEMMA LoadingFront ==
    ASSUME NEW c, NEW s, Framed(c), Loading(c, s), Len(c) # 0, NEW t,
           NEW n \in Nat, IsSeq(s.istack), n =< Len(s.istack), IsSeq(t.istack),
           Len(t.istack) = n, \A i \in 1..n : t.istack[i] = s.istack[i],
           \A i \in 1..(Len(c) - 1) : c[i].f \in {"import", "harvest"} => Rank(c, i) =< n,
           \A i \in 1..(Len(c) - 1) : c[i].f = "import" => c[i].file \notin DOMAIN t.modules
    PROVE  Loading(Front(c), t)
<1>1. /\ Len(Front(c)) = Len(c) - 1 /\ Len(c) \in Nat \ {0}
      /\ \A i \in 1..(Len(c) - 1) : Front(c)[i] = c[i]
  BY ZenonT(60), StackFront DEF Framed
<1>2. Len(s.istack) \in Nat
  BY SMTT(60) DEF IsSeq
<1>3. \A i, j \in 1..Len(t.istack) : t.istack[i] = t.istack[j] => i = j
  BY SMTT(60), <1>2 DEF Loading
<1>4. ASSUME NEW i \in 1..(Len(c) - 1), c[i].f \in {"import", "harvest"}
      PROVE  /\ "file" \in DOMAIN Front(c)[i]
             /\ Rank(Front(c), i) \in 1..Len(t.istack)
             /\ Front(c)[i].file = t.istack[Rank(Front(c), i)]
  <2>1. Rank(Front(c), i) = Rank(c, i)
    <3>1. \A j \in 1..i : Front(c)[j].f = c[j].f
      BY SMTT(60), <1>1
    <3>2. i \in Nat
      BY SMTT(60)
    <3> QED BY Zenon, <3>1, <3>2, RankBelow
  <2>2. i \in 1..Len(c) /\ Front(c)[i] = c[i]
    BY SMTT(60), <1>1
  <2>3. Rank(c, i) \in 1..Len(s.istack) /\ c[i].file = s.istack[Rank(c, i)] /\ "file" \in DOMAIN c[i]
    BY Zenon, <1>4, <2>2 DEF Loading
  <2>4. Rank(c, i) \in 1..n
    BY SMTT(60), <1>2, <1>4, <2>3
  <2> QED BY Zenon, <2>1, <2>2, <2>3, <2>4
<1> QED BY ZenonT(60), <1>1, <1>3, <1>4 DEF Loading

\* Loading frames keep their ranks when a frame is pushed on them.
LEMMA LoadingAppend ==
    ASSUME NEW c, NEW s, Framed(c), Loading(c, s), NEW t, NEW x, IsSeq(s.istack),
           IsSeq(t.istack), Len(s.istack) =< Len(t.istack),
           \A i \in 1..Len(s.istack) : t.istack[i] = s.istack[i],
           \A i, j \in 1..Len(t.istack) : t.istack[i] = t.istack[j] => i = j,
           t.modules = s.modules,
           x.f \in {"import", "harvest"} =>
               /\ "file" \in DOMAIN x /\ Len(t.istack) # 0
               /\ Number(Append(c, x), {"import", "harvest"}) = Len(t.istack)
               /\ x.file = t.istack[Len(t.istack)],
           x.f = "import" => x.file \notin DOMAIN s.modules
    PROVE  Loading(Append(c, x), t)
<1>1. /\ Len(Append(c, x)) = Len(c) + 1 /\ Len(c) \in Nat
      /\ \A i \in 1..Len(c) : Append(c, x)[i] = c[i]
      /\ Append(c, x)[Len(c) + 1] = x
  BY SMTT(60), StackAppend DEF Framed
<1>2. Len(s.istack) \in Nat /\ Len(t.istack) \in Nat
  BY SMTT(60) DEF IsSeq
<1>3. ASSUME NEW i \in 1..(Len(c) + 1), Append(c, x)[i].f \in {"import", "harvest"}
      PROVE  /\ "file" \in DOMAIN Append(c, x)[i]
             /\ Rank(Append(c, x), i) \in 1..Len(t.istack)
             /\ Append(c, x)[i].file = t.istack[Rank(Append(c, x), i)]
  <2>1. CASE i \in 1..Len(c)
    <3>1. Rank(Append(c, x), i) = Rank(c, i)
      <4>1. \A j \in 1..i : Append(c, x)[j].f = c[j].f
        BY <1>1, <2>1
      <4>2. i \in Nat
        BY SMTT(60)
      <4> QED BY ZenonT(60), <4>1, <4>2, RankBelow
    <3>2. Append(c, x)[i] = c[i]
      BY Zenon, <1>1, <2>1
    <3>3. Rank(c, i) \in 1..Len(s.istack) /\ c[i].file = s.istack[Rank(c, i)] /\ "file" \in DOMAIN c[i]
      BY Zenon, <1>3, <2>1, <3>2 DEF Loading
    <3> QED BY SMTT(60), <1>2, <3>1, <3>2, <3>3
  <2>2. CASE i = Len(c) + 1
    <3>1. Rank(Append(c, x), i) = Number(Append(c, x), {"import", "harvest"})
      <4>1. i \in Nat /\ i = Len(Append(c, x))
        BY SMTT(60), <1>1, <2>2
      <4> QED BY ZenonT(60), <4>1, RankTop
    <3> QED BY SMTT(60), <1>1, <1>2, <1>3, <2>2, <3>1
  <2> QED BY SMTT(60), <1>1, <2>1, <2>2
<1>4. ASSUME NEW i \in 1..(Len(c) + 1), Append(c, x)[i].f = "import"
      PROVE  Append(c, x)[i].file \notin DOMAIN t.modules
  <2>1. CASE i \in 1..Len(c)
    BY ZenonT(60), <1>1, <1>4, <2>1 DEF Loading
  <2>2. CASE i = Len(c) + 1
    BY Zenon, <1>1, <1>4, <2>2
  <2> QED BY SMTT(60), <1>1, <2>1, <2>2
<1> QED BY ZenonT(60), <1>1, <1>3, <1>4 DEF Loading


\* A frame that nothing is counted for goes, or is pushed.
LEMMA DropPlain ==
    ASSUME NEW c, NEW s, Inv(c, s), Len(c) # 0, Last(c).f \in Plain
    PROVE  Inv(Front(c), s)
<1>1. Framed(c) /\ Matched(c, s) /\ Loading(c, s) /\ Stores(s) /\ IsSeq(c)
  BY ZenonT(60) DEF Inv, Framed
<1>2. Framed(Front(c)) /\ IsSeq(Front(c)) /\ Len(c) \in Nat \ {0}
  BY ZenonT(60), <1>1, FramedFront, StackFront
<1>3. \A K : Number(c, K) = Number(Front(c), K) + Weight(Last(c), K) /\ Number(Front(c), K) \in Nat
  BY ZenonT(60), <1>1, <1>2, NumberFront, NumberType
<1>4. Matched(Front(c), s)
  BY SMTT(60), <1>1, <1>3, Weights DEF Matched
<1>5. IsSeq(s.istack) /\ Len(s.istack) \in Nat
  BY SMTT(60), <1>1 DEF Matched, IsSeq
<1>6. \A i \in 1..(Len(c) - 1) : i \in 1..Len(c)
  BY SMTT(60), <1>2
<1>7. /\ \A i \in 1..(Len(c) - 1) : c[i].f \in {"import", "harvest"} => Rank(c, i) =< Len(s.istack)
      /\ \A i \in 1..(Len(c) - 1) : c[i].f = "import" => c[i].file \notin DOMAIN s.modules
  BY SMTT(60), <1>1, <1>5, <1>6 DEF Loading
<1>8. Loading(Front(c), s)
  BY SMTT(60), <1>1, <1>5, <1>7, LoadingFront
<1> QED BY ZenonT(60), <1>1, <1>2, <1>4, <1>8 DEF Inv

\* Entering a body, a command or a loop counts nothing, so it keeps the invariant.
LEMMA PushPlain ==
    ASSUME NEW c, NEW s, Inv(c, s), NEW x, "f" \in DOMAIN x, x.f \in Plain
    PROVE  Inv(Append(c, x), s)
<1>1. Framed(c) /\ Matched(c, s) /\ Loading(c, s) /\ Stores(s) /\ IsSeq(c)
  BY Zenon DEF Inv, Framed
<1>2. Framed(Append(c, x))
  BY Zenon, <1>1, FramedAppend
<1>3. \A K : Number(Append(c, x), K) = Number(c, K) + Weight(x, K) /\ Number(c, K) \in Nat
  BY ZenonT(60), <1>1, NumberAppend, NumberType
<1>4. Matched(Append(c, x), s)
  BY SMTT(60), <1>1, <1>3, Weights DEF Matched
<1>5. IsSeq(s.istack) /\ Len(s.istack) \in Nat
  BY SMTT(60), <1>1 DEF Matched, IsSeq
<1>6. x.f \notin {"import", "harvest"}
  BY Zenon DEF Plain
<1>7. Loading(Append(c, x), s)
  BY SMTT(60), <1>1, <1>5, <1>6, LoadingAppend DEF Loading
<1> QED BY Zenon, <1>1, <1>2, <1>4, <1>7 DEF Inv

\* Frames change without changing kind or file: nothing counted changes.
LEMMA Repaint ==
    ASSUME NEW c, NEW s, Inv(c, s), NEW d, Framed(d), Len(d) = Len(c),
           \A i \in 1..Len(c) : d[i].f = c[i].f,
           \A i \in 1..Len(c) : c[i].f \in {"import", "harvest"} =>
               "file" \in DOMAIN d[i] /\ d[i].file = c[i].file
    PROVE  Inv(d, s)
<1>0. Len(c) \in Nat
  BY DEF Inv, Framed, IsSeq
<1>1. \A K : Kinds(d, K) = Kinds(c, K)
  BY Zenon DEF Kinds
<1>2. \A K : Number(d, K) = Number(c, K)
  BY ZenonT(60), <1>1 DEF Number
<1>3. Matched(d, s)
  BY ZenonT(60), <1>2 DEF Matched, Inv
<1>4. \A i \in 1..Len(c) : Rank(d, i) = Rank(c, i)
  <2> SUFFICES ASSUME NEW i \in 1..Len(c) PROVE Rank(d, i) = Rank(c, i)
    BY ZenonT(60)
  <2>1. i \in Nat /\ \A j \in 1..i : d[j].f = c[j].f
    BY SMTT(60), <1>0
  <2> QED BY ZenonT(60), <2>1, RankBelow
<1>5. Loading(d, s)
  BY ZenonT(60), <1>4 DEF Loading, Inv
<1> QED BY Zenon, <1>3, <1>5 DEF Inv

\* The other fields are those of s.
LEMMA PushCall ==
    ASSUME NEW c, NEW s, Inv(c, s), NEW x, "f" \in DOMAIN x, x.f = "call", NEW t, NEW o,
           {"depth", "mstack", "istack", "isolated", "modules"} \subseteq DOMAIN t,
           s.depth < MaxCallDepth, t.depth = s.depth + 1, t.mstack = Append(s.mstack, o),
           t.istack = s.istack, t.isolated = s.isolated, t.modules = s.modules
    PROVE  Inv(Append(c, x), t)
<1>1. Framed(c) /\ Matched(c, s) /\ Loading(c, s) /\ Stores(s) /\ IsSeq(c)
  BY ZenonT(60) DEF Inv, Framed
<1>2. Framed(Append(c, x))
  BY ZenonT(60), <1>1, FramedAppend
<1>3. \A K : Number(Append(c, x), K) = Number(c, K) + Weight(x, K) /\ Number(c, K) \in Nat
  BY ZenonT(60), <1>1, NumberAppend, NumberType
<1>4. IsSeq(t.mstack) /\ Len(t.mstack) = Len(s.mstack) + 1
  BY SMTT(60), <1>1, StackAppend DEF Matched
<1>5. Matched(Append(c, x), t)
  BY SMTT(60), <1>1, <1>3, <1>4, Weights, DepthAssumption DEF Matched
<1>6. IsSeq(s.istack) /\ Len(s.istack) \in Nat
  BY SMTT(60), <1>1 DEF Matched, IsSeq
<1>9. /\ x.f \notin {"import", "harvest"}
      /\ \A i, j \in 1..Len(t.istack) : t.istack[i] = t.istack[j] => i = j
  BY ZenonT(60), <1>1 DEF Loading
<1>7. Loading(Append(c, x), t)
  BY SMTT(60), <1>1, <1>6, <1>9, LoadingAppend
<1>8. Stores(t)
  BY Zenon, <1>1 DEF Stores
<1> QED BY ZenonT(60), <1>2, <1>5, <1>7, <1>8 DEF Inv

\* Leaving a function undoes the depth and the module entered with it.
LEMMA DropCall ==
    ASSUME NEW c, NEW s, Inv(c, s), Len(c) # 0, Last(c).f = "call", NEW t,
           {"depth", "mstack", "istack", "isolated", "modules"} \subseteq DOMAIN t,
           t.depth = s.depth - 1, t.mstack = Front(s.mstack),
           t.istack = s.istack, t.isolated = s.isolated, t.modules = s.modules
    PROVE  Inv(Front(c), t)
<1>1. Framed(c) /\ Matched(c, s) /\ Loading(c, s) /\ Stores(s) /\ IsSeq(c)
  BY Zenon DEF Inv, Framed
<1>2. Framed(Front(c)) /\ IsSeq(Front(c)) /\ Len(c) \in Nat \ {0}
  BY Zenon, <1>1, FramedFront, StackFront
<1>3. \A K : Number(c, K) = Number(Front(c), K) + Weight(Last(c), K) /\ Number(Front(c), K) \in Nat
  BY Zenon, <1>1, <1>2, NumberFront, NumberType
<1>4. Len(s.mstack) # 0
  BY SMTT(60), <1>1, <1>3, Weights DEF Matched
<1>5. IsSeq(t.mstack) /\ Len(t.mstack) = Len(s.mstack) - 1
  BY ZenonT(60), <1>1, <1>4, StackFront DEF Matched
<1>6. Matched(Front(c), t)
  BY SMTT(60), <1>1, <1>3, <1>5, Weights, DepthAssumption DEF Matched
<1>7. IsSeq(s.istack) /\ Len(s.istack) \in Nat
  BY SMTT(60), <1>1 DEF Matched, IsSeq
<1>8. \A i \in 1..(Len(c) - 1) : i \in 1..Len(c)
  BY SMTT(60), <1>2
<1>9. /\ \A i \in 1..(Len(c) - 1) : c[i].f \in {"import", "harvest"} => Rank(c, i) =< Len(s.istack)
      /\ \A i \in 1..(Len(c) - 1) : c[i].f = "import" => c[i].file \notin DOMAIN t.modules
  BY SMTT(60), <1>1, <1>7, <1>8 DEF Loading
<1>10. Loading(Front(c), t)
  BY SMTT(60), <1>1, <1>7, <1>9, LoadingFront
<1>11. Stores(t)
  BY Zenon, <1>1 DEF Stores
<1> QED BY Zenon, <1>2, <1>6, <1>10, <1>11 DEF Inv


\* Entering ISOLATED saves one lexical state with its frame.
LEMMA PushIsolated ==
    ASSUME NEW c, NEW s, Inv(c, s), NEW x, "f" \in DOMAIN x, x.f = "isolated", NEW t, NEW o,
           {"depth", "mstack", "istack", "isolated", "modules"} \subseteq DOMAIN t,
           t.isolated = Append(s.isolated, o), t.depth = s.depth,
           t.istack = s.istack, t.mstack = s.mstack, t.modules = s.modules
    PROVE  Inv(Append(c, x), t)
<1>1. Framed(c) /\ Matched(c, s) /\ Loading(c, s) /\ Stores(s) /\ IsSeq(c)
  BY Zenon DEF Inv, Framed
<1>2. Framed(Append(c, x))
  BY ZenonT(60), <1>1, FramedAppend
<1>3. \A K : Number(Append(c, x), K) = Number(c, K) + Weight(x, K) /\ Number(c, K) \in Nat
  BY ZenonT(60), <1>1, NumberAppend, NumberType
<1>4. IsSeq(t.isolated) /\ Len(t.isolated) = Len(s.isolated) + 1
  BY SMTT(60), <1>1, StackAppend DEF Matched
<1>5. Matched(Append(c, x), t)
  BY SMTT(60), <1>1, <1>3, <1>4, Weights DEF Matched
<1>6. IsSeq(s.istack) /\ Len(s.istack) \in Nat /\ x.f \notin {"import", "harvest"}
  BY SMTT(60), <1>1 DEF Matched, IsSeq
<1>7. \A i, j \in 1..Len(t.istack) : t.istack[i] = t.istack[j] => i = j
  BY ZenonT(60), <1>1 DEF Loading
<1>8. Loading(Append(c, x), t)
  BY SMTT(60), <1>1, <1>6, <1>7, LoadingAppend
<1>9. Stores(t)
  BY Zenon, <1>1 DEF Stores
<1> QED BY Zenon, <1>2, <1>5, <1>8, <1>9 DEF Inv

\* Leaving ISOLATED takes back the lexical state saved last.
LEMMA DropIsolated ==
    ASSUME NEW c, NEW s, Inv(c, s), Len(c) # 0, Last(c).f = "isolated", NEW t,
           {"depth", "mstack", "istack", "isolated", "modules"} \subseteq DOMAIN t,
           t.isolated = Front(s.isolated), t.depth = s.depth,
           t.istack = s.istack, t.mstack = s.mstack, t.modules = s.modules
    PROVE  Inv(Front(c), t)
<1>1. Framed(c) /\ Matched(c, s) /\ Loading(c, s) /\ Stores(s) /\ IsSeq(c)
  BY Zenon DEF Inv, Framed
<1>2. Framed(Front(c)) /\ IsSeq(Front(c)) /\ Len(c) \in Nat \ {0}
  BY Zenon, <1>1, FramedFront, StackFront
<1>3. \A K : Number(c, K) = Number(Front(c), K) + Weight(Last(c), K) /\ Number(Front(c), K) \in Nat
  BY Zenon, <1>1, <1>2, NumberFront, NumberType
<1>4. Len(s.isolated) # 0
  BY SMTT(60), <1>1, <1>3, Weights DEF Matched
<1>5. IsSeq(t.isolated) /\ Len(t.isolated) = Len(s.isolated) - 1
  BY ZenonT(60), <1>1, <1>4, StackFront DEF Matched
<1>6. Matched(Front(c), t)
  BY SMTT(60), <1>1, <1>3, <1>5, Weights DEF Matched
<1>7. IsSeq(s.istack) /\ Len(s.istack) \in Nat
  BY SMTT(60), <1>1 DEF Matched, IsSeq
<1>8. \A i \in 1..(Len(c) - 1) : i \in 1..Len(c)
  BY SMTT(60), <1>2
<1>9. /\ \A i \in 1..(Len(c) - 1) : c[i].f \in {"import", "harvest"} => Rank(c, i) =< Len(s.istack)
      /\ \A i \in 1..(Len(c) - 1) : c[i].f = "import" => c[i].file \notin DOMAIN t.modules
  BY SMTT(60), <1>1, <1>7, <1>8 DEF Loading
<1>10. Loading(Front(c), t)
  BY SMTT(60), <1>1, <1>7, <1>9, LoadingFront
<1>11. Stores(t)
  BY Zenon, <1>1 DEF Stores
<1> QED BY Zenon, <1>2, <1>6, <1>10, <1>11 DEF Inv

\* A file that is not being loaded joins the import chain.
LEMMA ChainGrows ==
    ASSUME NEW s, IsSeq(s), NEW file, file \notin Range(s),
           \A i, j \in 1..Len(s) : s[i] = s[j] => i = j
    PROVE  \A i, j \in 1..Len(Append(s, file)) : Append(s, file)[i] = Append(s, file)[j] => i = j
<1>1. /\ Len(Append(s, file)) = Len(s) + 1 /\ Len(s) \in Nat
      /\ \A i \in 1..Len(s) : Append(s, file)[i] = s[i]
      /\ Append(s, file)[Len(s) + 1] = file
  BY SMTT(60), StackAppend
<1>2. DOMAIN s = 1..Len(s)
  BY SMTT(60) DEF IsSeq
<1>3. \A i \in 1..Len(s) : s[i] # file
  BY Zenon, <1>2 DEF Range
<1> QED BY SMTT(60), <1>1, <1>3

\* A loading frame is pushed: an import enters its module, a harvest does not.
LEMMA PushLoad ==
    ASSUME NEW c, NEW s, Inv(c, s), NEW x, {"f", "file"} \subseteq DOMAIN x,
           x.f \in {"import", "harvest"}, NEW t,
           {"depth", "mstack", "istack", "isolated", "modules"} \subseteq DOMAIN t,
           x.file \notin Range(s.istack), Len(s.istack) < MaxImportDepth,
           x.f = "import" => x.file \notin DOMAIN s.modules,
           t.mstack = IF x.f = "import" THEN Append(s.mstack, x.file) ELSE s.mstack,
           t.istack = Append(s.istack, x.file), t.depth = s.depth,
           t.isolated = s.isolated, t.modules = s.modules
    PROVE  Inv(Append(c, x), t)
<1>1. Framed(c) /\ Matched(c, s) /\ Loading(c, s) /\ Stores(s) /\ IsSeq(c)
  BY Zenon DEF Inv, Framed
<1>2. Framed(Append(c, x))
  BY Zenon, <1>1, FramedAppend
<1>3. \A K : Number(Append(c, x), K) = Number(c, K) + Weight(x, K) /\ Number(c, K) \in Nat
  BY ZenonT(60), <1>1, NumberAppend, NumberType
<1>4. IsSeq(s.istack) /\ IsSeq(s.mstack)
  BY ZenonT(60), <1>1 DEF Matched
<1>5. /\ IsSeq(t.istack) /\ Len(t.istack) = Len(s.istack) + 1 /\ Len(s.istack) \in Nat
      /\ \A i \in 1..Len(s.istack) : t.istack[i] = s.istack[i]
      /\ t.istack[Len(t.istack)] = x.file
  BY SMTT(60), <1>4, StackAppend
<1>6. /\ IsSeq(t.mstack)
      /\ Len(t.mstack) = Len(s.mstack) + (IF x.f = "import" THEN 1 ELSE 0)
      /\ Len(s.mstack) \in Nat
  <2>1. Len(s.mstack) \in Nat
    BY SMTT(60), <1>4 DEF IsSeq
  <2>2. CASE x.f = "import"
    BY SMTT(60), <1>4, <2>1, <2>2, StackAppend
  <2>3. CASE x.f # "import"
    BY SMTT(60), <1>4, <2>1, <2>3
  <2> QED BY ZenonT(60), <2>2, <2>3
<1>7. Matched(Append(c, x), t)
  BY SMTT(60), <1>1, <1>3, <1>5, <1>6, Weights, DepthAssumption DEF Matched
<1>8. \A i, j \in 1..Len(t.istack) : t.istack[i] = t.istack[j] => i = j
  BY SMTT(60), <1>1, <1>4, ChainGrows DEF Loading
<1>9. Len(t.istack) # 0 /\ Number(Append(c, x), {"import", "harvest"}) = Len(t.istack)
  BY SMTT(60), <1>5, <1>7 DEF Matched
<1>12. Len(s.istack) =< Len(t.istack)
  BY SMTT(60), <1>5
<1>13. x.f \in {"import", "harvest"} =>
           /\ "file" \in DOMAIN x /\ Len(t.istack) # 0
           /\ Number(Append(c, x), {"import", "harvest"}) = Len(t.istack)
           /\ x.file = t.istack[Len(t.istack)]
  BY Zenon, <1>5, <1>9
<1>10. Loading(Append(c, x), t)
  BY ZenonT(60), <1>1, <1>4, <1>5, <1>8, <1>12, <1>13, LoadingAppend
<1>11. Stores(t)
  BY ZenonT(60), <1>1 DEF Stores
<1> QED BY Zenon, <1>2, <1>7, <1>10, <1>11 DEF Inv

\* A loading frame goes; the file of an import may now be initialised.
LEMMA DropLoad ==
    ASSUME NEW c, NEW s, Inv(c, s), Len(c) # 0, Last(c).f \in {"import", "harvest"}, NEW t,
           {"depth", "mstack", "istack", "isolated", "modules"} \subseteq DOMAIN t,
           t.mstack = IF Last(c).f = "import" THEN Front(s.mstack) ELSE s.mstack,
           t.istack = Front(s.istack), t.depth = s.depth, t.isolated = s.isolated,
           DOMAIN t.modules \subseteq DOMAIN s.modules \cup {Last(c).file}, Stores(t)
    PROVE  Inv(Front(c), t)
<1>1. Framed(c) /\ Matched(c, s) /\ Loading(c, s) /\ IsSeq(c)
  BY ZenonT(60) DEF Inv, Framed
<1>2. /\ Framed(Front(c)) /\ IsSeq(Front(c)) /\ Len(c) \in Nat \ {0}
      /\ Last(c) = c[Len(c)]
  BY ZenonT(60), <1>1, FramedFront, StackFront
<1>3. \A K : Number(c, K) = Number(Front(c), K) + Weight(Last(c), K) /\ Number(Front(c), K) \in Nat
  BY ZenonT(60), <1>1, <1>2, NumberFront, NumberType
<1>4. /\ IsSeq(s.istack) /\ IsSeq(s.mstack)
      /\ Len(s.istack) # 0 /\ (Last(c).f = "import" => Len(s.mstack) # 0)
  BY SMTT(60), <1>1, <1>3, Weights DEF Matched
<1>5. /\ IsSeq(t.istack) /\ Len(t.istack) = Len(s.istack) - 1 /\ Len(s.istack) \in Nat \ {0}
      /\ \A i \in 1..(Len(s.istack) - 1) : t.istack[i] = s.istack[i]
  BY ZenonT(60), <1>4, StackFront
<1>6. /\ IsSeq(t.mstack)
      /\ Len(t.mstack) = Len(s.mstack) - (IF Last(c).f = "import" THEN 1 ELSE 0)
  <2>1. CASE Last(c).f = "import"
    BY ZenonT(60), <1>4, <2>1, StackFront
  <2>2. CASE Last(c).f # "import"
    <3>1. Len(s.mstack) \in Nat
      BY SMTT(60), <1>4 DEF IsSeq
    <3> QED BY SMTT(60), <1>4, <2>2, <3>1
  <2> QED BY ZenonT(60), <2>1, <2>2
<1>7. Matched(Front(c), t)
  BY SMTT(60), <1>1, <1>3, <1>5, <1>6, Weights, DepthAssumption DEF Matched
<1>8. Len(s.istack) = Number(c, {"import", "harvest"})
  BY ZenonT(60), <1>1 DEF Matched
<1>9. ASSUME NEW i \in 1..(Len(c) - 1), c[i].f \in {"import", "harvest"}
      PROVE  Rank(c, i) =< Len(t.istack) /\ c[i].file # Last(c).file
  <2>1. Rank(c, i) < Len(s.istack)
    BY Zenon, <1>1, <1>8, RankSmaller
  <2>2. Rank(c, Len(c)) = Len(s.istack)
    BY Zenon, <1>2, <1>8, RankTop
  <2>3. i \in 1..Len(c) /\ Len(c) \in 1..Len(c)
    BY SMTT(60), <1>2
  <2>4. /\ Rank(c, i) \in 1..Len(s.istack) /\ c[i].file = s.istack[Rank(c, i)]
        /\ Last(c).file = s.istack[Len(s.istack)]
    BY ZenonT(60), <1>1, <1>2, <1>9, <2>2, <2>3 DEF Loading
  <2>5. s.istack[Rank(c, i)] # s.istack[Len(s.istack)]
    BY SMTT(60), <1>1, <1>5, <2>1, <2>4 DEF Loading
  <2> QED BY SMTT(60), <1>5, <2>1, <2>4, <2>5
<1>10. \A i \in 1..(Len(c) - 1) : c[i].f = "import" => c[i].file \notin DOMAIN t.modules
  <2>1. \A i \in 1..(Len(c) - 1) : i \in 1..Len(c)
    BY SMTT(60), <1>2
  <2> QED BY Zenon, <1>1, <1>9, <2>1 DEF Loading
<1>11. Loading(Front(c), t)
  <2>1. Len(t.istack) \in Nat /\ Len(t.istack) =< Len(s.istack)
    BY SMTT(60), <1>5
  <2>2. \A i \in 1..Len(t.istack) : t.istack[i] = s.istack[i]
    BY Zenon, <1>5
  <2> QED BY ZenonT(60), <1>1, <1>4, <1>5, <1>9, <1>10, <2>1, <2>2, LoadingFront
<1> QED BY ZenonT(60), <1>2, <1>7, <1>11 DEF Inv


-----------------------------------------------------------------------------
(* The operators on the state that the invariant does not see *)

Has(s) == {"depth", "mstack", "istack", "isolated", "modules"} \subseteq DOMAIN s

\* What the next step may not do to the stores of initialised modules.
Stable(s, t) ==
    \A m \in DOMAIN s.modules :
        /\ m \in DOMAIN t.modules
        /\ t.modules[m].ret = s.modules[m].ret
        /\ t.modules[m].envs = s.modules[m].envs
        /\ DOMAIN t.modules[m].vars = DOMAIN s.modules[m].vars
        /\ t.modules[m].vars # s.modules[m].vars => CurrentModule(s) = m

\* Stores that do not change are stable.
LEMMA SameStores ==
    ASSUME NEW s, NEW t, t.modules = s.modules PROVE Stable(s, t)
BY Zenon DEF Stable

\* Two changes that the invariant does not see, one after the other.
LEMMA KeepsTrans ==
    ASSUME NEW s, NEW t, NEW u, Keeps(s, t), Keeps(t, u) PROVE Keeps(s, u)
BY Zenon DEF Keeps

\* Scopes, variables, functions and the context are none of the counters.
LEMMA LexicalKeeps ==
    ASSUME NEW s, Has(s)
    PROVE  /\ Keeps(s, s) /\ Keeps(s, PushScope(s)) /\ Keeps(s, PopScope(s))
           /\ \A l : Keeps(s, WithLexical(s, l))
           /\ \A x, v : Keeps(s, Declare(s, x, v))
           /\ \A q, e, i : Keeps(s, Define(s, q, e, i))
           /\ \A o : Keeps(s, CallContext(s, o))
           /\ Keeps(s, EnterAliasFrame(s))
<1>1. Keeps(s, s) /\ Keeps(s, PushScope(s)) /\ Keeps(s, PopScope(s))
  BY ZenonT(60) DEF Keeps, Has, PushScope, PopScope
<1>2. \A l : Keeps(s, WithLexical(s, l))
  BY ZenonT(60) DEF Keeps, Has, WithLexical
<1>3. \A x, v : Keeps(s, Declare(s, x, v))
  BY ZenonT(60) DEF Keeps, Has, Declare
<1>4. \A q, e, i : Keeps(s, Define(s, q, e, i))
  BY SMTT(60) DEF Keeps, Has, Define
<1>5. \A o : Keeps(s, CallContext(s, o))
  BY Zenon DEF Keeps, Has, CallContext
<1>6. Keeps(s, EnterAliasFrame(s))
  BY Zenon DEF Keeps, Has, EnterAliasFrame
<1> QED BY Zenon, <1>1, <1>2, <1>3, <1>4, <1>5, <1>6

\* Opening and closing scopes touch none of what the invariant counts.
LEMMA ScopesKeep ==
    ASSUME NEW s, Has(s), NEW n
    PROVE  Keeps(s, PushScopes(s, n)) /\ Keeps(s, RestoreScopes(s, n))
BY ZenonT(60), LexicalKeeps DEF PushScopes, RestoreScopes

\* Registering the exported functions of a module under an alias touches none of
\* what the invariant counts.
LEMMA ViewsKeep ==
    ASSUME NEW s, Has(s), NEW file, NEW alias
    PROVE  Keeps(s, RegisterViews(EnterAliasFrame(s), file, alias))
<1>1. Keeps(s, EnterAliasFrame(s))
  BY Zenon, LexicalKeeps
<1>2. Has(EnterAliasFrame(s))
  BY ZenonT(60), <1>1 DEF Keeps, Has
<1>3. Keeps(EnterAliasFrame(s), RegisterViews(EnterAliasFrame(s), file, alias))
  BY ZenonT(60), <1>2, LexicalKeeps DEF RegisterViews
<1> QED BY Zenon, <1>1, <1>3, KeepsTrans

-----------------------------------------------------------------------------
(* Finishing a frame and entering others *)

\* The frames that replace the one on top are pushed one after the other.
LEMMA Pushed ==
    ASSUME NEW c, IsSeq(c), NEW a, NEW b, NEW e
    PROVE  /\ c \o <<a>> = Append(c, a)
           /\ c \o <<a, b>> = Append(Append(c, a), b)
           /\ c \o <<a, b, e>> = Append(Append(Append(c, a), b), e)
<1>1. PICK S : c \in Seq(S)
  BY Zenon DEF IsSeq
<1>2. PICK T : a \in T /\ b \in T /\ e \in T /\ c \in Seq(T)
  <2>1. c \in Seq(S \cup {a, b, e})
    BY SMTT(60), <1>1
  <2> QED BY ZenonT(60), <2>1
<1>3. c \o <<a>> = Append(c, a)
  BY SMTT(60), <1>2
<1>4. c \o <<a, b>> = Append(Append(c, a), b)
  BY SMTT(60), <1>2
<1>5. c \o <<a, b, e>> = Append(Append(Append(c, a), b), e)
  BY SMTT(60), <1>2
<1> QED BY ZenonT(60), <1>3, <1>4, <1>5

\* With a frame on the control stack, the topmost one is a frame and the rest is
\* a stack of frames.
LEMMA TopIs ==
    ASSUME EngineInv, control # <<>>
    PROVE  /\ Inv(control, st) /\ Has(st) /\ IsSeq(control) /\ Len(control) # 0
           /\ Top = Last(control) /\ "f" \in DOMAIN Top /\ Framed(Front(control))
           /\ IsSeq(Front(control))
<1>1. Inv(control, st) /\ Has(st) /\ IsSeq(control)
  BY ZenonT(60) DEF EngineInv, Inv, Matched, Has, Framed
<1>2. Len(control) # 0
  BY SMTT(60), <1>1 DEF IsSeq
<1>3. Top = Last(control)
  BY ZenonT(60) DEF Top
<1>4. "f" \in DOMAIN Last(control) /\ Framed(Front(control))
  BY ZenonT(60), <1>1, <1>2, FramedFront DEF Inv
<1> QED BY ZenonT(60), <1>1, <1>2, <1>3, <1>4 DEF Framed

\* The frame on top, for which nothing is counted, finishes.
LEMMA PlainFinish ==
    ASSUME EngineInv, control # <<>>, Top.f \in Plain, NEW s, Keeps(st, s), NEW r, Finish(s, r)
    PROVE  EngineInv' /\ Stable(st, st')
<1>1. Inv(control, st) /\ Len(control) # 0 /\ Top = Last(control)
  BY ZenonT(60), TopIs
<1>2. Inv(Front(control), s)
  BY ZenonT(60), <1>1, DropPlain, InvKeeps
<1>3. control' = Front(control) /\ st' = s
  BY ZenonT(60) DEF Finish
<1>4. Stable(st, s)
  BY ZenonT(60), SameStores DEF Keeps
<1> QED BY ZenonT(60), <1>2, <1>3, <1>4 DEF EngineInv

\* It is replaced by up to three others of that sort.
LEMMA PlainEnter ==
    ASSUME EngineInv, control # <<>>, Top.f \in Plain, NEW s, Keeps(st, s), NEW a, NEW b, NEW e,
           \A x \in {a, b, e} : "f" \in DOMAIN x /\ x.f \in Plain,
           Enter(s, <<a>>) \/ Enter(s, <<a, b>>) \/ Enter(s, <<a, b, e>>)
    PROVE  EngineInv' /\ Stable(st, st')
<1>1. Inv(control, st) /\ Len(control) # 0 /\ Top = Last(control) /\ IsSeq(Front(control))
  BY ZenonT(60), TopIs
<1>2. Inv(Front(control), s)
  BY ZenonT(60), <1>1, DropPlain, InvKeeps
<1>3. Inv(Append(Front(control), a), s)
  BY ZenonT(60), <1>2, PushPlain
<1>4. Inv(Append(Append(Front(control), a), b), s)
  BY ZenonT(60), <1>3, PushPlain
<1>5. Inv(Append(Append(Append(Front(control), a), b), e), s)
  BY ZenonT(60), <1>4, PushPlain
<1>6. /\ Front(control) \o <<a>> = Append(Front(control), a)
      /\ Front(control) \o <<a, b>> = Append(Append(Front(control), a), b)
      /\ Front(control) \o <<a, b, e>> = Append(Append(Append(Front(control), a), b), e)
  BY SMTT(60), <1>1, Pushed
<1>7. Inv(control', st') /\ st' = s
  BY ZenonT(60), <1>3, <1>4, <1>5, <1>6 DEF Enter
<1>8. Stable(st, s)
  BY Zenon, SameStores DEF Keeps
<1> QED BY ZenonT(60), <1>7, <1>8 DEF EngineInv

\* One frame changes, but neither its kind nor the file it loads.
LEMMA FrameChanges ==
    ASSUME NEW c, NEW s, Inv(c, s), NEW i \in 1..Len(c), NEW x, "f" \in DOMAIN x,
           x.f = c[i].f, x.f \in {"import", "harvest"} => "file" \in DOMAIN x /\ x.file = c[i].file
    PROVE  Inv([c EXCEPT ![i] = x], s)
<1> DEFINE d == [c EXCEPT ![i] = x]
<1>1. Framed(c) /\ IsSeq(c)
  BY Zenon DEF Inv, Framed
<1>2. PICK S : c \in Seq(S)
  BY Zenon, <1>1 DEF IsSeq
<1>3. c \in Seq(S \cup {x})
  BY SMTT(60), <1>2
<1>4. d \in Seq(S \cup {x}) /\ Len(d) = Len(c)
      /\ \A j \in 1..Len(c) : d[j] = IF j = i THEN x ELSE c[j]
  BY SMTT(60), <1>3
<1>5. Framed(d)
  BY ZenonT(60), <1>1, <1>4 DEF Framed, IsSeq
<1>6. \A j \in 1..Len(c) : c[j].f \in {"import", "harvest"} =>
          "file" \in DOMAIN c[j]
  BY ZenonT(60) DEF Inv, Loading
<1>7. /\ \A j \in 1..Len(c) : d[j].f = c[j].f
      /\ \A j \in 1..Len(c) : c[j].f \in {"import", "harvest"} =>
             "file" \in DOMAIN d[j] /\ d[j].file = c[j].file
  BY ZenonT(60), <1>4, <1>6
<1> HIDE DEF d
<1>8. Inv(d, s)
  BY ZenonT(60), <1>4, <1>5, <1>7, Repaint
<1> QED BY Zenon, <1>8 DEF d

-----------------------------------------------------------------------------
(* The step loop and the leaf commands *)

\* A body is cancelled, goes on to a step, to the next step, or ends.
LEMMA LoopStep ==
    ASSUME EngineInv, StepCancelled \/ BeginStep \/ FinishStep \/ EndBody
    PROVE  EngineInv' /\ Stable(st, st')
<1>1. control # <<>> /\ Top.f \in Plain
  BY ZenonT(60) DEF StepCancelled, BeginStep, FinishStep, EndBody, Running,
     Returned, Plain
<1>2. Inv(control, st) /\ Has(st) /\ Top = Last(control) /\ IsSeq(control) /\ Len(control) # 0
      /\ "f" \in DOMAIN Top
  BY ZenonT(60), <1>1, TopIs
<1>3. Keeps(st, st)
  BY ZenonT(60), <1>2, LexicalKeeps
<1>4. CASE StepCancelled \/ EndBody
  BY ZenonT(60), <1>1, <1>3, <1>4, PlainFinish DEF StepCancelled, EndBody
<1>5. CASE BeginStep
  <2>1. PICK step, s : /\ s = PushScopes(st, step.enter) /\ st' = s
                       /\ \/ control' = Append(control, CmdFrame(step))
                          \/ control' = control
    BY ZenonT(60), <1>5 DEF BeginStep
  <2>2. Keeps(st, s)
    BY ZenonT(60), <1>2, <2>1, ScopesKeep
  <2>3. Inv(control, s)
    BY ZenonT(60), <1>2, <2>2, InvKeeps
  <2>4. "f" \in DOMAIN CmdFrame(step) /\ CmdFrame(step).f \in Plain
    BY ZenonT(60) DEF CmdFrame, Plain
  <2>5. Inv(Append(control, CmdFrame(step)), s)
    BY ZenonT(60), <2>3, <2>4, PushPlain
  <2>6. Stable(st, s)
    BY ZenonT(60), <2>2, SameStores DEF Keeps
  <2> QED BY ZenonT(60), <2>1, <2>3, <2>5, <2>6 DEF EngineInv
<1>6. CASE FinishStep
  <2>1. PICK step, s : /\ s = RestoreScopes(st, step.exit)
                       /\ \/ \E r : Finish(s, r)
                          \/ /\ st' = s
                             /\ control' = [control EXCEPT ![Len(control)].i = @ + 1]
    BY ZenonT(60), <1>6 DEF FinishStep
  <2>2. Keeps(st, s)
    BY ZenonT(60), <1>2, <2>1, ScopesKeep
  <2>3. CASE \E r : Finish(s, r)
    BY ZenonT(60), <1>1, <2>2, <2>3, PlainFinish
  <2>4. CASE st' = s /\ control' = [control EXCEPT ![Len(control)].i = @ + 1]
    <3>1. Len(control) \in 1..Len(control) /\ Last(control) = control[Len(control)]
      BY SMTT(60), <1>2, StackFront
    <3>2. PICK x : x = [Last(control) EXCEPT !.i = @ + 1]
      BY ZenonT(60)
    <3>3. control' = [control EXCEPT ![Len(control)] = x]
      BY ZenonT(60), <2>4, <3>1, <3>2
    <3>4. "f" \in DOMAIN x /\ x.f = Last(control).f
      BY ZenonT(60), <1>2, <3>2
    <3>5. x.f \notin {"import", "harvest"}
      BY ZenonT(60), <1>1, <1>2, <3>4 DEF Plain
    <3>6. Inv(control, s)
      BY Zenon, <1>2, <2>2, InvKeeps
    <3>7. Inv(control', s)
      BY ZenonT(60), <3>1, <3>3, <3>4, <3>5, <3>6, FrameChanges
    <3>8. Stable(st, s)
      BY Zenon, <2>2, SameStores DEF Keeps
    <3> QED BY ZenonT(60), <2>4, <3>7, <3>8 DEF EngineInv
  <2> QED BY ZenonT(60), <2>1, <2>3, <2>4
<1> QED BY ZenonT(60), <1>4, <1>5, <1>6

\* SET changes a binding, in a scope or in the store of the module whose code
\* runs, and nothing else.
LEMMA MutateKeeps ==
    ASSUME NEW c, NEW s, Inv(c, s), NEW x, NEW v, CanMutate(s, x, v)
    PROVE  Inv(c, Mutate(s, x, v)) /\ Stable(s, Mutate(s, x, v))
<1> DEFINE t == Mutate(s, x, v)
<1>1. Has(s)
  BY ZenonT(60) DEF Inv, Matched, Has
<1>2. CASE ScopesWith(s, x) # {}
  <2>1. Keeps(s, t)
    BY ZenonT(60), <1>1, <1>2 DEF Mutate, Keeps, Has
  <2> QED BY ZenonT(60), <2>1, InvKeeps, SameStores DEF Keeps
<1>3. CASE ScopesWith(s, x) = {}
  <2>1. PICK m : m = CurrentModule(s)
    BY ZenonT(60)
  <2>2. m \in DOMAIN s.modules
    <3>1. x \in DOMAIN ModuleVars(s)
      BY ZenonT(60), <1>3 DEF CanMutate, IsBound
    <3>2. m \notin DOMAIN s.modules => ModuleVars(s) = <<>>
      BY ZenonT(60), <2>1 DEF ModuleVars, NoVars
    <3> QED BY SMTT(60), <3>1, <3>2
  <2>3. t = [s EXCEPT !.modules[m].vars[x] = v]
    BY ZenonT(60), <1>3, <2>1 DEF Mutate
  <2>4. PICK y : y = [s.modules[m] EXCEPT !.vars[x] = v]
    BY ZenonT(60)
  <2>5. PICK ms : ms = [s.modules EXCEPT ![m] = y]
    BY ZenonT(60)
  <2>6. t = [s EXCEPT !.modules = ms]
    BY ZenonT(60), <2>3, <2>4, <2>5
  <2>7. t.modules = ms /\ DOMAIN t = DOMAIN s
    BY ZenonT(60), <1>1, <2>6 DEF Has
  <2>8. /\ t.depth = s.depth /\ t.mstack = s.mstack /\ t.istack = s.istack
        /\ t.isolated = s.isolated
    BY ZenonT(60), <1>1, <2>6 DEF Has
  <2>9. /\ DOMAIN ms = DOMAIN s.modules /\ ms[m] = y
        /\ \A n \in DOMAIN s.modules : n # m => ms[n] = s.modules[n]
    BY ZenonT(60), <2>2, <2>5
  <2>10. {"vars", "ret", "envs"} \subseteq DOMAIN s.modules[m]
    BY ZenonT(60), <2>2 DEF Inv, Stores
  <2>11. /\ DOMAIN y = DOMAIN s.modules[m] /\ y.ret = s.modules[m].ret
         /\ y.envs = s.modules[m].envs /\ y.vars = [s.modules[m].vars EXCEPT ![x] = v]
    BY ZenonT(60), <2>4, <2>10
  <2>12. DOMAIN y.vars = DOMAIN s.modules[m].vars
    BY ZenonT(60), <2>11
  <2> HIDE DEF t
  <2>13. Stores(t)
    BY ZenonT(60), <2>7, <2>9, <2>10, <2>11 DEF Inv, Stores
  <2>14. Inv(c, t)
    BY ZenonT(60), <1>1, <2>7, <2>8, <2>9, <2>13 DEF Inv, Matched, Loading, Has
  <2>15. Stable(s, t)
    BY ZenonT(60), <2>1, <2>7, <2>9, <2>11, <2>12 DEF Stable
  <2> QED BY ZenonT(60), <2>14, <2>15 DEF t
<1> QED BY ZenonT(60), <1>2, <1>3


\* A leaf command changes nothing that is counted.
LEMMA LeafStep ==
    ASSUME EngineInv, Leaf PROVE EngineInv' /\ Stable(st, st')
<1>1. control # <<>> /\ Top.f \in Plain
  BY ZenonT(60) DEF Leaf, RunCommand, Env, InheritEnv, IsolatedInheritEnv,
     Workdir, Workspace, Assign,
         SetVarValue, DefineFunc, HandleReturn, BreakOrContinue, Command, Running, Plain
<1>2. Inv(control, st) /\ Has(st) /\ Len(control) # 0 /\ Top = Last(control)
  BY ZenonT(60), <1>1, TopIs
<1>3. Keeps(st, st)
  BY ZenonT(60), <1>2, LexicalKeeps
<1>4. CASE RunCommand \/ HandleReturn \/ BreakOrContinue
  <2>1. \E r : Finish(st, r)
    BY ZenonT(60), <1>4 DEF RunCommand, HandleReturn, BreakOrContinue
  <2> QED BY ZenonT(60), <1>1, <1>3, <2>1, PlainFinish
<1>5. CASE Env \/ InheritEnv \/ IsolatedInheritEnv \/ Workdir \/ Workspace
  <2>1. \E e, r : Finish(st, r) \/ Finish([st EXCEPT !.ctx = e], r)
    <3>1. CASE Env
      <4>1. PICK e : e = [st.ctx EXCEPT !.envs[Top.cmd.key] = Top.cmd.val]
        BY ZenonT(60)
      <4>2. [st EXCEPT !.ctx.envs[Top.cmd.key] = Top.cmd.val] = [st EXCEPT !.ctx = e]
        BY ZenonT(60), <4>1
      <4> QED BY ZenonT(60), <3>1, <4>2 DEF Env
    <3>2. CASE InheritEnv
      <4>1. PICK e : e = [st.ctx EXCEPT !.envs = Inherit(@, Top.cmd.keys)]
        BY ZenonT(60)
      <4>2. [st EXCEPT !.ctx.envs = Inherit(@, Top.cmd.keys)] = [st EXCEPT !.ctx = e]
        BY ZenonT(60), <4>1
      <4> QED BY ZenonT(60), <3>2, <4>2 DEF InheritEnv
    <3>3. CASE IsolatedInheritEnv
      <4>1. PICK e : e = [st.ctx EXCEPT !.envs = InheritIsolated(@, Last(st.isolated), Top.cmd.keys)]
        BY ZenonT(60)
      <4>2. [st EXCEPT !.ctx.envs = InheritIsolated(@, Last(st.isolated), Top.cmd.keys)]
              = [st EXCEPT !.ctx = e]
        BY ZenonT(60), <4>1
      <4> QED BY ZenonT(60), <3>3, <4>2 DEF IsolatedInheritEnv
    <3>4. CASE Workdir
      <4>1. PICK e : e = [st.ctx EXCEPT !.cwd = Append(EffectiveCwd(st), Top.cmd.dir)]
        BY ZenonT(60)
      <4>2. [st EXCEPT !.ctx.cwd = Append(EffectiveCwd(st), Top.cmd.dir)] = [st EXCEPT !.ctx = e]
        BY ZenonT(60), <4>1
      <4> QED BY ZenonT(60), <3>4, <4>2 DEF Workdir
    <3>5. CASE Workspace
      <4>1. PICK e : e = [st.ctx EXCEPT !.root = Top.cmd.root,
                                        !.cwd = IF Top.cmd.root = <<>> THEN @ ELSE Top.cmd.root]
        BY ZenonT(60)
      <4>2. [st EXCEPT !.ctx.root = Top.cmd.root,
                       !.ctx.cwd = IF Top.cmd.root = <<>> THEN @ ELSE Top.cmd.root]
              = [st EXCEPT !.ctx = e]
        BY ZenonT(60), <4>1
      <4> QED BY ZenonT(60), <3>5, <4>2 DEF Workspace
    <3> QED BY ZenonT(60), <1>5, <3>1, <3>2, <3>3, <3>4, <3>5
  <2>2. \A e : Keeps(st, [st EXCEPT !.ctx = e])
    BY ZenonT(60), <1>2 DEF Keeps, Has
  <2> QED BY ZenonT(60), <1>1, <1>3, <2>1, <2>2, PlainFinish
<1>6. CASE Assign \/ DefineFunc
  <2>1. \/ \E r : Finish(st, r)
        \/ \E x, v, r : Finish(Declare(st, x, v), r)
        \/ \E q, e, r : Finish(Define(st, q, e, Len(st.scopes)), r)
    BY ZenonT(60), <1>6 DEF Assign, DefineFunc
  <2>2. /\ \A x, v : Keeps(st, Declare(st, x, v))
        /\ \A q, e, i : Keeps(st, Define(st, q, e, i))
    BY ZenonT(60), <1>2, LexicalKeeps
  <2> QED BY ZenonT(60), <1>1, <1>3, <2>1, <2>2, PlainFinish
<1>7. CASE SetVarValue
  <2>1. \/ \E r : Finish(st, r)
        \/ \E x, v, r : CanMutate(st, x, v) /\ Finish(Mutate(st, x, v), r)
    BY ZenonT(60), <1>7 DEF SetVarValue
  <2>2. CASE \E r : Finish(st, r)
    BY ZenonT(60), <1>1, <1>3, <2>2, PlainFinish
  <2>3. CASE \E x, v, r : CanMutate(st, x, v) /\ Finish(Mutate(st, x, v), r)
    <3>1. PICK x, v, r : CanMutate(st, x, v) /\ Finish(Mutate(st, x, v), r)
      BY ZenonT(60), <2>3
    <3>2. Inv(control, Mutate(st, x, v)) /\ Stable(st, Mutate(st, x, v))
      BY ZenonT(60), <1>2, <3>1, MutateKeeps
    <3>3. Inv(Front(control), Mutate(st, x, v))
      BY ZenonT(60), <1>1, <1>2, <3>2, DropPlain
    <3>4. control' = Front(control) /\ st' = Mutate(st, x, v)
      BY ZenonT(60), <3>1 DEF Finish
    <3> QED BY ZenonT(60), <3>2, <3>3, <3>4 DEF EngineInv
  <2> QED BY ZenonT(60), <2>1, <2>2, <2>3
<1> QED BY ZenonT(60), <1>4, <1>5, <1>6, <1>7 DEF Leaf

-----------------------------------------------------------------------------
(* Constructs for which nothing is counted *)

\* The frames of a scoped body, and of one under a frame of its construct.
LEMMA ScopedFrames ==
    ASSUME NEW s, NEW body, NEW x
    PROVE  \E a, b : /\ ScopedSteps(s, body) = <<a, b>>
                     /\ <<x>> \o ScopedSteps(s, body) = <<x, a, b>>
                     /\ "f" \in DOMAIN a /\ a.f \in Plain
                     /\ "f" \in DOMAIN b /\ b.f \in Plain
<1>1. PICK a, b : a = [f |-> "scoped", at |-> Mark(s)] /\ b = StepsFrame(body)
  BY ZenonT(60)
<1>2. ScopedSteps(s, body) = <<a, b>>
  BY ZenonT(60), <1>1 DEF ScopedSteps
<1>3. <<x>> \o <<a, b>> = <<x, a, b>>
  <2>1. PICK T : x \in T /\ a \in T /\ b \in T
    <3>1. x \in {x, a, b} /\ a \in {x, a, b} /\ b \in {x, a, b}
      BY ZenonT(60)
    <3> QED BY ZenonT(60), <3>1
  <2>2. <<x>> \in Seq(T) /\ <<a, b>> \in Seq(T) /\ <<x, a, b>> \in Seq(T)
    BY SMTT(60), <2>1
  <2>3. Len(<<x>>) = 1 /\ Len(<<a, b>>) = 2 /\ Len(<<x, a, b>>) = 3
    BY ZenonT(60)
  <2>4. <<x>> \o <<a, b>> \in Seq(T) /\ Len(<<x>> \o <<a, b>>) = 3
    BY SMTT(60), <2>2, <2>3
  <2>5. \A i \in 1..3 : (<<x>> \o <<a, b>>)[i] = <<x, a, b>>[i]
    BY SMTT(60), <2>2, <2>3
  <2> QED BY ZenonT(60), <2>2, <2>3, <2>4, <2>5, SeqEqual
<1>4. /\ "f" \in DOMAIN a /\ a.f \in Plain
      /\ "f" \in DOMAIN b /\ b.f \in Plain
  BY ZenonT(60), <1>1 DEF StepsFrame, Plain
<1> QED BY ZenonT(60), <1>2, <1>3, <1>4

\* Constructs that push a scope and run a body, or only a frame.
LEMMA EnterStep ==
    ASSUME EngineInv, WithIo \/ IfThen \/ EnterTimeout \/ EnterRemoteBody \/ EnterFor
                      \/ EnterWhile \/ BlockValue \/ AssignCapture
    PROVE  EngineInv' /\ Stable(st, st')
<1>1. control # <<>> /\ Top.f \in Plain
  BY ZenonT(60) DEF WithIo, IfThen, EnterTimeout, EnterRemoteBody, EnterFor,
     EnterWhile, BlockValue,
         AssignCapture, Command, Running, Plain
<1>2. Has(st)
  BY ZenonT(60), <1>1, TopIs
<1>3. Keeps(st, st) /\ Keeps(st, PushScope(st))
  BY ZenonT(60), <1>2, LexicalKeeps
<1>4. CASE WithIo \/ AssignCapture
  <2>1. \/ \E r : Finish(st, r)
        \/ \E c : Enter(st, <<CmdFrame(c)>>)
        \/ \E y, c : Enter(st, <<[f |-> "capture", bind |-> y], CmdFrame(c)>>)
    BY ZenonT(60), <1>4 DEF WithIo, AssignCapture
  <2>2. \A c : "f" \in DOMAIN CmdFrame(c) /\ CmdFrame(c).f \in Plain
    BY ZenonT(60) DEF CmdFrame, Plain
  <2>3. \A y : "f" \in DOMAIN [f |-> "capture", bind |-> y] /\ [f |-> "capture", bind |-> y].f \in Plain
    BY ZenonT(60) DEF Plain
  <2>4. CASE \E r : Finish(st, r)
    BY ZenonT(60), <1>1, <1>3, <2>4, PlainFinish
  <2>5. CASE \E c : Enter(st, <<CmdFrame(c)>>)
    <3>1. PICK c : Enter(st, <<CmdFrame(c)>>)
      BY ZenonT(60), <2>5
    <3>2. PICK a : a = CmdFrame(c)
      BY ZenonT(60)
    <3>3. Enter(st, <<a>>)
      BY ZenonT(60), <3>1, <3>2
    <3>4. "f" \in DOMAIN a /\ a.f \in Plain
      BY ZenonT(60), <2>2, <3>2
    <3> QED BY ZenonT(60), <1>1, <1>3, <3>3, <3>4, PlainEnter
  <2>6. CASE \E y, c : Enter(st, <<[f |-> "capture", bind |-> y], CmdFrame(c)>>)
    <3>1. PICK y, c : Enter(st, <<[f |-> "capture", bind |-> y], CmdFrame(c)>>)
      BY ZenonT(60), <2>6
    <3>2. PICK a, b : a = [f |-> "capture", bind |-> y] /\ b = CmdFrame(c)
      BY ZenonT(60)
    <3>3. Enter(st, <<a, b>>)
      BY ZenonT(60), <3>1, <3>2
    <3>4. "f" \in DOMAIN a /\ a.f \in Plain /\ "f" \in DOMAIN b /\ b.f \in Plain
      BY ZenonT(60), <2>2, <2>3, <3>2
    <3> QED BY ZenonT(60), <1>1, <1>3, <3>3, <3>4, PlainEnter
  <2> QED BY ZenonT(60), <2>1, <2>4, <2>5, <2>6
<1>5. CASE IfThen
  <2>1. \/ \E r : Finish(st, r)
        \/ \E body : Enter(PushScope(st), ScopedSteps(st, body))
    BY ZenonT(60), <1>5 DEF IfThen
  <2>2. CASE \E r : Finish(st, r)
    BY Zenon, <1>1, <1>3, <2>2, PlainFinish
  <2>3. CASE \E body : Enter(PushScope(st), ScopedSteps(st, body))
    <3>1. PICK a, b : /\ Enter(PushScope(st), <<a, b>>)
                      /\ "f" \in DOMAIN a /\ a.f \in Plain
                      /\ "f" \in DOMAIN b /\ b.f \in Plain
      BY ZenonT(60), <2>3, ScopedFrames
    <3> QED BY ZenonT(60), <1>1, <1>3, <3>1, PlainEnter
  <2> QED BY ZenonT(60), <2>1, <2>2, <2>3
<1>6. CASE EnterTimeout \/ EnterRemoteBody
  <2>1. PICK x, body : /\ Enter(PushScope(st), <<x>> \o ScopedSteps(st, body))
                       /\ "f" \in DOMAIN x /\ x.f \in Plain
    <3>1. CASE EnterTimeout
      <4>1. PICK x : x = [f |-> "timeout", initial |-> st.token, fired |-> FALSE]
        BY ZenonT(60)
      <4>2. "f" \in DOMAIN x /\ x.f \in Plain
        BY ZenonT(60), <4>1 DEF Plain
      <4> QED BY ZenonT(60), <3>1, <4>1, <4>2 DEF EnterTimeout
    <3>2. CASE EnterRemoteBody
      <4>1. PICK x : x = [f |-> "remote"]
        BY ZenonT(60)
      <4>2. "f" \in DOMAIN x /\ x.f \in Plain
        BY ZenonT(60), <4>1 DEF Plain
      <4> QED BY ZenonT(60), <3>2, <4>1, <4>2 DEF EnterRemoteBody
    <3> QED BY Zenon, <1>6, <3>1, <3>2
  <2>2. PICK a, b : /\ <<x>> \o ScopedSteps(st, body) = <<x, a, b>>
                    /\ "f" \in DOMAIN a /\ a.f \in Plain
                    /\ "f" \in DOMAIN b /\ b.f \in Plain
    BY SMTT(60), ScopedFrames
  <2>3. Enter(PushScope(st), <<x, a, b>>)
    BY ZenonT(60), <2>1, <2>2
  <2>4. \A y \in {x, a, b} : "f" \in DOMAIN y /\ y.f \in Plain
    BY Zenon, <2>1, <2>2
  <2> QED BY ZenonT(60), <1>1, <1>3, <2>3, <2>4, PlainEnter
<1>7. CASE EnterFor \/ EnterWhile
  <2>1. PICK x : Enter(st, <<x>>) /\ "f" \in DOMAIN x /\ x.f \in Plain
    <3>1. CASE EnterFor
      <4>1. PICK x : x = [f |-> "for", items |-> Top.cmd.items, x |-> Top.cmd.x,
                          body |-> Top.cmd.body, at |-> Mark(st)]
        BY ZenonT(60)
      <4>2. "f" \in DOMAIN x /\ x.f \in Plain
        BY ZenonT(60), <4>1 DEF Plain
      <4> QED BY ZenonT(60), <3>1, <4>1, <4>2 DEF EnterFor
    <3>2. CASE EnterWhile
      <4>1. PICK x : x = [f |-> "while", cond |-> Top.cmd.cond, body |-> Top.cmd.body,
                          at |-> Mark(st)]
        BY ZenonT(60)
      <4>2. "f" \in DOMAIN x /\ x.f \in Plain
        BY ZenonT(60), <4>1 DEF Plain
      <4> QED BY ZenonT(60), <3>2, <4>1, <4>2 DEF EnterWhile
    <3> QED BY ZenonT(60), <1>7, <3>1, <3>2
  <2> QED BY ZenonT(60), <1>1, <1>3, <2>1, PlainEnter
<1>8. CASE BlockValue
  <2>1. PICK a, b : /\ a = [f |-> "block", bind |-> Top.cmd.bind, at |-> Mark(st)]
                    /\ b = StepsFrame(Top.cmd.body)
    BY ZenonT(60)
  <2>2. "f" \in DOMAIN a /\ a.f \in Plain /\ "f" \in DOMAIN b /\ b.f \in Plain
    BY ZenonT(60), <2>1 DEF StepsFrame, Plain
  <2>3. Enter(PushScope(st), <<a, b>>)
    BY ZenonT(60), <1>8, <2>1 DEF BlockValue
  <2> QED BY ZenonT(60), <1>1, <1>3, <2>2, <2>3, PlainEnter
<1> QED BY ZenonT(60), <1>4, <1>5, <1>6, <1>7, <1>8


\* A value reaches its binding: the frame on top finishes.
LEMMA BindStep ==
    ASSUME NEW s, Has(s), NEW x, NEW r, Bind(s, x, r)
    PROVE  control' = Front(control) /\ Keeps(s, st')
<1>1. Keeps(s, s) /\ \A y, v : Keeps(s, Declare(s, y, v))
  BY ZenonT(60), LexicalKeeps
<1>2. \/ \E q : Finish(s, q)
      \/ \E y, v, q : Finish(Declare(s, y, v), q)
  BY ZenonT(60) DEF Bind
<1> QED BY ZenonT(60), <1>1, <1>2 DEF Finish

\* The end of constructs for which nothing is counted.
LEMMA ReturnStep ==
    ASSUME EngineInv, ScopedReturns \/ TimeoutReturns \/ RemoteBodyReturns \/ IterationReturns
                      \/ BlockReturns \/ CaptureReturns \/ ForEnds
    PROVE  EngineInv' /\ Stable(st, st')
<1>1. control # <<>> /\ Top.f \in Plain
  BY ZenonT(60) DEF ScopedReturns, TimeoutReturns, RemoteBodyReturns,
     IterationReturns, BlockReturns,
         CaptureReturns, ForEnds, Running, Returned, Plain
<1>2. /\ Inv(control, st) /\ Has(st) /\ "f" \in DOMAIN Top /\ Len(control) # 0
      /\ Top = Last(control)
  BY ZenonT(60), <1>1, TopIs
<1>3. Keeps(st, st) /\ Keeps(st, PopScope(st))
  BY ZenonT(60), <1>2, LexicalKeeps
<1>4. CASE ScopedReturns \/ RemoteBodyReturns \/ ForEnds
  <2>1. \E r : Finish(st, r) \/ Finish(PopScope(st), r)
    BY ZenonT(60), <1>4 DEF ScopedReturns, RemoteBodyReturns, ForEnds
  <2> QED BY ZenonT(60), <1>1, <1>3, <2>1, PlainFinish
<1>5. CASE TimeoutReturns
  <2>1. \E r, v : Finish(st, r) \/ Finish([st EXCEPT !.token = v], r)
    BY ZenonT(60), <1>5 DEF TimeoutReturns
  <2>2. \A v : Keeps(st, [st EXCEPT !.token = v])
    BY ZenonT(60), <1>2 DEF Keeps, Has
  <2> QED BY ZenonT(60), <1>1, <1>3, <2>1, <2>2, PlainFinish
<1>6. CASE IterationReturns
  <2>1. PICK s : s = PopScope(st)
    BY ZenonT(60)
  <2>2. (\E r : Finish(s, r)) \/ Enter(s, <<Top>>)
    BY ZenonT(60), <1>6, <2>1 DEF IterationReturns
  <2>3. PICK a : a = Top
    BY ZenonT(60)
  <2>4. CASE \E r : Finish(s, r)
    BY ZenonT(60), <1>1, <1>3, <2>1, <2>4, PlainFinish
  <2>5. CASE Enter(s, <<Top>>)
    <3>1. Enter(s, <<a>>) /\ \A x \in {a} : "f" \in DOMAIN x /\ x.f \in Plain
      BY ZenonT(60), <1>1, <1>2, <2>3, <2>5
    <3> QED BY ZenonT(60), <1>1, <1>3, <2>1, <3>1, PlainEnter
  <2> QED BY ZenonT(60), <2>2, <2>4, <2>5
<1>7. CASE BlockReturns \/ CaptureReturns
  <2>1. PICK s, x, r : Bind(s, x, r) /\ Keeps(st, s)
    BY ZenonT(60), <1>3, <1>7 DEF BlockReturns, CaptureReturns
  <2>2. Has(s)
    BY ZenonT(60), <2>1 DEF Keeps, Has
  <2>3. control' = Front(control) /\ Keeps(s, st')
    BY ZenonT(60), <2>1, <2>2, BindStep
  <2>4. Keeps(st, st')
    BY ZenonT(60), <2>1, <2>3, KeepsTrans
  <2>5. Inv(Front(control), st)
    BY ZenonT(60), <1>1, <1>2, DropPlain
  <2>6. Inv(Front(control), st')
    BY ZenonT(60), <2>4, <2>5, InvKeeps
  <2>7. Stable(st, st')
    BY ZenonT(60), <2>4, SameStores DEF Keeps
  <2> QED BY ZenonT(60), <2>3, <2>6, <2>7 DEF EngineInv
<1> QED BY ZenonT(60), <1>4, <1>5, <1>6, <1>7

\* A loop goes on to its next iteration, or ends.
LEMMA IterateStep ==
    ASSUME EngineInv, ForNext \/ WhileNext PROVE EngineInv' /\ Stable(st, st')
<1>1. control # <<>> /\ Top.f \in Plain
  BY ZenonT(60) DEF ForNext, WhileNext, Running, Plain
<1>2. Has(st) /\ "f" \in DOMAIN Top
  BY ZenonT(60), <1>1, TopIs
<1>3. Keeps(st, st) /\ Keeps(st, PushScope(st))
  BY ZenonT(60), <1>2, LexicalKeeps
<1>4. Has(PushScope(st))
  BY ZenonT(60), <1>3 DEF Keeps, Has
<1>5. \A x, v : Keeps(st, Declare(PushScope(st), x, v))
  BY ZenonT(60), <1>3, <1>4, LexicalKeeps, KeepsTrans
<1>6. \A body : "f" \in DOMAIN StepsFrame(body) /\ StepsFrame(body).f \in Plain
  BY ZenonT(60) DEF StepsFrame, Plain
<1>7. PICK s, a, b : /\ Keeps(st, s)
                     /\ (\E r : Finish(s, r)) \/ Enter(s, <<a, b>>)
                     /\ "f" \in DOMAIN a /\ a.f \in Plain /\ "f" \in DOMAIN b /\ b.f \in Plain
  <2>1. CASE ForNext
    <3>1. PICK a, b : a = [Top EXCEPT !.items = Tail(@)] /\ b = StepsFrame(Top.body)
      BY ZenonT(60)
    <3>2. "f" \in DOMAIN a /\ a.f \in Plain /\ "f" \in DOMAIN b /\ b.f \in Plain
      BY ZenonT(60), <1>1, <1>2, <1>6, <3>1
    <3>3. PICK s : s = PushScope(st)
      BY ZenonT(60)
    <3>4. PICK t : t = Declare(s, Top.x, Head(Top.items))
      BY ZenonT(60)
    <3>5. (\E r : Finish(s, r)) \/ Enter(t, <<a, b>>)
      BY ZenonT(60), <2>1, <3>1, <3>3, <3>4 DEF ForNext
    <3>6. Keeps(st, s) /\ Keeps(st, t)
      BY ZenonT(60), <1>3, <1>5, <3>3, <3>4
    <3> QED BY ZenonT(60), <3>2, <3>5, <3>6
  <2>2. CASE WhileNext
    <3>1. PICK a, b : a = Top /\ b = StepsFrame(Top.body)
      BY ZenonT(60)
    <3>2. "f" \in DOMAIN a /\ a.f \in Plain /\ "f" \in DOMAIN b /\ b.f \in Plain
      BY ZenonT(60), <1>1, <1>2, <1>6, <3>1
    <3>3. (\E r : Finish(st, r)) \/ Enter(PushScope(st), <<a, b>>)
      BY ZenonT(60), <2>2, <3>1 DEF WhileNext
    <3> QED BY ZenonT(60), <1>3, <3>2, <3>3
  <2> QED BY ZenonT(60), <2>1, <2>2
<1>8. CASE \E r : Finish(s, r)
  BY ZenonT(60), <1>1, <1>7, <1>8, PlainFinish
<1>9. CASE Enter(s, <<a, b>>)
  <2>1. \A x \in {a, b} : "f" \in DOMAIN x /\ x.f \in Plain
    BY ZenonT(60), <1>7
  <2> QED BY ZenonT(60), <1>1, <1>7, <1>9, <2>1, PlainEnter
<1> QED BY ZenonT(60), <1>7, <1>8, <1>9

\* A deadline fires, in any frame of the stack.
LEMMA DeadlineStep ==
    ASSUME EngineInv, DeadlineFires PROVE EngineInv' /\ Stable(st, st')
<1>1. PICK i \in 1..Len(control) :
          /\ control[i].f = "timeout" /\ control' = [control EXCEPT ![i].fired = TRUE]
          /\ st' = [st EXCEPT !.token = TRUE]
  BY ZenonT(60) DEF DeadlineFires
<1>2. Inv(control, st) /\ Has(st) /\ IsSeq(control) /\ "f" \in DOMAIN control[i]
  BY ZenonT(60) DEF EngineInv, Inv, Matched, Has, Framed
<1>3. PICK x : x = [control[i] EXCEPT !.fired = TRUE]
  BY ZenonT(60)
<1>4. control' = [control EXCEPT ![i] = x]
  BY ZenonT(60), <1>1, <1>3
<1>5. "f" \in DOMAIN x /\ x.f = control[i].f /\ x.f \notin {"import", "harvest"}
  BY ZenonT(60), <1>1, <1>2, <1>3
<1>6. Keeps(st, st')
  BY ZenonT(60), <1>1, <1>2 DEF Keeps, Has
<1>7. Inv(control, st')
  BY ZenonT(60), <1>2, <1>6, InvKeeps
<1>8. Inv(control', st')
  BY ZenonT(60), <1>4, <1>5, <1>7, FrameChanges
<1>9. Stable(st, st')
  BY ZenonT(60), <1>6, SameStores DEF Keeps
<1> QED BY ZenonT(60), <1>8, <1>9 DEF EngineInv


-----------------------------------------------------------------------------
(* Constructs that are counted *)

\* A snapshot of the environment is pushed with its ISOLATED frame, and goes
\* with it.
LEMMA IsolatedStep ==
    ASSUME EngineInv, EnterIsolated \/ IsolatedReturns PROVE EngineInv' /\ Stable(st, st')
<1>1. control # <<>>
  BY ZenonT(60) DEF EnterIsolated, IsolatedReturns, Command, Running, Returned
<1>2. /\ Inv(control, st) /\ Has(st) /\ Len(control) # 0 /\ Top = Last(control)
      /\ IsSeq(Front(control))
  BY ZenonT(60), <1>1, TopIs
<1>3. CASE EnterIsolated
  <2>1. Inv(Front(control), st)
    BY ZenonT(60), <1>2, <1>3, DropPlain DEF EnterIsolated, Command, Running,
       Plain
  <2>2. PICK e : e = [st.ctx EXCEPT !.envs = Seed]
    BY ZenonT(60)
  <2>3. PICK s : s = [st EXCEPT !.isolated = Append(@, st.ctx.envs), !.ctx = e]
    BY ZenonT(60)
  <2>4. s = [st EXCEPT !.isolated = Append(@, st.ctx.envs), !.ctx.envs = Seed]
    BY ZenonT(60), <2>2, <2>3
  <2>5. PICK x : x = [f |-> "isolated", at |-> Mark(st)]
    BY ZenonT(60)
  <2>6. PICK a, b : /\ <<x>> \o ScopedSteps(s, Top.cmd.body) = <<x, a, b>>
                    /\ "f" \in DOMAIN a /\ a.f \in Plain
                    /\ "f" \in DOMAIN b /\ b.f \in Plain
    BY SMTT(60), ScopedFrames
  <2>7. st' = PushScope(s) /\ control' = Front(control) \o <<x, a, b>>
    BY ZenonT(60), <1>3, <2>4, <2>5, <2>6 DEF EnterIsolated, Enter
  <2>8. /\ Has(s) /\ s.isolated = Append(st.isolated, st.ctx.envs) /\ s.depth = st.depth
        /\ s.istack = st.istack /\ s.mstack = st.mstack /\ s.modules = st.modules
    BY Zenon, <1>2, <2>3 DEF Has
  <2>9. Keeps(s, st')
    BY ZenonT(60), <2>7, <2>8, LexicalKeeps
  <2>10. "f" \in DOMAIN x /\ x.f = "isolated"
    BY Zenon, <2>5
  <2>11. Inv(Append(Front(control), x), s)
    BY ZenonT(60), <2>1, <2>8, <2>10, PushIsolated DEF Has
  <2>12. Inv(Append(Append(Front(control), x), a), s)
    BY ZenonT(60), <2>6, <2>11, PushPlain
  <2>13. Inv(Append(Append(Append(Front(control), x), a), b), s)
    BY ZenonT(60), <2>6, <2>12, PushPlain
  <2>14. Inv(control', s)
    <3>1. PICK c : c = Front(control) /\ IsSeq(c)
      BY ZenonT(60), <1>2
    <3>2. c \o <<x, a, b>> = Append(Append(Append(c, x), a), b)
      BY SMTT(60), <3>1, Pushed
    <3> QED BY ZenonT(60), <2>7, <2>13, <3>1, <3>2
  <2>15. Inv(control', st')
    BY Zenon, <2>9, <2>14, InvKeeps
  <2>16. Stable(st, st')
    BY Zenon, <2>8, <2>9, SameStores DEF Keeps
  <2> QED BY ZenonT(60), <2>15, <2>16 DEF EngineInv
<1>4. CASE IsolatedReturns
  <2>1. PICK e : e = [st.ctx EXCEPT !.envs = Last(st.isolated)]
    BY ZenonT(60)
  <2>2. [st EXCEPT !.ctx.envs = Last(st.isolated), !.isolated = Front(@)]
          = [st EXCEPT !.ctx = e, !.isolated = Front(@)]
    BY ZenonT(60), <2>1
  <2>3. st' = [st EXCEPT !.ctx = e, !.isolated = Front(@)] /\ control' = Front(control)
    BY ZenonT(60), <1>4, <2>2 DEF IsolatedReturns, Finish
  <2>4. /\ Has(st') /\ st'.isolated = Front(st.isolated) /\ st'.depth = st.depth
        /\ st'.istack = st.istack /\ st'.mstack = st.mstack /\ st'.modules = st.modules
    BY ZenonT(60), <1>2, <2>3 DEF Has
  <2>5. Last(control).f = "isolated"
    BY ZenonT(60), <1>2, <1>4 DEF IsolatedReturns, Returned
  <2>6. PICK t : t = st'
    BY ZenonT(60)
  <2>7. Inv(Front(control), t)
    BY ZenonT(60), <1>2, <2>4, <2>5, <2>6, DropIsolated DEF Has
  <2>8. Stable(st, st')
    BY ZenonT(60), <2>4, SameStores
  <2> QED BY Zenon, <2>3, <2>6, <2>7, <2>8 DEF EngineInv
<1> QED BY ZenonT(60), <1>3, <1>4

\* A call takes one unit of the depth budget, and gives it back however its
\* body ends.
LEMMA CallStep ==
    ASSUME EngineInv, CallFuncValue \/ CallReturns PROVE EngineInv' /\ Stable(st, st')
<1>1. control # <<>>
  BY ZenonT(60) DEF CallFuncValue, CallReturns, Command, Running, Returned
<1>2. /\ Inv(control, st) /\ Has(st) /\ Len(control) # 0 /\ Top = Last(control)
      /\ IsSeq(Front(control))
  BY Zenon, <1>1, TopIs
<1>3. CASE CallFuncValue
  <2>0. Top.f \in Plain
    BY ZenonT(60), <1>3 DEF CallFuncValue, Command, Running, Plain
  <2>1. CASE CallRefused(st, Top.cmd)
    <3>1. Finish(st, Failed) /\ Keeps(st, st)
      BY ZenonT(60), <1>2, <1>3, <2>1, LexicalKeeps DEF CallFuncValue
    <3> QED BY ZenonT(60), <1>1, <2>0, <3>1, PlainFinish
  <2>2. CASE ~CallRefused(st, Top.cmd)
    <3>1. PICK def : def = st.funcs[Top.cmd.fn]
      BY ZenonT(60)
    <3>2. PICK frame : frame = [f |-> "call", bind |-> Top.cmd.bind, owner |-> def.owner,
                                at |-> Mark(st)]
      BY ZenonT(60)
    <3>3. PICK in : in = [PushScope(st) EXCEPT !.depth = @ + 1, !.mstack = Append(@, def.owner)]
      BY ZenonT(60)
    <3>4. PICK s : s = CallContext(in, def.owner)
      BY ZenonT(60)
    <3>5. PICK b : b = StepsFrame(def.body)
      BY ZenonT(60)
    <3>6. \/ st' = s /\ control' = Front(control) \o <<frame, b>>
          \/ \E x, v : st' = Declare(s, x, v) /\ control' = Front(control) \o <<frame, b>>
          \/ st' = s /\ control' = Front(control) \o <<frame>>
      BY ZenonT(60), <1>3, <2>2, <3>1, <3>2, <3>3, <3>4, <3>5
         DEF CallFuncValue, Enter
    <3>7. Keeps(st, PushScope(st))
      BY ZenonT(60), <1>2, LexicalKeeps
    <3>8. /\ Has(in) /\ in.depth = st.depth + 1 /\ in.mstack = Append(st.mstack, def.owner)
          /\ in.istack = st.istack /\ in.isolated = st.isolated /\ in.modules = st.modules
      BY ZenonT(60), <3>3, <3>7 DEF Keeps, Has
    <3>9. Keeps(in, s)
      BY ZenonT(60), <3>4, <3>8, LexicalKeeps
    <3>10. Has(s)
      BY ZenonT(60), <3>9 DEF Keeps, Has
    <3>11. Keeps(in, st')
      BY SMTT(60), <3>6, <3>9, <3>10, LexicalKeeps, KeepsTrans
    <3>12. st.depth < MaxCallDepth
      <4>1. ~(st.depth >= MaxCallDepth)
        BY ZenonT(60), <2>2 DEF CallRefused
      <4>2. st.depth \in Nat
        BY SMTT(60), <1>2, NumberType DEF Inv, Matched, Framed
      <4> QED BY SMTT(60), <4>1, <4>2, DepthAssumption
    <3>13. "f" \in DOMAIN frame /\ frame.f = "call"
      BY Zenon, <3>2
    <3>14. "f" \in DOMAIN b /\ b.f \in Plain
      BY Zenon, <3>5 DEF StepsFrame, Plain
    <3>15. Inv(Front(control), st)
      BY Zenon, <1>2, <2>0, DropPlain
    <3>16. Inv(Append(Front(control), frame), in)
      BY Zenon, <3>8, <3>12, <3>13, <3>15, PushCall DEF Has
    <3>17. Inv(Append(Append(Front(control), frame), b), in)
      BY ZenonT(60), <3>14, <3>16, PushPlain
    <3>18. Inv(control', in)
      <4>1. PICK c : c = Front(control) /\ IsSeq(c)
        BY Zenon, <1>2
      <4>2. c \o <<frame, b>> = Append(Append(c, frame), b) /\ c \o <<frame>> = Append(c, frame)
        BY SMTT(60), <4>1, Pushed
      <4> QED BY ZenonT(60), <3>6, <3>16, <3>17, <4>1, <4>2
    <3>19. Inv(control', st')
      BY Zenon, <3>11, <3>18, InvKeeps
    <3>20. Stable(st, st')
      BY Zenon, <3>8, <3>11, SameStores DEF Keeps
    <3> QED BY Zenon, <3>19, <3>20 DEF EngineInv
  <2> QED BY ZenonT(60), <2>1, <2>2
<1>4. CASE CallReturns
  <2>1. PICK s : s = [PopScope(st) EXCEPT !.depth = @ - 1, !.mstack = Front(@)]
    BY Zenon
  <2>2. PICK x, r : Bind(s, x, r)
    BY Zenon, <1>4, <2>1 DEF CallReturns
  <2>3. Keeps(st, PopScope(st))
    BY ZenonT(60), <1>2, LexicalKeeps
  <2>4. /\ Has(s) /\ s.depth = st.depth - 1 /\ s.mstack = Front(st.mstack)
        /\ s.istack = st.istack /\ s.isolated = st.isolated /\ s.modules = st.modules
    BY ZenonT(60), <2>1, <2>3 DEF Keeps, Has
  <2>5. control' = Front(control) /\ Keeps(s, st')
    BY ZenonT(60), <2>2, <2>4, BindStep
  <2>6. Last(control).f = "call"
    BY ZenonT(60), <1>2, <1>4 DEF CallReturns, Returned
  <2>7. Inv(Front(control), s)
    BY ZenonT(60), <1>2, <2>4, <2>6, DropCall DEF Has
  <2>8. Inv(Front(control), st')
    BY ZenonT(60), <2>5, <2>7, InvKeeps
  <2>9. Stable(st, st')
    BY ZenonT(60), <2>4, <2>5, SameStores DEF Keeps
  <2> QED BY Zenon, <2>5, <2>8, <2>9 DEF EngineInv
<1> QED BY Zenon, <1>3, <1>4


-----------------------------------------------------------------------------
(* Imports and harvests *)

\* A stack that grew by one element, without it.
LEMMA FrontAppend ==
    ASSUME NEW s, IsSeq(s), NEW x PROVE Front(Append(s, x)) = s
<1>1. /\ IsSeq(Append(s, x)) /\ Len(Append(s, x)) = Len(s) + 1 /\ Len(s) \in Nat
      /\ \A i \in 1..Len(s) : Append(s, x)[i] = s[i]
  BY SMTT(60), StackAppend
<1>2. PICK u : u = Append(s, x)
  BY ZenonT(60)
<1>3. PICK v, n : v = Front(u) /\ n = Len(s)
  BY ZenonT(60)
<1>4. IsSeq(u) /\ Len(u) = n + 1 /\ n \in Nat /\ \A i \in 1..n : u[i] = s[i]
  BY Zenon, <1>1, <1>2, <1>3
<1>5. IsSeq(v) /\ Len(v) = Len(u) - 1 /\ \A i \in 1..(Len(u) - 1) : v[i] = u[i]
  <2>1. Len(u) # 0
    BY SMTT(60), <1>4
  <2> QED BY <1>3, <1>4, <2>1, StackFront, ZenonT(60)
<1>6. IsSeq(v) /\ Len(v) = n /\ \A i \in 1..n : v[i] = s[i]
  BY SMTT(60), <1>4, <1>5
<1>7. PICK S, T : s \in Seq(S) /\ v \in Seq(T)
  BY ZenonT(60), <1>6 DEF IsSeq
<1>8. s \in Seq(S \cup T) /\ v \in Seq(S \cup T)
  BY SMTT(60), <1>7
<1> QED BY ZenonT(60), <1>2, <1>3, <1>6, <1>8, SeqEqual

\* The frame on top is replaced by one of its kind that loads the same file.
LEMMA ReplaceTop ==
    ASSUME NEW c, NEW s, Inv(c, s), Len(c) # 0, NEW x, "f" \in DOMAIN x, x.f = Last(c).f,
           x.f \in {"import", "harvest"} => "file" \in DOMAIN x /\ x.file = Last(c).file
    PROVE  Inv(Append(Front(c), x), s)
<1>1. Framed(c) /\ IsSeq(c)
  BY ZenonT(60) DEF Inv, Framed
<1>2. /\ Framed(Front(c)) /\ IsSeq(Front(c)) /\ Len(Front(c)) = Len(c) - 1
      /\ Len(c) \in Nat \ {0} /\ Last(c) = c[Len(c)]
      /\ \A i \in 1..(Len(c) - 1) : Front(c)[i] = c[i]
  BY ZenonT(60), <1>1, FramedFront, StackFront
<1>3. PICK d : d = Append(Front(c), x)
  BY ZenonT(60)
<1>4. Framed(d)
  BY ZenonT(60), <1>2, <1>3, FramedAppend
<1>5. /\ Len(d) = Len(c) /\ \A i \in 1..(Len(c) - 1) : d[i] = c[i]
      /\ d[Len(c)] = x
  <2>1. /\ Len(d) = Len(Front(c)) + 1
        /\ \A i \in 1..Len(Front(c)) : d[i] = Front(c)[i]
        /\ d[Len(Front(c)) + 1] = x
    BY SMTT(60), <1>2, <1>3, StackAppend
  <2> QED BY SMTT(60), <1>2, <2>1
<1>6. \A i \in 1..Len(c) : c[i].f \in {"import", "harvest"} => "file" \in DOMAIN c[i]
  BY Zenon DEF Inv, Loading
<1>7. ASSUME NEW i \in 1..Len(c)
      PROVE  /\ d[i].f = c[i].f
             /\ c[i].f \in {"import", "harvest"} => "file" \in DOMAIN d[i] /\ d[i].file = c[i].file
  <2>1. CASE i = Len(c)
    BY Zenon, <1>2, <1>5, <2>1
  <2>2. CASE i \in 1..(Len(c) - 1)
    BY ZenonT(60), <1>5, <1>6, <2>2
  <2> QED BY SMTT(60), <1>2, <2>1, <2>2
<1>8. Inv(d, s)
  BY ZenonT(60), <1>4, <1>5, <1>7, Repaint
<1> QED BY ZenonT(60), <1>3, <1>8

\* A file that a finished import initialises had no store before, and the
\* other stores stay.
LEMMA InitialisedIs ==
    ASSUME NEW s, Has(s), Stores(s), NEW fl, fl \notin DOMAIN s.modules, NEW before, NEW val,
           NEW t, t = Initialised(s, fl, before, val)
    PROVE  /\ Has(t) /\ t.depth = s.depth /\ t.mstack = s.mstack /\ t.istack = s.istack
           /\ t.isolated = s.isolated /\ Stores(t) /\ Stable(s, t)
           /\ DOMAIN t.modules = DOMAIN s.modules \cup {fl}
<1>1. PICK store : store = [vars |-> Last(s.scopes).vars, ret |-> val,
                            envs |-> ModuleEnv(before, s.ctx.envs)]
  BY ZenonT(60)
<1>2. PICK ms : ms = [f \in DOMAIN s.modules \cup {fl} |->
                        IF f = fl THEN store ELSE s.modules[f]]
  BY ZenonT(60)
<1>3. PICK sc : sc = [s.scopes EXCEPT ![Len(s.scopes)].vars = NoVars]
  BY ZenonT(60)
<1>4. t = [s EXCEPT !.modules = ms, !.scopes = sc]
  BY ZenonT(60), <1>1, <1>2, <1>3 DEF Initialised
<1>5. /\ Has(t) /\ t.depth = s.depth /\ t.mstack = s.mstack /\ t.istack = s.istack
      /\ t.isolated = s.isolated /\ t.modules = ms
  BY ZenonT(60), <1>4 DEF Has
<1>6. /\ DOMAIN ms = DOMAIN s.modules \cup {fl} /\ ms[fl] = store
      /\ \A m \in DOMAIN s.modules : ms[m] = s.modules[m]
  BY ZenonT(60), <1>2
<1>7. {"vars", "ret", "envs"} \subseteq DOMAIN store
  BY ZenonT(60), <1>1
<1>8. Stores(t)
  BY ZenonT(60), <1>5, <1>6, <1>7 DEF Stores
<1>9. Stable(s, t)
  BY ZenonT(60), <1>5, <1>6 DEF Stable
<1> QED BY ZenonT(60), <1>5, <1>6, <1>8, <1>9

\* An import of a file that has a store only binds its value; of any other,
\* it puts the file on the chain and runs it.
LEMMA ImportStep ==
    ASSUME EngineInv, ImportFile PROVE EngineInv' /\ Stable(st, st')
<1>1. control # <<>> /\ Top.f \in Plain
  BY ZenonT(60) DEF ImportFile, Command, Running, Plain
<1>2. /\ Inv(control, st) /\ Has(st) /\ Len(control) # 0 /\ Top = Last(control)
      /\ IsSeq(Front(control))
  BY ZenonT(60), <1>1, TopIs
<1>3. PICK fl : fl = Top.cmd.file
  BY ZenonT(60)
<1>4. CASE LoadRefused(st, fl)
  <2>1. Finish(st, Failed) /\ Keeps(st, st)
    BY ZenonT(60), <1>2, <1>3, <1>4, LexicalKeeps DEF ImportFile
  <2> QED BY ZenonT(60), <1>1, <2>1, PlainFinish
<1>5. CASE ~LoadRefused(st, fl)
  <2>1. PICK s : s = RegisterViews(EnterAliasFrame(st), fl, Top.cmd.alias)
    BY ZenonT(60)
  <2>2. Keeps(st, s) /\ Has(s)
    BY SMTT(60), <1>2, <2>1, ViewsKeep DEF Keeps, Has
  <2>3. Inv(Front(control), st)
    BY Zenon, <1>1, <1>2, DropPlain
  <2>4. CASE fl \in DOMAIN s.modules
    <3>1. PICK x, r : Bind(s, x, r)
      BY Zenon, <1>3, <1>5, <2>1, <2>4 DEF ImportFile
    <3>2. control' = Front(control) /\ Keeps(s, st')
      BY Zenon, <2>2, <3>1, BindStep
    <3>3. Keeps(st, st')
      BY Zenon, <2>2, <3>2, KeepsTrans
    <3>4. Inv(Front(control), st')
      BY ZenonT(60), <2>3, <3>3, InvKeeps
    <3>5. Stable(st, st')
      BY ZenonT(60), <3>3, SameStores DEF Keeps
    <3> QED BY Zenon, <3>2, <3>4, <3>5 DEF EngineInv
  <2>5. CASE fl \notin DOMAIN s.modules
    <3>1. PICK t : t = [PushScope(s) EXCEPT !.istack = Append(@, fl), !.mstack = Append(@, fl)]
      BY ZenonT(60)
    <3>2. PICK x : x = [f |-> "import", file |-> fl, bind |-> Top.cmd.bind,
                        before |-> s.ctx.envs, at |-> Mark(s)]
      BY ZenonT(60)
    <3>3. PICK b : b = StepsFrame(fl)
      BY ZenonT(60)
    <3>4. st' = t /\ control' = Front(control) \o <<x, b>>
      BY ZenonT(60), <1>3, <1>5, <2>1, <2>5, <3>1, <3>2, <3>3 DEF ImportFile,
         Enter
    <3>5. Keeps(s, PushScope(s))
      BY ZenonT(60), <2>2, LexicalKeeps
    <3>6. /\ Has(t) /\ t.depth = st.depth /\ t.mstack = Append(st.mstack, fl)
          /\ t.istack = Append(st.istack, fl) /\ t.isolated = st.isolated /\ t.modules = st.modules
      BY ZenonT(60), <2>2, <3>1, <3>5 DEF Keeps, Has
    <3>7. {"f", "file"} \subseteq DOMAIN x /\ x.f = "import" /\ x.file = fl
      BY ZenonT(60), <3>2
    <3>8. "f" \in DOMAIN b /\ b.f \in Plain
      BY ZenonT(60), <3>3 DEF StepsFrame, Plain
    <3>9. fl \notin Range(st.istack) /\ Len(st.istack) < MaxImportDepth
      <4>1. fl \notin Range(st.istack) /\ ~(Len(st.istack) >= MaxImportDepth)
        BY ZenonT(60), <1>5 DEF LoadRefused
      <4>2. Len(st.istack) \in Nat
        BY SMTT(60), <1>2 DEF Inv, Matched, IsSeq
      <4> QED BY SMTT(60), <4>1, <4>2, DepthAssumption
    <3>10. fl \notin DOMAIN st.modules
      BY Zenon, <2>2, <2>5 DEF Keeps
    <3>11. Inv(Append(Front(control), x), t)
      BY Zenon, <2>3, <3>6, <3>7, <3>9, <3>10, PushLoad DEF Has
    <3>12. Inv(Append(Append(Front(control), x), b), t)
      BY Zenon, <3>8, <3>11, PushPlain
    <3>13. Inv(control', t)
      <4>1. PICK c : c = Front(control) /\ IsSeq(c)
        BY ZenonT(60), <1>2
      <4>2. c \o <<x, b>> = Append(Append(c, x), b)
        BY SMTT(60), <4>1, Pushed
      <4> QED BY ZenonT(60), <3>4, <3>12, <4>1, <4>2
    <3>14. Stable(st, t)
      BY Zenon, <3>6, SameStores
    <3> QED BY ZenonT(60), <3>4, <3>13, <3>14 DEF EngineInv
  <2> QED BY ZenonT(60), <2>4, <2>5
<1> QED BY ZenonT(60), <1>4, <1>5


\* An import ends: its file leaves the chain, with a store if its body did
\* not fail.
LEMMA ImportReturnsStep ==
    ASSUME EngineInv, ImportReturns PROVE EngineInv' /\ Stable(st, st')
<1>1. control # <<>> /\ Top.f = "import"
  BY Zenon DEF ImportReturns, Returned
<1>2. /\ Inv(control, st) /\ Has(st) /\ Len(control) # 0 /\ Top = Last(control)
      /\ IsSeq(control)
  BY Zenon, <1>1, TopIs
<1>3. Len(control) \in 1..Len(control) /\ Last(control) = control[Len(control)]
  BY SMTT(60), <1>2, StackFront
<1>4. Top.file \notin DOMAIN st.modules
  BY ZenonT(60), <1>1, <1>2, <1>3 DEF Inv, Loading
<1>5. PICK s : s = IF BoundaryValue(result).flow = "Value"
                   THEN Initialised(st, Top.file, Top.before, BoundaryValue(result).val) ELSE st
  BY ZenonT(60)
<1>6. PICK fl : fl = Top.file
  BY ZenonT(60)
<1>7. /\ Has(s) /\ s.depth = st.depth /\ s.mstack = st.mstack /\ s.istack = st.istack
      /\ s.isolated = st.isolated /\ Stores(s) /\ Stable(st, s)
      /\ DOMAIN s.modules \subseteq DOMAIN st.modules \cup {fl}
  <2>1. Stores(st)
    BY ZenonT(60), <1>2 DEF Inv
  <2>2. CASE BoundaryValue(result).flow = "Value"
    <3>1. s = Initialised(st, fl, Top.before, BoundaryValue(result).val)
      BY Zenon, <1>5, <1>6, <2>2
    <3> QED BY SMTT(60), <1>2, <1>4, <1>6, <2>1, <3>1, InitialisedIs
  <2>3. CASE BoundaryValue(result).flow # "Value"
    <3>1. s = st
      BY ZenonT(60), <1>5, <2>3
    <3> QED BY Zenon, <1>2, <2>1, <3>1, SameStores
  <2> QED BY ZenonT(60), <2>2, <2>3
<1>8. PICK u : u = [PopScope(s) EXCEPT !.mstack = Front(@)]
  BY ZenonT(60)
<1>9. PICK t : t = PopImport(u)
  BY Zenon
<1>10. PICK r : Bind(t, Top.bind, r)
  BY ZenonT(60), <1>5, <1>8, <1>9 DEF ImportReturns
<1>11. Keeps(s, PopScope(s))
  BY ZenonT(60), <1>7, LexicalKeeps
<1>12. /\ Has(u) /\ u.depth = st.depth /\ u.mstack = Front(st.mstack) /\ u.istack = st.istack
       /\ u.isolated = st.isolated /\ u.modules = s.modules
  BY ZenonT(60), <1>7, <1>8, <1>11 DEF Keeps, Has
<1>13. /\ Has(t) /\ t.depth = st.depth /\ t.mstack = Front(st.mstack)
       /\ t.istack = Front(st.istack) /\ t.isolated = st.isolated /\ t.modules = s.modules
  BY ZenonT(60), <1>9, <1>12 DEF PopImport, Has
<1>14. control' = Front(control) /\ Keeps(t, st')
  BY ZenonT(60), <1>10, <1>13, BindStep
<1>15. Stores(t)
  BY ZenonT(60), <1>7, <1>13 DEF Stores
<1>16. Inv(Front(control), t)
  BY ZenonT(60), <1>1, <1>2, <1>6, <1>7, <1>13, <1>15, DropLoad DEF Has
<1>17. Inv(Front(control), st')
  BY ZenonT(60), <1>14, <1>16, InvKeeps
<1>18. st'.modules = s.modules
  BY ZenonT(60), <1>13, <1>14 DEF Keeps
<1>19. Stable(st, st')
  BY ZenonT(60), <1>7, <1>18 DEF Stable
<1> QED BY Zenon, <1>14, <1>17, <1>19 DEF EngineInv

\* A harvest takes its file on the chain for as long as its frame is there,
\* and never runs it.
LEMMA HarvestStep ==
    ASSUME EngineInv, ImportFuncs PROVE EngineInv' /\ Stable(st, st')
<1>1. control # <<>> /\ Top.f \in Plain
  BY ZenonT(60) DEF ImportFuncs, Command, Running, Plain
<1>2. /\ Inv(control, st) /\ Has(st) /\ Len(control) # 0 /\ Top = Last(control)
      /\ IsSeq(Front(control)) /\ IsSeq(st.istack)
  BY ZenonT(60), <1>1, TopIs DEF Inv, Matched
<1>3. PICK fl : fl = Top.cmd.file
  BY Zenon
<1>4. PICK load : load = [EnterAliasFrame(st) EXCEPT !.istack = Append(@, fl)]
  BY ZenonT(60)
<1>5. PICK l, s : l = Harvested(load, Top.cmd).l /\ s = WithLexical(load, l)
  BY ZenonT(60)
<1>6. PICK x : x = [f |-> "harvest", file |-> fl, i |-> 1]
  BY ZenonT(60)
<1>7. \/ Finish(st, Failed)
      \/ ~LoadRefused(st, fl) /\ Enter(s, <<x>>)
      \/ Finish(PopImport(s), Failed)
  BY ZenonT(60), <1>3, <1>4, <1>5, <1>6 DEF ImportFuncs
<1>8. Keeps(st, EnterAliasFrame(st)) /\ Keeps(st, st)
  BY ZenonT(60), <1>2, LexicalKeeps
<1>9. /\ Has(load) /\ load.depth = st.depth /\ load.mstack = st.mstack
      /\ load.istack = Append(st.istack, fl) /\ load.isolated = st.isolated
      /\ load.modules = st.modules
  BY ZenonT(60), <1>4, <1>8 DEF Keeps, Has
<1>10. Keeps(load, s)
  BY ZenonT(60), <1>5, <1>9, LexicalKeeps
<1>11. /\ Has(s) /\ s.depth = st.depth /\ s.mstack = st.mstack
       /\ s.istack = Append(st.istack, fl) /\ s.isolated = st.isolated
       /\ s.modules = st.modules
  BY ZenonT(60), <1>9, <1>10 DEF Keeps, Has
<1>12. CASE Finish(st, Failed)
  BY ZenonT(60), <1>1, <1>8, <1>12, PlainFinish
<1>13. CASE Finish(PopImport(s), Failed)
  <2>1. Front(Append(st.istack, fl)) = st.istack
    BY ZenonT(60), <1>2, FrontAppend
  <2>2. PICK t : t = PopImport(s)
    BY Zenon
  <2>3. Keeps(st, t)
    BY ZenonT(60), <1>11, <2>1, <2>2 DEF PopImport, Keeps, Has
  <2> QED BY ZenonT(60), <1>1, <1>13, <2>2, <2>3, PlainFinish
<1>14. CASE ~LoadRefused(st, fl) /\ Enter(s, <<x>>)
  <2>1. {"f", "file"} \subseteq DOMAIN x /\ x.f = "harvest" /\ x.file = fl
    BY ZenonT(60), <1>6
  <2>2. fl \notin Range(st.istack) /\ Len(st.istack) < MaxImportDepth
    <3>1. fl \notin Range(st.istack) /\ ~(Len(st.istack) >= MaxImportDepth)
      BY ZenonT(60), <1>14 DEF LoadRefused
    <3>2. Len(st.istack) \in Nat
      BY SMTT(60), <1>2 DEF IsSeq
    <3> QED BY <3>1, <3>2, DepthAssumption
  <2>3. Inv(Front(control), st)
    BY ZenonT(60), <1>1, <1>2, DropPlain
  <2>4. Inv(Append(Front(control), x), s)
    BY ZenonT(60), <1>11, <2>1, <2>2, <2>3, PushLoad DEF Has
  <2>5. control' = Append(Front(control), x) /\ st' = s
    BY ZenonT(60), <1>2, <1>14, Pushed DEF Enter
  <2>6. Stable(st, s)
    BY ZenonT(60), <1>11, SameStores
  <2> QED BY ZenonT(60), <2>4, <2>5, <2>6 DEF EngineInv
<1> QED BY ZenonT(60), <1>7, <1>12, <1>13, <1>14

\* A harvest visits the file's own imports, and leaves the chain after them.
LEMMA HarvestGoesOn ==
    ASSUME EngineInv, HarvestNext \/ HarvestContinues \/ HarvestReturns
    PROVE  EngineInv' /\ Stable(st, st')
<1>1. control # <<>> /\ Top.f = "harvest"
  BY ZenonT(60) DEF HarvestNext, HarvestContinues, HarvestReturns, Running,
     Returned
<1>2. /\ Inv(control, st) /\ Has(st) /\ Len(control) # 0 /\ Top = Last(control)
      /\ IsSeq(control) /\ IsSeq(Front(control)) /\ "f" \in DOMAIN Top
  BY ZenonT(60), <1>1, TopIs
<1>3. "file" \in DOMAIN Top
  <2>1. Len(control) \in 1..Len(control) /\ Last(control) = control[Len(control)]
    BY SMTT(60), <1>2, StackFront
  <2> QED BY ZenonT(60), <1>1, <1>2, <2>1 DEF Inv, Loading
<1>4. CASE HarvestNext \/ HarvestContinues
  <2>1. PICK x, b : /\ st' = st
                    /\ \/ control' = Front(control) \o <<x>>
                       \/ control' = Front(control) \o <<x, b>>
                    /\ "f" \in DOMAIN x /\ x.f = "harvest"
                    /\ "file" \in DOMAIN x /\ x.file = Top.file
                    /\ "f" \in DOMAIN b /\ b.f \in Plain
    <3>1. PICK x : x = [Top EXCEPT !.i = @ + 1]
      BY ZenonT(60)
    <3>2. PICK b : b = CmdFrame([Script(Top.file)[Top.i] EXCEPT !.bind = None])
      BY ZenonT(60)
    <3>3. "f" \in DOMAIN b /\ b.f \in Plain
      BY ZenonT(60), <3>2 DEF CmdFrame, Plain
    <3>4. "f" \in DOMAIN x /\ x.f = "harvest" /\ "file" \in DOMAIN x /\ x.file = Top.file
      BY ZenonT(60), <1>1, <1>2, <1>3, <3>1
    <3>5. CASE HarvestNext
      <4>1. /\ st' = st
            /\ control' = Front(control) \o <<x>> \/ control' = Front(control) \o <<x, b>>
        BY ZenonT(60), <3>1, <3>2, <3>5 DEF HarvestNext, Enter
      <4> QED BY ZenonT(60), <3>3, <3>4, <4>1
    <3>6. CASE HarvestContinues
      <4>1. st' = st /\ control' = Front(control) \o <<Top>>
        BY ZenonT(60), <3>6 DEF HarvestContinues, Enter
      <4> QED BY ZenonT(60), <1>1, <1>2, <1>3, <3>3, <4>1
    <3> QED BY ZenonT(60), <1>4, <3>5, <3>6
  <2>2. Inv(Append(Front(control), x), st)
    BY ZenonT(60), <1>1, <1>2, <2>1, ReplaceTop
  <2>3. Inv(Append(Append(Front(control), x), b), st)
    BY ZenonT(60), <2>1, <2>2, PushPlain
  <2>4. Inv(control', st)
    <3>1. PICK c : c = Front(control) /\ IsSeq(c)
      BY ZenonT(60), <1>2
    <3>2. c \o <<x, b>> = Append(Append(c, x), b) /\ c \o <<x>> = Append(c, x)
      BY SMTT(60), <3>1, Pushed
    <3> QED BY ZenonT(60), <2>1, <2>2, <2>3, <3>1, <3>2
  <2>5. Stable(st, st')
    BY Zenon, <2>1, SameStores
  <2> QED BY ZenonT(60), <2>1, <2>4, <2>5 DEF EngineInv
<1>5. CASE HarvestReturns
  <2>1. PICK t : t = PopImport(st)
    BY Zenon
  <2>2. control' = Front(control) /\ st' = t
    BY Zenon, <1>5, <2>1 DEF HarvestReturns, Finish
  <2>3. /\ Has(t) /\ t.depth = st.depth /\ t.mstack = st.mstack /\ t.istack = Front(st.istack)
        /\ t.isolated = st.isolated /\ t.modules = st.modules
    BY Zenon, <1>2, <2>1 DEF PopImport, Has
  <2>4. Stores(t)
    BY ZenonT(60), <1>2, <2>3 DEF Inv, Stores
  <2>5. Inv(Front(control), t)
    BY ZenonT(60), <1>1, <1>2, <2>3, <2>4, DropLoad DEF Has
  <2>6. Stable(st, t)
    BY ZenonT(60), <2>3, SameStores
  <2> QED BY Zenon, <2>2, <2>5, <2>6 DEF EngineInv
<1> QED BY ZenonT(60), <1>4, <1>5


-----------------------------------------------------------------------------
(* The interpreter *)

\* A session that is idle starts a tool call on the state it has.
LEMMA SessionStep ==
    ASSUME EngineInv, SessionCall PROVE EngineInv' /\ Stable(st, st')
<1>1. PICK x : /\ control = <<>> /\ st' = st /\ control' = <<x>>
               /\ "f" \in DOMAIN x /\ x.f \in Plain
  <2>1. PICK tool : control' = <<CmdFrame([k |-> "CALL", fn |-> tool, arg |-> None,
                                           bind |-> None])>>
    BY ZenonT(60) DEF SessionCall
  <2>2. PICK x : x = CmdFrame([k |-> "CALL", fn |-> tool, arg |-> None, bind |-> None])
    BY ZenonT(60)
  <2>3. "f" \in DOMAIN x /\ x.f \in Plain
    BY ZenonT(60), <2>2 DEF CmdFrame, Plain
  <2>4. control = <<>> /\ st' = st
    BY ZenonT(60) DEF SessionCall
  <2> QED BY ZenonT(60), <2>1, <2>2, <2>3, <2>4
<1>2. Inv(<<>>, st)
  BY ZenonT(60), <1>1 DEF EngineInv
<1>3. Inv(Append(<<>>, x), st)
  BY ZenonT(60), <1>1, <1>2, PushPlain
<1>4. Append(<<>>, x) = <<x>>
  BY SMTT(60)
<1>5. Stable(st, st')
  BY ZenonT(60), <1>1, SameStores
<1> QED BY ZenonT(60), <1>1, <1>3, <1>4, <1>5 DEF EngineInv

\* A run starts with nothing counted and nothing loaded.
LEMMA StartsCounted ==
    Init => EngineInv
<1> SUFFICES ASSUME Init PROVE EngineInv
  BY ZenonT(60)
<1> DEFINE e == <<>>
<1>1. IsSeq(e) /\ Len(e) = 0
  BY SMTT(60) DEF IsSeq
<1>2. \A K : Number(e, K) = 0
  <2> SUFFICES ASSUME NEW K PROVE Number(e, K) = 0
    BY ZenonT(60)
  <2>1. Kinds(e, K) = {}
    BY SMTT(60), <1>1 DEF Kinds
  <2> QED BY ZenonT(60), <1>1, <2>1, NumberType
<1>3. PICK s : s = InitialState
  BY ZenonT(60)
<1>4. /\ {"depth", "mstack", "istack", "isolated", "modules"} \subseteq DOMAIN s
      /\ s.depth = 0 /\ s.mstack = e /\ s.istack = e /\ s.isolated = e /\ s.modules = e
  BY ZenonT(60), <1>3 DEF InitialState, NoVars
<1> HIDE DEF e
<1>5. Framed(e)
  BY SMTT(60), <1>1 DEF Framed
<1>6. Matched(e, s)
  BY SMTT(60), <1>1, <1>2, <1>4, DepthAssumption DEF Matched
<1>7. Loading(e, s)
  BY SMTT(60), <1>1, <1>4 DEF Loading
<1>8. Stores(s)
  <2>1. DOMAIN e = {}
    BY SMTT(60) DEF e
  <2> QED BY ZenonT(60), <1>4, <2>1 DEF Stores
<1>9. Inv(e, s)
  BY ZenonT(60), <1>5, <1>6, <1>7, <1>8 DEF Inv
<1>10. \E x : /\ control = e \/ control = <<x>>
              /\ "f" \in DOMAIN x /\ x.f \in Plain
  <2>1. PICK p : control = e \/ control = <<StepsFrame(p)>>
    BY ZenonT(60) DEF Init, e
  <2>2. PICK x : x = StepsFrame(p)
    BY ZenonT(60)
  <2>3. "f" \in DOMAIN x /\ x.f \in Plain
    BY ZenonT(60), <2>2 DEF StepsFrame, Plain
  <2> QED BY ZenonT(60), <2>1, <2>2, <2>3
<1>11. PICK x : /\ control = e \/ control = <<x>>
                /\ "f" \in DOMAIN x /\ x.f \in Plain
  BY ZenonT(60), <1>10
<1>12. Inv(Append(e, x), s)
  BY ZenonT(60), <1>9, <1>11, PushPlain
<1>13. Append(e, x) = <<x>>
  BY SMTT(60) DEF e
<1>14. st = s
  BY ZenonT(60), <1>3 DEF Init
<1> QED BY ZenonT(60), <1>9, <1>11, <1>12, <1>13, <1>14 DEF EngineInv

\* Every step keeps the invariant and the stores.
LEMMA EveryStep ==
    EngineInv /\ [Next]_vars => EngineInv' /\ Stable(st, st')
<1> SUFFICES ASSUME EngineInv, [Next]_vars PROVE EngineInv' /\ Stable(st, st')
  BY ZenonT(60)
<1>1. CASE Interpret
  <2>1. CASE StepCancelled \/ BeginStep \/ FinishStep \/ EndBody
    BY ZenonT(60), <2>1, LoopStep
  <2>2. CASE Leaf
    BY ZenonT(60), <2>2, LeafStep
  <2>3. CASE Compound
    BY ZenonT(60), <2>3, EnterStep, IterateStep, ReturnStep, IsolatedStep,
       CallStep, ImportStep, HarvestStep,
       HarvestGoesOn DEF Compound
  <2>4. CASE Return
    BY ZenonT(60), <2>4, ReturnStep, IsolatedStep, CallStep, ImportReturnsStep,
       HarvestGoesOn DEF Return
  <2> QED BY ZenonT(60), <1>1, <2>1, <2>2, <2>3, <2>4 DEF Interpret
<1>2. CASE DeadlineFires
  BY Zenon, <1>2, DeadlineStep
<1>3. CASE SessionCall
  BY Zenon, <1>3, SessionStep
<1>4. CASE Finished \/ UNCHANGED vars
  <2>1. st' = st /\ control' = control
    BY Zenon, <1>4 DEF Finished, vars
  <2>2. Stable(st, st')
    BY Zenon, <2>1, SameStores
  <2> QED BY ZenonT(60), <2>1, <2>2 DEF EngineInv, Inv, Framed, Matched,
             Loading, Stores, Number, Kinds, Rank
<1> QED BY ZenonT(60), <1>1, <1>2, <1>3, <1>4 DEF Next

\* The counters and stacks that the handlers push and pop by hand are, in
\* every reachable state of every script, those of the active frames.
THEOREM EngineIsCounted ==
    Spec => []EngineInv
<1>1. Init => EngineInv
  BY ZenonT(60), StartsCounted
<1>2. EngineInv /\ [Next]_vars => EngineInv'
  BY ZenonT(60), EveryStep
<1> QED BY <1>1, <1>2, PTL DEF Spec

\* The call depth, the module stack, the import chain and the ISOLATED
\* snapshots agree with the constructs that are active, on every path out of
\* them, and recursion and import chains stay in their budgets: for every
\* set of scripts, not only the ones the runs generate.
THEOREM DepthsAlwaysMatch ==
    Spec => []DepthsMatchFrames
<1>1. EngineInv => DepthsMatchFrames
  <2> SUFFICES ASSUME EngineInv PROVE DepthsMatchFrames
    BY ZenonT(60)
  <2>1. Matched(control, st)
    BY ZenonT(60) DEF EngineInv, Inv
  <2>2. \A K : Count(K) = Number(control, K)
    BY ZenonT(60) DEF Count, Number, Kinds
  <2> QED BY ZenonT(60), <2>1, <2>2 DEF DepthsMatchFrames, Matched
<1> QED BY <1>1, EngineIsCounted, PTL

\* No file is on the import chain twice, and no import frame is about a file
\* that has a store: every file is initialised at most once, whatever the
\* order of imports and harvests.
THEOREM FilesRunOnce ==
    Spec => []InitialisedOnce
<1>1. EngineInv => InitialisedOnce
  BY ZenonT(60) DEF EngineInv, Inv, Loading, InitialisedOnce
<1> QED BY <1>1, EngineIsCounted, PTL

\* Once a module is initialised no step changes its RETURN value, the
\* environment its calls start from or the set of its bindings, and only its
\* own code changes a binding.
THEOREM StoresAreStable ==
    Spec => StoreIsStable
<1>1. EngineInv /\ [Next]_vars =>
        [ \A m \in DOMAIN st.modules :
            /\ m \in DOMAIN st'.modules
            /\ st'.modules[m].ret = st.modules[m].ret
            /\ st'.modules[m].envs = st.modules[m].envs
            /\ DOMAIN st'.modules[m].vars = DOMAIN st.modules[m].vars
            /\ st'.modules[m].vars # st.modules[m].vars => CurrentModule(st) = m ]_vars
  BY ZenonT(60), EveryStep DEF Stable
<1> QED BY <1>1, EngineIsCounted, PTL DEF Spec, StoreIsStable
=============================================================================

------------------------- MODULE TaskRegistryProofs -------------------------
(***************************************************************************)
(* Theorems about TaskRegistry for any number of tasks and any caps: who   *)
(* owns a worker's join handle, what its teardown guarantees, that the     *)
(* count of live tasks is exact, and that a root flow which ends well      *)
(* leaves no task running.                                                 *)
(***************************************************************************)
EXTENDS TaskInvariant, FiniteSetTheorems, WellFoundedInduction, NaturalsInduction

\* Taking, killing and joining keeps one owner per handle, and the parents
\* in charge of their bg_children.
LEMMA OwnershipStep ==
    TypeOK /\ ArgInv /\ FreshInv /\ EntryInv /\ Ownership /\ [Next]_vars => Ownership'
<1> SUFFICES ASSUME TypeOK, ArgInv, FreshInv, EntryInv, Ownership, [Next]_vars PROVE Ownership'
  BY ZenonT(60)
<1> USE BoundsAreNat DEF Task, Thread, Root, None
<1>o. HeldInv /\ OwnerInv /\ ChildInv /\ NoOrphans
  BY ZenonT(60) DEF Ownership
<1>a. \A u \in Task : StableEntry(u)
  BY ZenonT(60), EntryStable DEF EntriesStable
<1>b. EntriesStable /\ FinishedStays
  BY ZenonT(60), EntryStable, FinishedStable
<1>c. TypeOK'
  BY ZenonT(60), TypeStep
<1>1. CASE (\E p \in Thread : Fails(p) \/ Moves(p)) \/ Requests
  BY ZenonT(60), <1>1, RequestStep
<1>13. ASSUME NEW p \in Thread, NEW t \in Task, KillSignals(p, t) PROVE Ownership'
  <2>1. \A q \in Thread : q # p => Bystander(q)
    BY ZenonT(60), <1>13 DEF KillSignals, Bystander, scopeVars, TypeOK
  <2>2. \A q \in Thread : q # p => KeepsClaims(q)
    <3>1. reaped' = reaped
      BY ZenonT(60), <1>13 DEF KillSignals, entryVars
    <3> QED
      BY ZenonT(60), <3>1 DEF KeepsClaims
  <2>e. /\ UNCHANGED <<pc, arg, bg, phase, reaped>>
        /\ held'[p] = held[p] \ {t} /\ joining'[p] = t /\ joining[p] = None
        /\ t \in held[p] /\ pc[p] \in KillPcs /\ t # None
    BY SMTT(60), <1>13 DEF KillSignals, KillPcs, entryVars, TypeOK
  <2>3. HeldOf(p)'
    <3>1. HeldOf(p)
      BY Zenon, <1>o DEF HeldInv
    <3>2. \A u \in Task : u \in held'[p] \/ u = joining'[p] => u \in held[p]
      BY Zenon, <2>e
    <3>3. t \notin held'[p] /\ held'[p] \subseteq held[p]
      BY Zenon, <2>e
    <3> HIDE DEF Task, None, Root, Thread
    <3> QED
      BY ZenonT(60), <2>e, <3>1, <3>2, <3>3 DEF HeldOf, Finished
  <2>4. Hands(p)
    <3>1. Owns(p)' = Owns(p)
      BY ZenonT(60), <2>e DEF Owns
    <3> QED
      BY ZenonT(60), <3>1, <2>e DEF Hands
  <2>a. /\ held'[p] = held[p] \ {t} /\ joining'[p] = t /\ joining[p] = None
        /\ UNCHANGED <<pc, bg, floor, failFast>>
    BY ZenonT(60), <1>13 DEF KillSignals, scopeVars, TypeOK
  <2>b. ChildOf(p) /\ bg[p] \subseteq Task
    BY ZenonT(60), <1>o DEF ChildInv, TypeOK
  <2>c. \A c \in bg[p] : c \in held[p] => c \in held'[p] \/ c = joining'[p]
    BY ZenonT(60), <2>a
  <2>d. \A c \in bg[p] : c # joining[p] /\ Finished(c)' = Finished(c)
    BY SMTT(60), <2>a, <2>b DEF Finished
  <2>5. ChildOf(p)'
    BY ZenonT(60), <2>a, <2>b, <2>c, <2>d DEF ChildOf
  <2>6. Cares(p)
    BY Zenon, <1>13, <1>o DEF KillSignals, Cares, ChildInv, ChildOf, Alive,
       Finished,
       InScope, TypeOK, entryVars
  <2> QED
    BY ZenonT(60), <2>1, <2>2, <2>3, <2>4, <2>5, <2>6, <1>b, <1>o,
       OwnershipFrame
<1>14. ASSUME NEW p \in Thread, KillJoins(p) PROVE Ownership'
  <2>1. \A q \in Thread : q # p => Bystander(q)
    BY ZenonT(60), <1>14 DEF KillJoins, Bystander, scopeVars, TypeOK
  <2>a. joining[p] \in Task /\ joining[p] \in Owns(p)
    BY ZenonT(60), <1>14 DEF KillJoins, TypeOK, Owns
  <2>b. pc[p] = "killnamed" => phase[joining[p]] = "Cancelled"
    BY ZenonT(60), <2>a, <1>o DEF HeldInv, HeldOf
  <2>c. pc[p] = "killnamed" => \A q \in Thread : joining[p] \in Owns(q) => q = p
    BY ZenonT(60), <2>a, <2>b, <1>o DEF OwnerInv
  <2>2. \A q \in Thread : q # p => KeepsClaims(q)
    BY ZenonT(60), <1>14, <2>a, <2>c DEF KillJoins, KeepsClaims, TypeOK
  <2>d. /\ held'[p] = held[p] /\ joining'[p] = None
        /\ UNCHANGED <<pc, arg, bg, floor, failFast, phase>>
    BY ZenonT(60), <1>14 DEF KillJoins, scopeVars, TypeOK
  <2>h. HeldOf(p) /\ joining[p] # None
    BY SMTT(60), <2>a, <1>o DEF HeldInv
  <2>3. HeldOf(p)'
    <3>1. pc[p] # "killnamed" => reaped' = reaped
      BY ZenonT(60), <1>14 DEF KillJoins
    <3>2. joining[p] \notin held[p] /\ held[p] \subseteq Task
      BY ZenonT(60), <2>h DEF HeldOf, TypeOK
    <3>3. \A u \in held[p] : ~reaped[u] => ~reaped'[u]
      BY ZenonT(60), <1>14, <3>2 DEF KillJoins, TypeOK
    <3>4. Finished(joining[p]) /\ pc[p] # "mark"
      BY ZenonT(60), <1>14, <2>h DEF KillJoins, HeldOf, KillPcs
    <3>5. None \notin Task
      BY SMTT(60)
    <3> HIDE DEF Task, None, Root, Thread
    <3> QED
      BY ZenonT(60), <2>d, <2>h, <3>1, <3>2, <3>3, <3>4, <3>5 DEF HeldOf, Finished
  <2>e. /\ pc[p] \in KillPcs
        /\ pc[p] \in {"killbg", "drop"} => phase[joining[p]] = "None"
        /\ pc[p] \in {"cancel", "awaitkill"} => joining[p] = arg[p]
    BY ZenonT(60), <2>h DEF HeldOf
  <2>f. pc[p] = "killnamed" => reaped'[joining[p]]
    BY ZenonT(60), <1>14, <2>a DEF KillJoins, TypeOK
  <2>g. \A u \in Task :
           /\ u \in Owns(p)' => u \in Owns(p)
           /\ u \in Owns(p) /\ u \notin Owns(p)' =>
                 u = joining[p] /\ pc[p] \notin {"cancel", "awaitkill"}
    BY ZenonT(60), <2>d, <2>e DEF Owns
  <2>4. Hands(p)
    BY ZenonT(60), <2>d, <2>e, <2>f, <2>g DEF Hands, KillPcs
  <2>i. ChildOf(p) /\ Finished(joining[p])
    BY ZenonT(60), <1>14, <1>o DEF ChildInv, KillJoins
  <2>5. ChildOf(p)'
    BY ZenonT(60), <2>d, <2>i DEF ChildOf, Finished
  <2>6. Cares(p)
    BY ZenonT(60), <2>d, <2>e DEF Cares, Alive, KillPcs
  <2> QED
    BY Zenon, <2>1, <2>2, <2>3, <2>4, <2>5, <2>6, <1>b, <1>o, OwnershipFrame
<1>15. ASSUME NEW p \in Thread, KillBgDone(p) PROVE Ownership'
  <2>1. \A q \in Thread : q # p => Bystander(q)
    BY ZenonT(60), <1>15 DEF KillBgDone, Bystander, scopeVars, TypeOK
  <2>2. \A q \in Thread : q # p => KeepsClaims(q)
    BY Zenon, <1>15 DEF KillBgDone, KeepsClaims, entryVars
  <2>3. HeldOf(p)'
    <3>1. HeldOf(p) /\ held[p] = {} /\ joining[p] = None /\ pc[p] = "killbg"
      BY Zenon, <1>15, <1>o DEF KillBgDone, HeldInv
    <3>2. /\ held'[p] = {} /\ joining'[p] = None /\ bg'[p] \subseteq bg[p]
          /\ pc'[p] \in {"mark", "torn"} /\ (pc'[p] = "mark" => p = Root)
          /\ phase' = phase
          /\ \A t \in Task : pc[t] # "idle" => pc'[t] # "idle"
      BY SMTT(60), <1>15 DEF KillBgDone, TypeOK, entryVars
    <3>3. bg[p] \subseteq Task /\ None \notin Task
      BY DEF TypeOK
    <3> HIDE DEF Task, None, Root, Thread
    <3> QED
      BY ZenonT(60), <3>1, <3>2, <3>3 DEF HeldOf
  <2>4. Hands(p)
    <3>1. Owns(p) = {} /\ Owns(p)' = {} /\ phase' = phase
      BY ZenonT(60), <1>15 DEF KillBgDone, Owns, entryVars, TypeOK
    <3> QED
      BY ZenonT(60), <3>1 DEF Hands
  <2>5. ChildOf(p)'
    BY SMTT(90), <1>15, <1>o DEF KillBgDone, ChildInv, ChildOf, InScope,
       Finished, TypeOK
  <2>6. Cares(p)
    BY SMTT(90), <1>15, <1>o DEF KillBgDone, Cares, ChildInv, ChildOf, Alive,
       Finished,
       InScope, TypeOK, entryVars
  <2> QED
    BY Zenon, <2>1, <2>2, <2>3, <2>4, <2>5, <2>6, <1>b, <1>o, OwnershipFrame
<1>16. ASSUME NEW t \in Task, Mark(t) PROVE Ownership'
  <2>0. Root \in Thread
    BY SMTT(60) DEF Root, Thread
  <2>1. \A q \in Thread : q # Root => Bystander(q)
    BY ZenonT(60), <1>16 DEF Mark, Bystander, scopeVars, TypeOK
  <2>2. \A q \in Thread : q # Root => KeepsClaims(q)
    BY ZenonT(60), <1>16 DEF Mark, KeepsClaims
  <2>3. HeldOf(Root)'
    <3>1. HeldOf(Root) /\ pc[Root] = "mark" /\ UNCHANGED <<pc, joining, bg, reaped>>
      BY Zenon, <1>16, <2>0, <1>o DEF Mark, HeldInv
    <3>2. joining[Root] = None
      BY ZenonT(60), <3>1 DEF HeldOf, KillPcs
    <3>3. \A u \in held[Root] :
             u \in Task /\ pc[u] # "idle" /\ phase[u] = "Cancelled" /\ ~reaped[u]
      BY ZenonT(60), <2>0, <3>1 DEF HeldOf, TypeOK
    <3>4. \A u \in Task : u \in held'[Root] =>
             u \in held[Root] \/ (u = t /\ phase[t] \in {"Running", "Awaiting"})
      BY ZenonT(60), <1>16, <2>0 DEF Mark, TypeOK
    <3>5. phase[t] \in {"Running", "Awaiting"} =>
             phase'[t] = "Cancelled" /\ ~reaped[t] /\ pc[t] # "idle"
      BY ZenonT(60), <1>16 DEF Mark, EntryInv, FreshInv, IdleTasks, TypeOK
    <3>6. \A u \in Task : phase[u] = "Cancelled" => phase'[u] = "Cancelled"
      BY ZenonT(60), <1>a DEF StableEntry
    <3>7. \A c \in bg[Root] : phase'[c] = "None" /\ pc[c] # "idle"
      BY ZenonT(60), <1>a, <2>0, <3>1 DEF HeldOf, StableEntry, TypeOK
    <3>8. held'[Root] \subseteq Task /\ None \notin Task
      BY SMTT(60), <1>c, <2>0 DEF TypeOK
    <3> HIDE DEF Task, None, Root, Thread
    <3> QED
      BY ZenonT(60), <3>1, <3>2, <3>3, <3>4, <3>5, <3>6, <3>7, <3>8 DEF HeldOf
  <2>4. Hands(Root)
    <3>1. joining[Root] \in Task \union {None} /\ joining' = joining
      BY Zenon, <1>16, <2>0 DEF Mark, TypeOK
    <3>2. Owns(Root)' = Owns(Root) \/ Owns(Root)' = Owns(Root) \union {t}
      BY ZenonT(60), <1>16, <2>0, <3>1 DEF Mark, Owns, TypeOK
    <3>3. Owns(Root)' # Owns(Root) => phase[t] \in {"Running", "Awaiting"}
      BY ZenonT(60), <1>16, <2>0, <3>1 DEF Mark, Owns, TypeOK
    <3>4. \A u \in Task : u # t => phase'[u] = phase[u]
      BY ZenonT(60), <1>16 DEF Mark, TypeOK
    <3>5. phase'[t] = "Cancelled" /\ phase[t] # "Cancelled" => t \in Owns(Root)'
      BY ZenonT(60), <1>16, <2>0, <1>o, <3>1 DEF Mark, Owns, EntryInv, TypeOK
    <3> HIDE DEF Task, None, Root, Thread
    <3> QED
      BY ZenonT(60), <3>2, <3>3, <3>4, <3>5 DEF Hands
  <2>5. ChildOf(Root)'
    BY Zenon, <1>16, <2>0, <1>o DEF Mark, ChildInv, ChildOf, InScope,
       Finished, TypeOK
  <2>6. Cares(Root)
    BY ZenonT(60), <1>16, <2>0, <1>o DEF Mark, Cares, ChildInv, ChildOf, Alive,
       Finished,
       InScope, TypeOK
  <2> QED
    BY Zenon, <2>0, <2>1, <2>2, <2>3, <2>4, <2>5, <2>6, <1>b, <1>o,
       OwnershipFrame
<1>17. ASSUME MarkDone PROVE Ownership'
  <2>0. Root \in Thread
    BY SMTT(60) DEF Root, Thread
  <2>1. \A q \in Thread : q # Root => Bystander(q)
    BY ZenonT(60), <1>17 DEF MarkDone, Bystander, scopeVars, TypeOK
  <2>2. \A q \in Thread : q # Root => KeepsClaims(q)
    <3>1. reaped' = reaped
      BY ZenonT(60), <1>17 DEF MarkDone, entryVars
    <3> QED
      BY ZenonT(60), <3>1 DEF KeepsClaims
  <2>3. HeldOf(Root)'
    <3>1. HeldOf(Root) /\ pc[Root] = "mark"
      BY ZenonT(60), <1>17, <2>0, <1>o DEF MarkDone, HeldInv
    <3>2. joining[Root] = None
      BY ZenonT(60), <3>1 DEF HeldOf, KillPcs
    <3>3. pc'[Root] = "killnamed" /\ UNCHANGED <<held, joining, bg, phase, reaped>>
      BY ZenonT(60), <1>17, <2>0 DEF MarkDone, entryVars, TypeOK
    <3>4. \A u \in Task : pc[u] # "idle" => pc'[u] # "idle"
      BY ZenonT(60), <1>a DEF StableEntry
    <3>5. bg[Root] \subseteq Task /\ None \notin Task /\ None \notin held[Root]
      BY SMTT(60), <2>0 DEF TypeOK
    <3> HIDE DEF Task, None, Root, Thread
    <3> QED
      BY ZenonT(60), <3>1, <3>2, <3>3, <3>4, <3>5 DEF HeldOf, KillPcs
  <2>4. Hands(Root)
    <3>1. Owns(Root)' = Owns(Root) /\ phase' = phase
      BY Zenon, <1>17, <2>0 DEF MarkDone, Owns, entryVars, TypeOK
    <3> QED
      BY ZenonT(60), <3>1 DEF Hands
  <2>5. ChildOf(Root)'
    BY ZenonT(60), <1>17, <2>0, <1>o DEF MarkDone, ChildInv, ChildOf, InScope,
       Finished,
       TypeOK
  <2>6. Cares(Root)
    BY SMTT(60), <1>17, <2>0, <1>o DEF MarkDone, Cares, ChildInv, ChildOf,
       Alive,
       Finished, InScope, TypeOK, entryVars
  <2> QED
    BY ZenonT(60), <2>0, <2>1, <2>2, <2>3, <2>4, <2>5, <2>6, <1>b, <1>o,
       OwnershipFrame
<1>18. ASSUME KillNamedDone PROVE Ownership'
  <2>0. Root \in Thread
    BY DEF Root, Thread
  <2>1. \A q \in Thread : q # Root => Bystander(q)
    BY Zenon, <1>18 DEF KillNamedDone, Bystander, scopeVars, TypeOK
  <2>2. \A q \in Thread : q # Root => KeepsClaims(q)
    BY ZenonT(60), <1>18 DEF KillNamedDone, KeepsClaims, entryVars
  <2>a. joining[Root] = None /\ held[Root] = {} /\ Owns(Root) = {}
    BY ZenonT(60), <1>18, <2>0, <1>o DEF KillNamedDone, HeldInv, HeldOf,
       KillPcs, Owns,
       TypeOK
  <2>c. bg'[Root] \subseteq bg[Root]
    BY Zenon, <1>18, <2>0 DEF KillNamedDone, TypeOK
  <2>b. \A c \in bg'[Root] : phase'[c] = "None" /\ pc'[c] # "idle"
    BY ZenonT(60), <2>c, <1>a, <2>0, <1>o DEF HeldInv, HeldOf, StableEntry,
       TypeOK
  <2>e. /\ joining'[Root] = None /\ held'[Root] \subseteq bg'[Root]
        /\ held'[Root] # {} => pc'[Root] \in {"killbg", "drop"}
        /\ pc'[Root] \notin {"cancel", "awaitkill", "mark", "killnamed"}
    BY Zenon, <1>18, <2>a, <2>0 DEF KillNamedDone, TypeOK, InScope
  <2>f. \A u \in Task : phase'[u] = "Cancelled" => phase[u] = "Cancelled"
    BY Zenon, <1>18 DEF KillNamedDone, TypeOK, entryVars
  <2>3. HeldOf(Root)' /\ Hands(Root)
    BY ZenonT(60), <2>a, <2>b, <2>e, <2>f, <1>c, FreeThread, <2>0
  <2>5. ChildOf(Root)'
    BY ZenonT(60), <1>18, <2>0, <1>o DEF KillNamedDone, ChildInv, ChildOf,
       InScope,
       Finished, TypeOK
  <2>6. Cares(Root)
    BY SMTT(60), <1>18, <2>0, <1>o DEF KillNamedDone, Cares, ChildInv,
       ChildOf, Alive,
       Finished, InScope, TypeOK, entryVars
  <2> QED
    BY Zenon, <2>0, <2>1, <2>2, <2>3, <2>5, <2>6, <1>b, <1>o, OwnershipFrame
<1>19. ASSUME NEW p \in Thread, ThreadFails(p) PROVE Ownership'
  <2>1. \A q \in Thread : q # p => Bystander(q)
    BY Zenon, <1>19 DEF ThreadFails, ThreadEnds, Bystander, scopeVars, TypeOK
  <2>2. \A q \in Thread : q # p => KeepsClaims(q)
    BY ZenonT(60), <1>19 DEF ThreadFails, ThreadEnds, KeepsClaims, entryVars
  <2>a. joining[p] = None /\ held[p] = {} /\ Owns(p) = {}
    BY ZenonT(60), <1>19, <1>o DEF ThreadFails, ThreadEnds, HeldInv, HeldOf, KillPcs,
       Owns, TypeOK
  <2>c. bg'[p] \subseteq bg[p]
    BY Zenon, <1>19 DEF ThreadFails, ThreadEnds, TypeOK
  <2>b. \A c \in bg'[p] : phase'[c] = "None" /\ pc'[c] # "idle"
    BY ZenonT(60), <2>c, <1>a, <1>o DEF HeldInv, HeldOf, StableEntry, TypeOK
  <2>e. /\ joining'[p] = None /\ held'[p] \subseteq bg'[p]
        /\ held'[p] # {} => pc'[p] \in {"killbg", "drop"}
        /\ pc'[p] \notin {"cancel", "awaitkill", "mark", "killnamed"}
    BY Zenon, <1>19, <2>a DEF ThreadFails, ThreadEnds, TypeOK, InScope
  <2>f. \A u \in Task : phase'[u] = "Cancelled" => phase[u] = "Cancelled"
    BY ZenonT(60), <1>19 DEF ThreadFails, ThreadEnds, TypeOK, entryVars
  <2>3. HeldOf(p)' /\ Hands(p)
    BY ZenonT(60), <2>a, <2>b, <2>e, <2>f, <1>c, FreeThread
  <2>5. ChildOf(p)'
    BY ZenonT(60), <1>19, <1>o DEF ThreadFails, ThreadEnds, ChildInv, ChildOf,
       InScope,
       Finished, TypeOK
  <2>6. Cares(p)
    BY SMTT(60), <1>19, <1>o DEF ThreadFails, ThreadEnds, Cares, ChildInv,
       ChildOf,
       Alive, Finished, InScope, TypeOK, entryVars
  <2> QED
    BY Zenon, <2>1, <2>2, <2>3, <2>5, <2>6, <1>b, <1>o, OwnershipFrame
<1>20. ASSUME NEW p \in Thread, ThreadSucceeds(p) PROVE Ownership'
  <2>1. \A q \in Thread : q # p => Bystander(q)
    BY Zenon, <1>20 DEF ThreadSucceeds, ThreadEnds, Bystander, scopeVars, TypeOK
  <2>2. \A q \in Thread : q # p => KeepsClaims(q)
    <3>1. reaped' = reaped
      BY ZenonT(60), <1>20 DEF ThreadSucceeds, entryVars
    <3> QED
      BY Zenon, <3>1 DEF KeepsClaims
  <2>a. joining[p] = None /\ held[p] = {} /\ Owns(p) = {}
    BY ZenonT(60), <1>20, <1>o DEF ThreadSucceeds, ThreadEnds, HeldInv, HeldOf, KillPcs,
       Owns, TypeOK
  <2>c. bg'[p] \subseteq bg[p]
    BY Zenon, <1>20 DEF ThreadSucceeds, ThreadEnds, TypeOK
  <2>b. \A c \in bg'[p] : phase'[c] = "None" /\ pc'[c] # "idle"
    BY ZenonT(60), <2>c, <1>a, <1>o DEF HeldInv, HeldOf, StableEntry, TypeOK
  <2>e. /\ joining'[p] = None /\ held'[p] \subseteq bg'[p]
        /\ held'[p] # {} => pc'[p] \in {"killbg", "drop"}
        /\ pc'[p] \notin {"cancel", "awaitkill", "mark", "killnamed"}
    BY ZenonT(60), <1>20, <2>a DEF ThreadSucceeds, ThreadEnds, TypeOK, InScope
  <2>f. \A u \in Task : phase'[u] = "Cancelled" => phase[u] = "Cancelled"
    BY ZenonT(60), <1>20 DEF ThreadSucceeds, ThreadEnds, TypeOK, entryVars
  <2>3. HeldOf(p)' /\ Hands(p)
    BY Zenon, <2>a, <2>b, <2>e, <2>f, <1>c, FreeThread
  <2>5. ChildOf(p)'
    BY ZenonT(60), <1>20, <1>o DEF ThreadSucceeds, ThreadEnds, ChildInv,
       ChildOf, InScope,
       Finished, TypeOK
  <2>6. Cares(p)
    BY SMTT(90), <1>20, <1>o DEF ThreadSucceeds, ThreadEnds, Cares, ChildInv,
       ChildOf,
       Alive, Finished, InScope, TypeOK, entryVars
  <2> QED
    BY Zenon, <2>1, <2>2, <2>3, <2>5, <2>6, <1>b, <1>o, OwnershipFrame
<1>21. ASSUME NEW p \in Thread, NEW t \in Task, ReapBg(p, t) PROVE Ownership'
  <2>1. \A q \in Thread : q # p => Bystander(q)
    BY Zenon, <1>21 DEF ReapBg, Bystander, scopeVars, TypeOK
  <2>2. \A q \in Thread : q # p => KeepsClaims(q)
    <3>1. reaped' = reaped
      BY ZenonT(60), <1>21 DEF ReapBg, entryVars
    <3> QED
      BY Zenon, <3>1 DEF KeepsClaims
  <2>a. joining[p] = None /\ held[p] = {} /\ Owns(p) = {}
    BY ZenonT(60), <1>21, <1>o DEF ReapBg, HeldInv, HeldOf, KillPcs, Owns, TypeOK
  <2>c. bg'[p] \subseteq bg[p]
    BY ZenonT(60), <1>21 DEF ReapBg, TypeOK
  <2>b. \A c \in bg'[p] : phase'[c] = "None" /\ pc'[c] # "idle"
    BY ZenonT(60), <2>c, <1>a, <1>o DEF HeldInv, HeldOf, StableEntry, TypeOK
  <2>e. /\ joining'[p] = None /\ held'[p] \subseteq bg'[p]
        /\ held'[p] # {} => pc'[p] \in {"killbg", "drop"}
        /\ pc'[p] \notin {"cancel", "awaitkill", "mark", "killnamed"}
    BY Zenon, <1>21, <2>a DEF ReapBg, TypeOK, InScope
  <2>f. \A u \in Task : phase'[u] = "Cancelled" => phase[u] = "Cancelled"
    BY Zenon, <1>21 DEF ReapBg, TypeOK, entryVars
  <2>3. HeldOf(p)' /\ Hands(p)
    BY Zenon, <2>a, <2>b, <2>e, <2>f, <1>c, FreeThread
  <2>5. ChildOf(p)'
    BY ZenonT(60), <1>21, <1>o DEF ReapBg, ChildInv, ChildOf, InScope,
       Finished, TypeOK
  <2>6. Cares(p)
    BY SMTT(60), <1>21, <1>o DEF ReapBg, Cares, ChildInv, ChildOf, Alive,
       Finished,
       InScope, TypeOK, entryVars
  <2> QED
    BY Zenon, <2>1, <2>2, <2>3, <2>5, <2>6, <1>b, <1>o, OwnershipFrame
<1>22. ASSUME NEW t \in Task, ReapNamed(t) PROVE Ownership'
  <2>0. Root \in Thread
    BY DEF Root, Thread
  <2>1. \A q \in Thread : q # Root => Bystander(q)
    BY Zenon, <1>22 DEF ReapNamed, PollNamed, Bystander, scopeVars, TypeOK
  <2>2. \A q \in Thread : q # Root => KeepsClaims(q)
    BY Zenon, <1>22 DEF ReapNamed, PollNamed, KeepsClaims, TypeOK
  <2>a. joining[Root] = None /\ held[Root] = {} /\ Owns(Root) = {}
    BY ZenonT(60), <1>22, <2>0, <1>o DEF ReapNamed, PollNamed, HeldInv, HeldOf, KillPcs,
       Owns, TypeOK
  <2>c. bg'[Root] \subseteq bg[Root]
    BY Zenon, <1>22, <2>0 DEF ReapNamed, PollNamed, TypeOK
  <2>b. \A c \in bg'[Root] : phase'[c] = "None" /\ pc'[c] # "idle"
    BY ZenonT(60), <2>c, <1>a, <2>0, <1>o DEF HeldInv, HeldOf, StableEntry, TypeOK
  <2>e. /\ joining'[Root] = None /\ held'[Root] \subseteq bg'[Root]
        /\ held'[Root] # {} => pc'[Root] \in {"killbg", "drop"}
        /\ pc'[Root] \notin {"cancel", "awaitkill", "mark", "killnamed"}
    BY ZenonT(60), <1>22, <2>a, <2>0 DEF ReapNamed, PollNamed, TypeOK, InScope
  <2>f. \A u \in Task : phase'[u] = "Cancelled" => phase[u] = "Cancelled"
    BY ZenonT(60), <1>22 DEF ReapNamed, PollNamed, TypeOK
  <2>3. HeldOf(Root)' /\ Hands(Root)
    BY ZenonT(60), <2>a, <2>b, <2>e, <2>f, <1>c, FreeThread, <2>0
  <2>5. ChildOf(Root)'
    BY ZenonT(60), <1>22, <2>0, <1>o DEF ReapNamed, PollNamed, ChildInv,
       ChildOf, InScope,
       Finished, TypeOK
  <2>6. Cares(Root)
    BY ZenonT(60), <1>22, <2>0, <1>o DEF ReapNamed, PollNamed, Cares,
       ChildInv, ChildOf,
       Alive, Finished, InScope, TypeOK
  <2> QED
    BY Zenon, <2>0, <2>1, <2>2, <2>3, <2>5, <2>6, <1>b, <1>o, OwnershipFrame
<1>23. ASSUME NEW t \in Task, ReapNamedFails(t) PROVE Ownership'
  <2>0. Root \in Thread
    BY DEF Root, Thread
  <2>1. \A q \in Thread : q # Root => Bystander(q)
    BY ZenonT(60), <1>23 DEF ReapNamedFails, PollNamed, StartTeardown,
       Bystander,
       scopeVars, TypeOK
  <2>2. \A q \in Thread : q # Root => KeepsClaims(q)
    BY ZenonT(60), <1>23 DEF ReapNamedFails, PollNamed, StartTeardown,
       KeepsClaims, TypeOK
  <2>a. joining[Root] = None /\ held[Root] = {} /\ Owns(Root) = {}
    BY ZenonT(60), <1>23, <2>0, <1>o DEF ReapNamedFails, PollNamed, StartTeardown,
       HeldInv, HeldOf, KillPcs, Owns, TypeOK
  <2>c. bg'[Root] \subseteq bg[Root]
    BY Zenon, <1>23, <2>0 DEF ReapNamedFails, PollNamed, StartTeardown, TypeOK
  <2>b. \A c \in bg'[Root] : phase'[c] = "None" /\ pc'[c] # "idle"
    BY ZenonT(60), <2>c, <1>a, <2>0, <1>o DEF HeldInv, HeldOf, StableEntry, TypeOK
  <2>e. /\ joining'[Root] = None /\ held'[Root] \subseteq bg'[Root]
        /\ held'[Root] # {} => pc'[Root] \in {"killbg", "drop"}
        /\ pc'[Root] \notin {"cancel", "awaitkill", "mark", "killnamed"}
    BY ZenonT(60), <1>23, <2>a, <2>0 DEF ReapNamedFails, PollNamed,
       StartTeardown, TypeOK,
       InScope
  <2>f. \A u \in Task : phase'[u] = "Cancelled" => phase[u] = "Cancelled"
    BY ZenonT(60), <1>23 DEF ReapNamedFails, PollNamed, StartTeardown, TypeOK
  <2>3. HeldOf(Root)' /\ Hands(Root)
    BY Zenon, <2>a, <2>b, <2>e, <2>f, <1>c, FreeThread, <2>0
  <2>g. /\ pc'[Root] = "killbg" /\ held'[Root] = InScope(Root, bg[Root])
        /\ failFast'[Root] /\ UNCHANGED <<bg, floor>>
    BY ZenonT(60), <1>23, <2>0 DEF ReapNamedFails, StartTeardown, scopeVars,
       TypeOK
  <2>5. ChildOf(Root)'
    BY ZenonT(60), <2>g DEF ChildOf, InScope
  <2>6. Cares(Root)
    BY SMTT(90), <1>23, <2>0, <1>o DEF ReapNamedFails, PollNamed,
       StartTeardown, Cares,
       ChildInv, ChildOf, Alive, Finished, InScope, TypeOK
  <2> QED
    BY Zenon, <2>0, <2>1, <2>2, <2>3, <2>5, <2>6, <1>b, <1>o, OwnershipFrame
<1>24. ASSUME NEW p \in Thread, Return(p) PROVE Ownership'
  <2>1. \A q \in Thread : q # p => Bystander(q)
    BY Zenon, <1>24 DEF Return, CanStep, Bystander, scopeVars, TypeOK
  <2>2. \A q \in Thread : q # p => KeepsClaims(q)
    <3>1. reaped' = reaped
      BY ZenonT(60), <1>24 DEF Return, entryVars
    <3> QED
      BY Zenon, <3>1 DEF KeepsClaims
  <2>a. joining[p] = None /\ held[p] = {} /\ Owns(p) = {}
    BY ZenonT(60), <1>24, <1>o DEF Return, CanStep, HeldInv, HeldOf, KillPcs, Owns, TypeOK
  <2>c. bg'[p] \subseteq bg[p]
    BY Zenon, <1>24 DEF Return, CanStep, TypeOK
  <2>b. \A c \in bg'[p] : phase'[c] = "None" /\ pc'[c] # "idle"
    BY ZenonT(60), <2>c, <1>a, <1>o DEF HeldInv, HeldOf, StableEntry, TypeOK
  <2>e. /\ joining'[p] = None /\ held'[p] \subseteq bg'[p]
        /\ held'[p] # {} => pc'[p] \in {"killbg", "drop"}
        /\ pc'[p] \notin {"cancel", "awaitkill", "mark", "killnamed"}
    BY ZenonT(60), <1>24, <2>a DEF Return, CanStep, TypeOK, InScope
  <2>f. \A u \in Task : phase'[u] = "Cancelled" => phase[u] = "Cancelled"
    BY ZenonT(60), <1>24 DEF Return, CanStep, TypeOK, entryVars
  <2>3. HeldOf(p)' /\ Hands(p)
    BY Zenon, <2>a, <2>b, <2>e, <2>f, <1>c, FreeThread
  <2>5. ChildOf(p)'
    <3>1. pc'[p] = "drop" /\ held'[p] = bg'[p]
      BY ZenonT(60), <1>24 DEF Return, TypeOK
    <3> QED
      BY ZenonT(60), <3>1 DEF ChildOf
  <2>6. Cares(p)
    BY SMTT(60), <1>24, <1>o DEF Return, CanStep, Cares, ChildInv, ChildOf,
       Alive,
       Finished, InScope, TypeOK, entryVars
  <2> QED
    BY Zenon, <2>1, <2>2, <2>3, <2>5, <2>6, <1>b, <1>o, OwnershipFrame
<1>25. ASSUME NEW p \in Thread, Dropped(p) PROVE Ownership'
  <2>1. \A q \in Thread : q # p => Bystander(q)
    BY ZenonT(60), <1>25 DEF Dropped, ThreadEnds, Bystander, scopeVars, TypeOK
  <2>2. \A q \in Thread : q # p => KeepsClaims(q)
    <3>1. reaped' = reaped
      BY Zenon, <1>25 DEF Dropped, entryVars
    <3> QED
      BY Zenon, <3>1 DEF KeepsClaims
  <2>a. joining[p] = None /\ held[p] = {} /\ Owns(p) = {}
    BY ZenonT(60), <1>25, <1>o DEF Dropped, ThreadEnds, HeldInv, HeldOf,
       KillPcs, Owns,
       TypeOK
  <2>c. bg'[p] \subseteq bg[p]
    BY ZenonT(60), <1>25 DEF Dropped, ThreadEnds, TypeOK
  <2>b. \A c \in bg'[p] : phase'[c] = "None" /\ pc'[c] # "idle"
    BY ZenonT(60), <2>c, <1>a, <1>o DEF HeldInv, HeldOf, StableEntry, TypeOK
  <2>e. /\ joining'[p] = None /\ held'[p] \subseteq bg'[p]
        /\ held'[p] # {} => pc'[p] \in {"killbg", "drop"}
        /\ pc'[p] \notin {"cancel", "awaitkill", "mark", "killnamed"}
    BY ZenonT(60), <1>25, <2>a DEF Dropped, ThreadEnds, TypeOK, InScope
  <2>f. \A u \in Task : phase'[u] = "Cancelled" => phase[u] = "Cancelled"
    BY ZenonT(60), <1>25 DEF Dropped, ThreadEnds, TypeOK, entryVars
  <2>3. HeldOf(p)' /\ Hands(p)
    BY Zenon, <2>a, <2>b, <2>e, <2>f, <1>c, FreeThread
  <2>5. ChildOf(p)'
    BY ZenonT(60), <1>25, <1>o DEF Dropped, ThreadEnds, ChildInv, ChildOf,
       InScope,
       Finished, TypeOK
  <2>6. Cares(p)
    <3>1. \A c \in bg[p] : Finished(c)
      BY SMTT(60), <1>25, <1>o DEF Dropped, ChildInv, ChildOf, TypeOK
    <3>2. \A c \in Task : pc'[c] = pc[c] \/ c = p
      BY SMTT(60), <1>25 DEF Dropped, ThreadEnds, TypeOK
    <3>3. pc'[p] \in {"ok", "err"}
      BY Zenon, <1>25 DEF Dropped, ThreadEnds, TypeOK
    <3> HIDE DEF Task, None, Root, Thread
    <3> QED
      BY ZenonT(60), <3>1, <3>2, <3>3 DEF Cares, Alive, Finished
  <2> QED
    BY Zenon, <2>1, <2>2, <2>3, <2>5, <2>6, <1>b, <1>o, OwnershipFrame
<1>26. CASE UNCHANGED core
  <2> USE <1>26 DEF core
  <2>1. HeldInv'
    <3> HIDE DEF Task, None, Root, Thread, KillPcs
    <3> SUFFICES ASSUME NEW q \in Thread PROVE HeldOf(q)'
      BY ZenonT(60) DEF HeldInv
    <3>1. HeldOf(q)
      BY ZenonT(60), <1>o DEF HeldInv
    <3> QED
      BY ZenonT(60), <3>1 DEF HeldOf, Finished
  <2>2. OwnerInv'
    <3>1. \A q \in Thread : Owns(q)' = Owns(q)
      BY Zenon DEF Owns
    <3> QED
      BY SMTT(60), <1>o, <3>1 DEF OwnerInv
  <2>3. ChildInv'
    BY ZenonT(60), <1>o DEF ChildInv, ChildOf, Finished
  <2>4. NoOrphans'
    BY Zenon, <1>o DEF NoOrphans, Alive
  <2> QED
    BY ZenonT(60), <2>1, <2>2, <2>3, <2>4 DEF Ownership
<1> QED
  BY ZenonT(60), StepCases, <1>1, <1>13, <1>14, <1>15, <1>16, <1>17, <1>18,
     <1>19, <1>20,
     <1>21, <1>22, <1>23, <1>24, <1>25, <1>26
     DEF Works, Requests

\* The only way out of dispatch_cancel is past its join.
LEMMA OnlyCancelReturns ==
    TypeOK /\ ArgInv /\ FreshInv /\ [Next]_vars => LeavesCancel
<1> SUFFICES ASSUME TypeOK, ArgInv, FreshInv, [Next]_vars PROVE LeavesCancel
  BY ZenonT(60)
<1> USE BoundsAreNat DEF TypeOK, Task, Thread, Root, None, LeavesCancel
<1>1. ASSUME NEW p \in Thread, Fails(p) PROVE LeavesCancel
  BY ZenonT(60), <1>1 DEF Fails, StartTeardown
<1>2. ASSUME NEW p \in Thread, Moves(p) PROVE LeavesCancel
  BY ZenonT(60), <1>2 DEF Moves
<1>3. ASSUME NEW p \in Thread, SpawnNamed(p) PROVE LeavesCancel
  BY ZenonT(60), <1>3 DEF SpawnNamed, FreshInv, Spawners
<1>4. ASSUME NEW p \in Thread, SpawnAnonymous(p) PROVE LeavesCancel
  BY ZenonT(60), <1>4 DEF SpawnAnonymous, FreshInv, Spawners
<1>5. ASSUME NEW p \in Thread, AllocTaskId(p) PROVE LeavesCancel
  BY ZenonT(60), <1>5 DEF AllocTaskId, CanStep
<1>6. ASSUME NEW p \in Thread, NEW t \in Task, AwaitClaims(p, t) PROVE LeavesCancel
  BY ZenonT(60), <1>6 DEF AwaitClaims, CanStep
<1>7. ASSUME NEW p \in Thread, AwaitInterrupted(p) PROVE LeavesCancel
  BY ZenonT(60), <1>7 DEF AwaitInterrupted
<1>8. ASSUME NEW p \in Thread, AwaitDone(p) PROVE LeavesCancel
  BY ZenonT(60), <1>8 DEF AwaitDone, AwaitReaps
<1>9. ASSUME NEW p \in Thread, AwaitFails(p) PROVE LeavesCancel
  BY ZenonT(60), <1>9 DEF AwaitFails, AwaitReaps, StartTeardown
<1>10. ASSUME NEW p \in Thread, AwaitKillDone(p) PROVE LeavesCancel
  BY ZenonT(60), <1>10 DEF AwaitKillDone, StartTeardown
<1>11. ASSUME NEW p \in Thread, NEW t \in Task, CancelTakes(p, t) PROVE LeavesCancel
  BY ZenonT(60), <1>11 DEF CancelTakes, CanStep
<1>12. ASSUME NEW p \in Thread, CancelReturns(p) PROVE LeavesCancel
  BY ZenonT(60), <1>12 DEF CancelReturns
<1>13. ASSUME NEW p \in Thread, NEW t \in Task, KillSignals(p, t) PROVE LeavesCancel
  BY ZenonT(60), <1>13 DEF KillSignals
<1>14. ASSUME NEW p \in Thread, KillJoins(p) PROVE LeavesCancel
  BY ZenonT(60), <1>14 DEF KillJoins
<1>15. ASSUME NEW p \in Thread, KillBgDone(p) PROVE LeavesCancel
  BY ZenonT(60), <1>15 DEF KillBgDone
<1>16. ASSUME NEW t \in Task, Mark(t) PROVE LeavesCancel
  BY Zenon, <1>16 DEF Mark
<1>17. ASSUME MarkDone PROVE LeavesCancel
  BY ZenonT(60), <1>17 DEF MarkDone
<1>18. ASSUME KillNamedDone PROVE LeavesCancel
  BY ZenonT(60), <1>18 DEF KillNamedDone
<1>19. ASSUME NEW p \in Thread, ThreadFails(p) PROVE LeavesCancel
  BY ZenonT(60), <1>19 DEF ThreadFails, ThreadEnds
<1>20. ASSUME NEW p \in Thread, ThreadSucceeds(p) PROVE LeavesCancel
  BY ZenonT(60), <1>20 DEF ThreadSucceeds, ThreadEnds
<1>21. ASSUME NEW p \in Thread, NEW t \in Task, ReapBg(p, t) PROVE LeavesCancel
  BY ZenonT(60), <1>21 DEF ReapBg
<1>22. ASSUME NEW t \in Task, ReapNamed(t) PROVE LeavesCancel
  BY ZenonT(60), <1>22 DEF ReapNamed, PollNamed
<1>23. ASSUME NEW t \in Task, ReapNamedFails(t) PROVE LeavesCancel
  BY ZenonT(60), <1>23 DEF ReapNamedFails, PollNamed, StartTeardown
<1>24. ASSUME NEW p \in Thread, Return(p) PROVE LeavesCancel
  BY ZenonT(60), <1>24 DEF Return, CanStep
<1>25. ASSUME NEW p \in Thread, Dropped(p) PROVE LeavesCancel
  BY ZenonT(60), <1>25 DEF Dropped, ThreadEnds
<1>26. CASE UNCHANGED core
  BY ZenonT(60), <1>26 DEF core
<1> QED
  BY ZenonT(60), StepCases,
     <1>1, <1>2, <1>3, <1>4, <1>5, <1>6, <1>7, <1>8, <1>9, <1>10,
     <1>11, <1>12, <1>13, <1>14, <1>15, <1>16, <1>17, <1>18, <1>19, <1>20,
     <1>21, <1>22, <1>23, <1>24, <1>25, <1>26
     DEF Works

-----------------------------------------------------------------------------
(* The theorems                                                            *)

\* IInv holds initially and every step of any thread preserves it.
THEOREM Inductive == Spec => []IInv
<1>1. Init => IInv
  BY ZenonT(60), TypeInit, InvInit DEF IInv
<1>2. IInv /\ [Next]_vars => IInv'
  <2> SUFFICES ASSUME IInv, [Next]_vars PROVE IInv'
    BY ZenonT(60)
  <2>1. TypeOK /\ ArgInv /\ FreshInv /\ EntryInv /\ Ownership /\ HeldInv
    BY ZenonT(60) DEF IInv, Ownership
  <2>2. TypeOK' /\ ArgInv'
    BY ZenonT(60), <2>1, TypeStep, ArgStep
  <2>3. FreshInv' /\ EntryInv'
    BY ZenonT(60), <2>1, FreshStep, EntryStep
  <2>4. Ownership'
    BY ZenonT(60), <2>1, OwnershipStep
  <2> QED
    BY ZenonT(60), <2>2, <2>3, <2>4 DEF IInv
<1> QED
  BY <1>1, <1>2, PTL DEF Spec

\* Every variable keeps its type, for any number of tasks and any caps.
THEOREM TypeCorrect == Spec => []TypeOK
  BY Inductive, PTL DEF IInv

\* wait_reaped never lets a caller past a worker that still runs: whoever
\* sets an entry's reaped flag has joined the worker thread before.
THEOREM ReapIsAJoin == Spec => []ReapedMeansJoined
<1>1. IInv => ReapedMeansJoined
  BY ZenonT(60) DEF IInv, EntryInv, ReapedMeansJoined
<1> QED
  BY <1>1, Inductive, PTL

\* The join handle of a named task is in its entry, or one thread has taken
\* it and tears the task down, or the entry is reaped.
THEOREM SingleOwner == Spec => []OneOwner
<1>1. IInv => OneOwner
  <2> SUFFICES ASSUME IInv, NEW t \in Task
               PROVE  /\ handle[t] <=> phase[t] \in {"Running", "Awaiting"}
                      /\ phase[t] # "None" =>
                           \A p, q \in Thread :
                               t \in Owns(p) /\ t \in Owns(q) => p = q
                      /\ phase[t] = "Cancelled" /\ ~reaped[t] <=>
                           phase[t] # "None" /\ \E p \in Thread : t \in Owns(p)
    BY ZenonT(60) DEF OneOwner
  <2>1. TypeOK /\ EntryInv /\ HeldInv /\ OwnerInv
    BY Zenon DEF IInv, Ownership
  <2>2. handle[t] <=> phase[t] \in {"Running", "Awaiting"}
    BY ZenonT(60), <2>1 DEF EntryInv
  <2>3. /\ phase[t] # "None" =>
             \A p, q \in Thread : t \in Owns(p) /\ t \in Owns(q) => p = q
        /\ phase[t] = "Cancelled" /\ ~reaped[t] =>
             \E p \in Thread : t \in Owns(p)
    BY ZenonT(60), <2>1 DEF OwnerInv
  <2>4. ASSUME phase[t] # "None", NEW p \in Thread, t \in Owns(p)
        PROVE  phase[t] = "Cancelled" /\ ~reaped[t]
    BY ZenonT(60), <2>1, <2>4, OwnedPhase
  <2> QED
    BY ZenonT(60), <2>2, <2>3, <2>4
<1> QED
  BY <1>1, Inductive, PTL

\* bg_children keep every anonymous task within its spawner's lifetime.
THEOREM NoOrphanTasks == Spec => []NoOrphans
<1>1. IInv => NoOrphans
  BY Zenon DEF IInv, Ownership
<1> QED
  BY <1>1, Inductive, PTL

\* dispatch_cancel leaves CANCEL only after the worker has ended.
THEOREM CancelSynchronous == Spec => CancelIsSynchronous
<1>1. ASSUME IInv, [Next]_vars, NEW p \in Thread,
             pc[p] = "cancel", pc'[p] # "cancel"
      PROVE  Finished(arg[p]) /\ phase[arg[p]] = "Cancelled"
  <2>1. CancelReturns(p)
    BY Zenon, <1>1, OnlyCancelReturns DEF IInv, LeavesCancel
  <2>2. HeldOf(p)
    BY Zenon, <1>1 DEF IInv, Ownership, HeldInv
  <2> QED
    BY SMTT(60), <1>1, <2>1, <2>2 DEF CancelReturns, HeldOf, Task, None
<1>2. IInv /\ [Next]_vars =>
        [\A p \in Thread : pc[p] = "cancel" /\ pc'[p] # "cancel" =>
             Finished(arg[p]) /\ phase[arg[p]] = "Cancelled"]_vars
  BY Zenon, <1>1
<1> QED
  BY <1>2, Inductive, PTL DEF Spec, CancelIsSynchronous

\* A cancelled or completed entry stays so, and reaped is never taken back.
THEOREM TombstonesFinal == Spec => TombstonesAreFinal
<1>1. ASSUME IInv, [Next]_vars, NEW t \in Task
      PROVE  /\ phase[t] \in {"Cancelled", "Completed"} => phase'[t] = phase[t]
             /\ reaped[t] => reaped'[t]
  BY Zenon, <1>1, EntryStable DEF IInv, EntriesStable, StableEntry
<1>2. IInv /\ [Next]_vars =>
        [\A t \in Task :
            /\ phase[t] \in {"Cancelled", "Completed"} => phase'[t] = phase[t]
            /\ reaped[t] => reaped'[t]]_vars
  BY Zenon, <1>1
<1> QED
  BY <1>2, Inductive, PTL DEF Spec, TombstonesAreFinal

-----------------------------------------------------------------------------
(* alloc_task_id counts a slot before the worker exists and TaskSlotGuard  *)
(* gives it back when the worker's closure is dropped.                     *)

Workers == {t \in Task : Alive(t)}
Spawning == {p \in Thread : pc[p] = "spawn"}

LiveCount ==
    /\ live = Cardinality(Workers) + Cardinality(Spawning)
    /\ live =< MaxRunning

\* The sets counted are finite.
LEMMA CountsAreNat ==
    ASSUME TypeOK
    PROVE  /\ IsFiniteSet(Workers) /\ Cardinality(Workers) \in Nat
           /\ IsFiniteSet(Spawning) /\ Cardinality(Spawning) \in Nat
<1>1. IsFiniteSet(Task) /\ IsFiniteSet(Thread)
  BY SMTT(60), BoundsAreNat, FS_Interval DEF Task, Thread
<1>2. Workers \in SUBSET Task /\ Spawning \in SUBSET Thread
  BY ZenonT(60) DEF Workers, Spawning
<1>3. IsFiniteSet(Workers) /\ IsFiniteSet(Spawning)
  BY ZenonT(60), <1>1, <1>2, FS_Subset
<1> QED
  BY Zenon, <1>3, FS_CardinalityType

\* Every step keeps the count.
LEMMA SlotsStep ==
    TypeOK /\ ArgInv /\ FreshInv /\ HeldInv /\ LiveCount /\ [Next]_vars => LiveCount'
<1> SUFFICES ASSUME TypeOK, ArgInv, FreshInv, HeldInv, LiveCount, [Next]_vars PROVE LiveCount'
  BY Zenon
<1> USE BoundsAreNat DEF Task, Thread, Root, None
<1>i. /\ IsFiniteSet(Workers) /\ Cardinality(Workers) \in Nat
      /\ IsFiniteSet(Spawning) /\ Cardinality(Spawning) \in Nat
      /\ live \in Int
  BY ZenonT(60), CountsAreNat DEF TypeOK
<1>0. ASSUME live' = live,
             \A u \in Task : pc'[u] \in {"idle", "ok", "err"} <=>
                                 pc[u] \in {"idle", "ok", "err"},
             \A u \in Thread : pc'[u] = "spawn" <=> pc[u] = "spawn"
      PROVE  LiveCount'
  <2>1. Workers' = Workers /\ Spawning' = Spawning
    BY ZenonT(60), <1>0 DEF Workers, Spawning, Alive
  <2> QED
    BY ZenonT(60), <1>0, <2>1 DEF LiveCount
<1>1. ASSUME NEW p \in Thread, Fails(p) PROVE LiveCount'
  BY SMTT(60), <1>0, <1>1 DEF Fails, StartTeardown, allocVars, TypeOK
<1>2. ASSUME NEW p \in Thread, Moves(p) PROVE LiveCount'
  BY SMTT(60), <1>0, <1>2 DEF Moves, allocVars, TypeOK
<1>3. ASSUME NEW p \in Thread, SpawnNamed(p) PROVE LiveCount'
  <2>1. arg[p] \in Task /\ pc[arg[p]] = "idle" /\ p \in Spawning
    BY ZenonT(60), <1>3 DEF SpawnNamed, FreshInv, Spawners, Spawning
  <2>2. Workers' = Workers \union {arg[p]} /\ arg[p] \notin Workers
    BY SMTT(60), <1>3, <2>1 DEF SpawnNamed, Workers, Alive, TypeOK
  <2>3. Spawning' = Spawning \ {p} /\ live' = live
    BY ZenonT(60), <1>3, <2>1 DEF SpawnNamed, Spawning, TypeOK
  <2>4. Cardinality(Workers') = Cardinality(Workers) + 1
    BY ZenonT(60), <1>i, <2>2, FS_AddElement
  <2>5. Cardinality(Spawning') = Cardinality(Spawning) - 1
    BY ZenonT(60), <1>i, <2>1, <2>3, FS_RemoveElement
  <2> QED
    BY SMTT(60), <1>i, <2>3, <2>4, <2>5 DEF LiveCount
<1>4. ASSUME NEW p \in Thread, SpawnAnonymous(p) PROVE LiveCount'
  <2>1. arg[p] \in Task /\ pc[arg[p]] = "idle" /\ p \in Spawning
    BY ZenonT(60), <1>4 DEF SpawnAnonymous, FreshInv, Spawners, Spawning
  <2>2. Workers' = Workers \union {arg[p]} /\ arg[p] \notin Workers
    BY SMTT(60), <1>4, <2>1 DEF SpawnAnonymous, Workers, Alive, TypeOK
  <2>3. Spawning' = Spawning \ {p} /\ live' = live
    BY ZenonT(60), <1>4, <2>1 DEF SpawnAnonymous, Spawning, TypeOK
  <2>4. Cardinality(Workers') = Cardinality(Workers) + 1
    BY ZenonT(60), <1>i, <2>2, FS_AddElement
  <2>5. Cardinality(Spawning') = Cardinality(Spawning) - 1
    BY ZenonT(60), <1>i, <2>1, <2>3, FS_RemoveElement
  <2> QED
    BY <1>i, <2>3, <2>4, <2>5 DEF LiveCount
<1>5. ASSUME NEW p \in Thread, AllocTaskId(p) PROVE LiveCount'
  <2>1. Workers' = Workers
    BY SMTT(60), <1>5 DEF AllocTaskId, CanStep, Workers, Alive, TypeOK
  <2>2. Spawning' = Spawning \union {p} /\ p \notin Spawning
    BY ZenonT(60), <1>5 DEF AllocTaskId, CanStep, Spawning, TypeOK
  <2>3. Cardinality(Spawning') = Cardinality(Spawning) + 1
    BY ZenonT(60), <1>i, <2>2, FS_AddElement
  <2>4. live' = live + 1 /\ live < MaxRunning
    BY Zenon, <1>5 DEF AllocTaskId
  <2> QED
    BY SMTT(60), <1>i, <2>1, <2>3, <2>4 DEF LiveCount
<1>6. ASSUME NEW p \in Thread, NEW t \in Task, AwaitClaims(p, t) PROVE LiveCount'
  BY SMTT(60), <1>0, <1>6 DEF AwaitClaims, CanStep, allocVars, TypeOK
<1>7. ASSUME NEW p \in Thread, AwaitInterrupted(p) PROVE LiveCount'
  BY SMTT(60), <1>0, <1>7 DEF AwaitInterrupted, allocVars, TypeOK
<1>8. ASSUME NEW p \in Thread, AwaitDone(p) PROVE LiveCount'
  BY SMTT(60), <1>0, <1>8 DEF AwaitDone, AwaitReaps, allocVars, TypeOK
<1>9. ASSUME NEW p \in Thread, AwaitFails(p) PROVE LiveCount'
  BY SMTT(60), <1>0, <1>9 DEF AwaitFails, AwaitReaps, StartTeardown,
     allocVars, TypeOK
<1>10. ASSUME NEW p \in Thread, AwaitKillDone(p) PROVE LiveCount'
  BY SMTT(60), <1>0, <1>10 DEF AwaitKillDone, StartTeardown, allocVars, TypeOK
<1>11. ASSUME NEW p \in Thread, NEW t \in Task, CancelTakes(p, t) PROVE LiveCount'
  BY SMTT(60), <1>0, <1>11 DEF CancelTakes, CanStep, allocVars, TypeOK
<1>12. ASSUME NEW p \in Thread, CancelReturns(p) PROVE LiveCount'
  BY SMTT(60), <1>0, <1>12 DEF CancelReturns, allocVars, TypeOK
<1>13. ASSUME NEW p \in Thread, NEW t \in Task, KillSignals(p, t) PROVE LiveCount'
  BY Zenon, <1>0, <1>13 DEF KillSignals, allocVars, TypeOK
<1>14. ASSUME NEW p \in Thread, KillJoins(p) PROVE LiveCount'
  BY Zenon, <1>0, <1>14 DEF KillJoins, allocVars, TypeOK
<1>15. ASSUME NEW p \in Thread, KillBgDone(p) PROVE LiveCount'
  BY SMTT(60), <1>0, <1>15 DEF KillBgDone, allocVars, TypeOK
<1>16. ASSUME NEW t \in Task, Mark(t) PROVE LiveCount'
  BY Zenon, <1>0, <1>16 DEF Mark, allocVars, TypeOK
<1>17. ASSUME MarkDone PROVE LiveCount'
  BY SMTT(60), <1>0, <1>17 DEF MarkDone, allocVars, TypeOK
<1>18. ASSUME KillNamedDone PROVE LiveCount'
  BY SMTT(60), <1>0, <1>18 DEF KillNamedDone, allocVars, TypeOK
<1>19. ASSUME NEW p \in Thread, ThreadFails(p) PROVE LiveCount'
  <2>1. Spawning' = Spawning
    BY ZenonT(60), <1>19 DEF ThreadFails, ThreadEnds, Spawning, TypeOK
  <2>2. CASE p = Root
    <3>1. Workers' = Workers /\ live' = live
      BY SMTT(60), <1>19, <2>2 DEF ThreadFails, ThreadEnds, Workers, Alive,
         TypeOK
    <3> QED
      BY ZenonT(60), <1>i, <2>1, <3>1 DEF LiveCount
  <2>3. CASE p # Root
    <3>1. Workers' = Workers \ {p} /\ p \in Workers /\ live' = live - 1
      BY SMTT(60), <1>19, <2>3 DEF ThreadFails, ThreadEnds, Workers, Alive,
         TypeOK
    <3>2. Cardinality(Workers') = Cardinality(Workers) - 1
      BY ZenonT(60), <1>i, <3>1, FS_RemoveElement
    <3> QED
      BY SMTT(60), <1>i, <2>1, <3>1, <3>2 DEF LiveCount
  <2> QED
    BY Zenon, <2>2, <2>3
<1>20. ASSUME NEW p \in Thread, ThreadSucceeds(p) PROVE LiveCount'
  <2>1. Spawning' = Spawning
    BY ZenonT(60), <1>20 DEF ThreadSucceeds, ThreadEnds, Spawning, TypeOK
  <2>2. CASE p = Root
    <3>1. Workers' = Workers /\ live' = live
      BY SMTT(60), <1>20, <2>2 DEF ThreadSucceeds, ThreadEnds, Workers, Alive,
         TypeOK
    <3> QED
      BY Zenon, <1>i, <2>1, <3>1 DEF LiveCount
  <2>3. CASE p # Root
    <3>1. Workers' = Workers \ {p} /\ p \in Workers /\ live' = live - 1
      BY SMTT(60), <1>20, <2>3 DEF ThreadSucceeds, ThreadEnds, Workers, Alive,
         TypeOK
    <3>2. Cardinality(Workers') = Cardinality(Workers) - 1
      BY ZenonT(60), <1>i, <3>1, FS_RemoveElement
    <3> QED
      BY <1>i, <2>1, <3>1, <3>2 DEF LiveCount
  <2> QED
    BY Zenon, <2>2, <2>3
<1>21. ASSUME NEW p \in Thread, NEW t \in Task, ReapBg(p, t) PROVE LiveCount'
  BY Zenon, <1>0, <1>21 DEF ReapBg, allocVars, TypeOK
<1>22. ASSUME NEW t \in Task, ReapNamed(t) PROVE LiveCount'
  BY ZenonT(60), <1>0, <1>22 DEF ReapNamed, PollNamed, allocVars, TypeOK
<1>23. ASSUME NEW t \in Task, ReapNamedFails(t) PROVE LiveCount'
  BY SMTT(60), <1>0, <1>23 DEF ReapNamedFails, PollNamed, StartTeardown,
     allocVars,
     TypeOK
<1>24. ASSUME NEW p \in Thread, Return(p) PROVE LiveCount'
  BY SMTT(60), <1>0, <1>24 DEF Return, CanStep, allocVars, TypeOK
<1>25. ASSUME NEW p \in Thread, Dropped(p) PROVE LiveCount'
  <2>1. Spawning' = Spawning
    BY ZenonT(60), <1>25 DEF Dropped, ThreadEnds, Spawning, TypeOK
  <2>2. CASE p = Root
    <3>1. Workers' = Workers /\ live' = live
      BY SMTT(60), <1>25, <2>2 DEF Dropped, ThreadEnds, Workers, Alive, TypeOK
    <3> QED
      BY Zenon, <1>i, <2>1, <3>1 DEF LiveCount
  <2>3. CASE p # Root
    <3>1. Workers' = Workers \ {p} /\ p \in Workers /\ live' = live - 1
      BY SMTT(60), <1>25, <2>3 DEF Dropped, ThreadEnds, Workers, Alive, TypeOK
    <3>2. Cardinality(Workers') = Cardinality(Workers) - 1
      BY ZenonT(60), <1>i, <3>1, FS_RemoveElement
    <3> QED
      BY <1>i, <2>1, <3>1, <3>2 DEF LiveCount
  <2> QED
    BY Zenon, <2>2, <2>3
<1>26. CASE UNCHANGED core
  BY Zenon, <1>0, <1>26 DEF core
<1> QED
  BY ZenonT(60), StepCases,
     <1>1, <1>2, <1>3, <1>4, <1>5, <1>6, <1>7, <1>8, <1>9, <1>10,
     <1>11, <1>12, <1>13, <1>14, <1>15, <1>16, <1>17, <1>18, <1>19, <1>20,
     <1>21, <1>22, <1>23, <1>24, <1>25, <1>26
     DEF Works

\* live_tasks is exactly the number of worker threads that run or are about
\* to, and never above MAX_RUNNING_TASKS: no path leaks or forges a slot.
THEOREM SlotsAreExact == Spec => []LiveCountsThreads
<1>1. Init => LiveCount
  <2> SUFFICES ASSUME Init PROVE LiveCount
    BY Zenon
  <2>1. Workers = {} /\ Spawning = {}
    BY SMTT(60), BoundsAreNat DEF Init, Workers, Spawning, Alive, Task,
       Thread, Root
  <2> QED
    BY SMTT(60), <2>1, FS_EmptySet, BoundsAreNat DEF Init, LiveCount
<1>2. IInv /\ LiveCount /\ [Next]_vars => LiveCount'
  BY Zenon, SlotsStep DEF IInv, Ownership
<1>3. LiveCount => LiveCountsThreads
  BY Zenon DEF LiveCount, LiveCountsThreads, Workers, Spawning
<1> QED
  BY <1>1, <1>2, <1>3, Inductive, PTL DEF Spec

-----------------------------------------------------------------------------
(* A root flow that ends well leaves nothing running                       *)

\* Who has a handle on whom is acyclic: a task is known to, or the child of,
\* threads of lower rank only.
Ranks(r) ==
    \A p \in Thread : \A t \in knows[p] \union bg[p] : r[p] < r[t]

Ranked == \E r \in [Thread -> Nat] : Ranks(r)

\* Only started tasks are known, and only to started threads.
Known ==
    \A p \in Thread :
        /\ \A t \in knows[p] : pc[t] # "idle"
        /\ pc[p] = "idle" => knows[p] = {}

\* AWAIT and CANCEL are about a task their thread knows.
ArgKnown ==
    \A p \in Thread : pc[p] \in {"await", "cancel", "awaitkill"} => arg[p] \in knows[p]

\* A running task with an entry nobody took is registered, and one whose
\* entry was evicted has ended.
Registered ==
    \A t \in Task :
        /\ t \in registry => phase[t] # "None"
        /\ Alive(t) /\ phase[t] \in {"Running", "Awaiting"} => t \in registry
        /\ phase[t] = "Gone" => Finished(t)

\* What a sweep collected had ended or was being torn down.
VictimsEnded ==
    \A p \in Thread : \A t \in victims[p] :
        Finished(t) \/ phase[t] \in {"Cancelled", "Completed"}

\* The root flow is past its last reap.
RootOver == pc[Root] = "ok" \/ (pc[Root] = "bodyok" /\ floor[Root] = None)

Quiet == RootOver => \A t \in Task : ~Alive(t)

QInv ==
    /\ Ranked /\ Known /\ ArgKnown /\ Registered /\ VictimsEnded
    /\ pc[Root] # "drop"
    /\ Quiet

\* The reap that the root flow ends with found nothing.
Closes == pc[Root] \in {"run", "reap"} /\ floor[Root] = None /\ ~Pending(Root)

\* What a step that neither allocates an id nor spawns may do.
Calm ==
    /\ UNCHANGED <<registry, victims>>
    /\ \A q \in Thread : bg'[q] \subseteq bg[q]
    /\ \A q \in Thread : pc'[q] = "idle" <=> pc[q] = "idle"
    /\ \A t \in Task :
          /\ phase'[t] \in {"Running", "Awaiting"} => phase[t] \in {"Running", "Awaiting"}
          /\ phase'[t] = "Gone" => phase[t] = "Gone"
    /\ \A q \in Thread : pc'[q] \in {"await", "cancel", "awaitkill"} =>
          \/ arg'[q] \in knows[q]
          \/ pc[q] \in {"await", "cancel", "awaitkill"} /\ arg'[q] = arg[q]
    /\ RootOver' => RootOver \/ Closes
    /\ pc'[Root] # "drop"

Tame == Calm /\ (UNCHANGED knows \/ \E p \in Thread : AwaitDone(p))

\* Every other step is tame.
LEMMA TameCases ==
    TypeOK /\ ArgInv /\ pc[Root] # "drop" /\ [Next]_vars =>
        \/ Tame
        \/ \E p \in Thread : SpawnNamed(p) \/ SpawnAnonymous(p) \/ AllocTaskId(p)
<1> SUFFICES ASSUME TypeOK, ArgInv, pc[Root] # "drop", [Next]_vars
             PROVE  \/ Tame
                    \/ \E p \in Thread : SpawnNamed(p) \/ SpawnAnonymous(p) \/ AllocTaskId(p)
  BY ZenonT(60)
<1> USE BoundsAreNat DEF TypeOK, Tame, Calm, RootOver, Closes, StartTeardown, CanStep,
        scopeVars, entryVars, allocVars, Thread, Task, Root, None
<1>1. ASSUME NEW p \in Thread, StepCancelled(p) PROVE Tame
  BY SMTT(60), <1>1 DEF StepCancelled
<1>2. ASSUME NEW p \in Thread, StepFails(p) PROVE Tame
  BY SMTT(60), <1>2 DEF StepFails
<1>3. ASSUME NEW p \in Thread, AllocRefused(p) PROVE Tame
  BY SMTT(60), <1>3 DEF AllocRefused
<1>4. ASSUME NEW p \in Thread, BarrierOpens(p) PROVE Tame
  BY SMTT(60), <1>4 DEF BarrierOpens
<1>5. ASSUME NEW p \in Thread, FailFastDone(p) PROVE Tame
  BY SMTT(60), <1>5 DEF FailFastDone
<1>6. ASSUME NEW p \in Thread, TimeoutFails(p) PROVE Tame
  BY SMTT(60), <1>6 DEF TimeoutFails
<1>7. ASSUME NEW p \in Thread, ReapInterrupted(p) PROVE Tame
  BY SMTT(60), <1>7 DEF ReapInterrupted
<1>8. ASSUME NEW p \in Thread, TimeoutExpired(p) PROVE Tame
  BY SMTT(60), <1>8 DEF TimeoutExpired
<1>9. ASSUME NEW p \in Thread, ReturnExpired(p) PROVE Tame
  BY SMTT(60), <1>9 DEF ReturnExpired
<1>10. ASSUME NEW p \in Thread, AwaitObservesTaken(p) PROVE Tame
  BY SMTT(60), <1>10 DEF AwaitObservesTaken
<1>11. ASSUME NEW p \in Thread, EndBody(p) PROVE Tame
  BY SMTT(60), <1>11 DEF EndBody
<1>12. ASSUME NEW p \in Thread, ReapDone(p) PROVE Tame
  BY SMTT(60), <1>12 DEF ReapDone
<1>13. ASSUME NEW p \in Thread, TimeoutDone(p) PROVE Tame
  BY SMTT(60), <1>13 DEF TimeoutDone
<1>14. ASSUME NEW p \in Thread, EnterTimeout(p) PROVE Tame
  BY SMTT(60), <1>14 DEF EnterTimeout
<1>15. ASSUME NEW p \in Thread, AwaitInterrupted(p) PROVE Tame
  BY SMTT(60), <1>15 DEF AwaitInterrupted
<1>16. ASSUME NEW p \in Thread, AwaitDone(p) PROVE Tame
  <2>1. Calm
    BY SMTT(60), <1>16 DEF AwaitDone, AwaitReaps
  <2> HIDE DEF Calm
  <2> QED
    BY Zenon, <1>16, <2>1
<1>17. ASSUME NEW p \in Thread, AwaitFails(p) PROVE Tame
  BY SMTT(60), <1>17 DEF AwaitFails, AwaitReaps
<1>18. ASSUME NEW p \in Thread, AwaitKillDone(p) PROVE Tame
  BY SMTT(60), <1>18 DEF AwaitKillDone
<1>19. ASSUME NEW p \in Thread, CancelReturns(p) PROVE Tame
  BY SMTT(60), <1>19 DEF CancelReturns
<1>20. ASSUME NEW p \in Thread, KillJoins(p) PROVE Tame
  BY Zenon, <1>20 DEF KillJoins
<1>21. ASSUME NEW p \in Thread, KillBgDone(p) PROVE Tame
  BY SMTT(60), <1>21 DEF KillBgDone
<1>22. ASSUME NEW p \in Thread, ThreadFails(p) PROVE Tame
  BY SMTT(60), <1>22 DEF ThreadFails, ThreadEnds
<1>23. ASSUME NEW p \in Thread, ThreadSucceeds(p) PROVE Tame
  BY SMTT(60), <1>23 DEF ThreadSucceeds, ThreadEnds
<1>24. ASSUME NEW p \in Thread, Return(p) PROVE Tame
  BY SMTT(60), <1>24 DEF Return
<1>25. ASSUME NEW p \in Thread, Dropped(p) PROVE Tame
  BY SMTT(60), <1>25 DEF Dropped, ThreadEnds
<1>26. ASSUME NEW p \in Thread, Deadline(p) PROVE Tame
  BY ZenonT(60), <1>26 DEF Deadline
<1>27. ASSUME NEW p \in Thread, NEW t \in Task, AwaitRefused(p, t) PROVE Tame
  BY SMTT(60), <1>27 DEF AwaitRefused
<1>28. ASSUME NEW p \in Thread, NEW t \in Task, CancelRefused(p, t) PROVE Tame
  BY SMTT(60), <1>28 DEF CancelRefused
<1>29. ASSUME NEW p \in Thread, NEW t \in Task, ReapBgFails(p, t) PROVE Tame
  BY SMTT(60), <1>29 DEF ReapBgFails
<1>30. ASSUME NEW p \in Thread, NEW t \in Task, AwaitFindsCancelled(p, t) PROVE Tame
  BY SMTT(60), <1>30 DEF AwaitFindsCancelled
<1>31. ASSUME NEW p \in Thread, NEW t \in Task, AwaitClaims(p, t) PROVE Tame
  BY SMTT(60), <1>31 DEF AwaitClaims
<1>32. ASSUME NEW p \in Thread, NEW t \in Task, CancelTakes(p, t) PROVE Tame
  BY SMTT(60), <1>32 DEF CancelTakes
<1>33. ASSUME NEW p \in Thread, NEW t \in Task, KillSignals(p, t) PROVE Tame
  BY Zenon, <1>33 DEF KillSignals
<1>34. ASSUME NEW p \in Thread, NEW t \in Task, ReapBg(p, t) PROVE Tame
  BY ZenonT(60), <1>34 DEF ReapBg
<1>35. ASSUME NEW t \in Task, Mark(t) PROVE Tame
  BY ZenonT(60), <1>35 DEF Mark
<1>36. ASSUME NEW t \in Task, ReapNamed(t) PROVE Tame
  BY ZenonT(60), <1>36 DEF ReapNamed, PollNamed
<1>37. ASSUME NEW t \in Task, ReapNamedFails(t) PROVE Tame
  BY SMTT(60), <1>37 DEF ReapNamedFails, PollNamed
<1>38. ASSUME MarkDone PROVE Tame
  BY SMTT(60), <1>38 DEF MarkDone
<1>39. ASSUME KillNamedDone PROVE Tame
  BY SMTT(60), <1>39 DEF KillNamedDone
<1>40. ASSUME Rendezvous PROVE Tame
  BY SMTT(60), <1>40 DEF Rendezvous
<1>41. ASSUME RendezvousDone PROVE Tame
  BY SMTT(60), <1>41 DEF RendezvousDone
<1>42. CASE UNCHANGED vars
  BY Zenon, <1>42 DEF vars
<1> QED
  BY ZenonT(60), <1>1, <1>2, <1>3, <1>4, <1>5, <1>6, <1>7, <1>8, <1>9,
     <1>10, <1>11, <1>12, <1>13, <1>14, <1>15, <1>16, <1>17, <1>18,
     <1>19, <1>20, <1>21, <1>22, <1>23, <1>24, <1>25, <1>26, <1>27,
     <1>28, <1>29, <1>30, <1>31, <1>32, <1>33, <1>34, <1>35, <1>36,
     <1>37, <1>38, <1>39, <1>40, <1>41, <1>42
     DEF Next, Step, Proceed, RootProceed


\* A spawned task ranks right below its spawner, before all that one knows.
RankAfter(r, p, t) ==
    [x \in Thread |-> IF x = t THEN r[p] + 1
                      ELSE IF r[x] > r[p] THEN r[x] + 1 ELSE r[x]]

\* A spawn keeps the ranks in order when nobody had a handle on the new task.
LEMMA RankSpawn ==
  ASSUME NEW r \in [Thread -> Nat], NEW p \in Thread, NEW t \in Thread, p # t,
         NEW E, NEW F,
         \A q \in Thread : \A u \in E[q] : u \in Thread /\ u # t /\ r[q] < r[u],
         \A q \in Thread : \A u \in F[q] :
            \/ u \in E[q] /\ q # t
            \/ q = p /\ u = t
            \/ q = t /\ u \in E[p]
  PROVE  /\ RankAfter(r, p, t) \in [Thread -> Nat]
         /\ \A q \in Thread : \A u \in F[q] :
               RankAfter(r, p, t)[q] < RankAfter(r, p, t)[u]
<1> DEFINE s == RankAfter(r, p, t)
<1>1. s \in [Thread -> Nat]
  BY SMTT(60) DEF RankAfter
<1>2. ASSUME NEW q \in Thread, NEW u \in F[q] PROVE s[q] < s[u]
  <2>1. CASE u \in E[q] /\ q # t
    <3>1. u \in Thread /\ u # t /\ r[q] < r[u]
      BY Zenon, <2>1
    <3> QED
      BY SMTT(60), <2>1, <3>1 DEF RankAfter
  <2>2. CASE q = p /\ u = t
    BY SMTT(60), <2>2 DEF RankAfter
  <2>3. CASE q = t /\ u \in E[p]
    <3>1. u \in Thread /\ u # t /\ r[p] < r[u]
      BY Zenon, <2>3
    <3> QED
      BY SMTT(60), <2>3, <3>1 DEF RankAfter
  <2> QED
    BY Zenon, <1>2, <2>1, <2>2, <2>3
<1> QED
  BY Zenon, <1>1, <1>2

\* Spawning and awaiting keep the order of who has a handle on whom.
LEMMA RankedStep == IInv /\ QInv /\ [Next]_vars => Ranked'
<1> SUFFICES ASSUME IInv, QInv, [Next]_vars PROVE Ranked'
  BY ZenonT(60)
<1> USE BoundsAreNat DEF IInv, QInv, TypeOK
<1>t. Task \subseteq Thread
  BY SMTT(60) DEF Task, Thread
<1>1. PICK r \in [Thread -> Nat] : Ranks(r)
  BY Zenon DEF Ranked
<1> DEFINE E == [q \in Thread |-> knows[q] \union bg[q]]
           F == [q \in Thread |-> knows'[q] \union bg'[q]]
<1>2. ASSUME NEW p \in Thread, SpawnNamed(p) \/ SpawnAnonymous(p) PROVE Ranked'
  <2> DEFINE t == arg[p]
  <2>1. t \in Task /\ pc[p] = "spawn" /\ pc[t] = "idle" /\ p # t /\ t \in Thread
    BY ZenonT(60), <1>2, <1>t DEF SpawnNamed, SpawnAnonymous, FreshInv, Spawners
  <2>2. knows[t] = {} /\ bg[t] = {}
    BY Zenon, <2>1 DEF Known, FreshInv, IdleThreads
  <2>3. ASSUME NEW q \in Thread, NEW u \in E[q] PROVE u \in Thread /\ u # t /\ r[q] < r[u]
    <3>1. pc[u] # "idle"
      BY ZenonT(60), <2>3 DEF Known, Ownership, HeldInv, HeldOf
    <3> QED
      BY ZenonT(60), <1>1, <1>t, <2>1, <2>3, <3>1 DEF Ranks
  <2>4. ASSUME NEW q \in Thread, NEW u \in F[q]
        PROVE  \/ u \in E[q] /\ q # t
               \/ q = p /\ u = t
               \/ q = t /\ u \in E[p]
    <3>1. CASE SpawnNamed(p)
      BY ZenonT(60), <2>1, <2>2, <2>4, <3>1 DEF SpawnNamed
    <3>2. CASE SpawnAnonymous(p)
      BY ZenonT(60), <2>1, <2>2, <2>4, <3>2 DEF SpawnAnonymous
    <3> QED
      BY ZenonT(60), <1>2, <3>1, <3>2
  <2> HIDE DEF t, E, F
  <2>5. /\ RankAfter(r, p, t) \in [Thread -> Nat]
        /\ \A q \in Thread : \A u \in F[q] : RankAfter(r, p, t)[q] < RankAfter(r, p, t)[u]
    BY ZenonT(60), <2>1, <2>3, <2>4, RankSpawn
  <2> QED
    BY ZenonT(60), <2>5 DEF Ranked, Ranks, F
<1>3. ASSUME NEW p \in Thread, AwaitDone(p) PROVE Ranked'
  <2>1. arg[p] \in knows[p] /\ arg[p] \in Thread
    BY ZenonT(60), <1>3, <1>t DEF AwaitDone, AwaitReaps, ArgKnown
  <2>2. \A q \in Thread : knows'[q] \subseteq knows[q] \union (IF q = p THEN knows[arg[p]] ELSE {})
    BY SMTT(60), <1>3 DEF AwaitDone
  <2>3. bg' = bg
    BY Zenon, <1>3 DEF AwaitDone
  <2>4. ASSUME NEW q \in Thread, NEW u \in knows'[q] \union bg'[q] PROVE r[q] < r[u]
    <3>1. CASE u \in knows[q] \union bg[q]
      BY Zenon, <1>1, <3>1 DEF Ranks
    <3>2. CASE q = p /\ u \in knows[arg[p]]
      <4>1. r[p] < r[arg[p]] /\ r[arg[p]] < r[u]
        BY ZenonT(60), <1>1, <2>1, <3>2 DEF Ranks
      <4>2. u \in Thread
        BY Zenon, <1>t, <2>1, <3>2
      <4> QED
        BY SMTT(60), <2>1, <3>2, <4>1, <4>2
    <3> QED
      BY Zenon, <2>2, <2>3, <2>4, <3>1, <3>2
  <2> QED
    BY ZenonT(60), <2>4 DEF Ranked, Ranks
<1>4. CASE UNCHANGED knows /\ \A q \in Thread : bg'[q] \subseteq bg[q]
  BY ZenonT(60), <1>1, <1>4 DEF Ranked, Ranks
<1>5. ASSUME NEW p \in Thread, AllocTaskId(p)
      PROVE  UNCHANGED knows /\ \A q \in Thread : bg'[q] \subseteq bg[q]
  BY ZenonT(60), <1>5 DEF AllocTaskId
<1> QED
  BY ZenonT(60), <1>2, <1>3, <1>4, <1>5, TameCases DEF Tame, Calm


\* Whoever is known has started, and AWAIT and CANCEL know their task.
LEMMA KnownStep == IInv /\ QInv /\ [Next]_vars => Known' /\ ArgKnown'
<1> SUFFICES ASSUME IInv, QInv, [Next]_vars PROVE Known' /\ ArgKnown'
  BY ZenonT(60)
<1> USE BoundsAreNat DEF IInv, QInv, TypeOK, Known, ArgKnown
<1>t. Task \subseteq Thread
  BY SMTT(60) DEF Task, Thread
<1>1. ASSUME NEW p \in Thread, SpawnNamed(p) \/ SpawnAnonymous(p)
      PROVE  Known' /\ ArgKnown'
  <2> DEFINE t == arg[p]
  <2>1. t \in Task /\ pc[p] = "spawn" /\ pc[t] = "idle" /\ p # t /\ t \in Thread
    BY ZenonT(60), <1>1, <1>t DEF SpawnNamed, SpawnAnonymous, FreshInv, Spawners
  <2>2. /\ pc' = [pc EXCEPT ![p] = "run", ![t] = "run"]
        /\ \A q \in Thread : knows'[q] \subseteq
              (IF q = t THEN knows[p] ELSE knows[q]) \union (IF q = p THEN {t} ELSE {})
        /\ \A q \in Thread : q \notin {p, t} => knows'[q] = knows[q] /\ arg'[q] = arg[q]
    <3>1. CASE SpawnNamed(p)
      BY ZenonT(60), <2>1, <3>1 DEF SpawnNamed
    <3>2. CASE SpawnAnonymous(p)
      BY ZenonT(60), <2>1, <3>2 DEF SpawnAnonymous
    <3> QED
      BY ZenonT(60), <1>1, <3>1, <3>2
  <2> HIDE DEF t
  <2>3. \A q \in Thread : pc[q] # "idle" \/ q \in {p, t} <=> pc'[q] # "idle"
    BY ZenonT(60), <2>1, <2>2
  <2>4. Known'
    BY ZenonT(60), <1>t, <2>1, <2>2, <2>3
  <2>5. ArgKnown'
    BY ZenonT(60), <2>1, <2>2
  <2> QED
    BY Zenon, <2>4, <2>5
<1>2. ASSUME NEW p \in Thread, AllocTaskId(p) PROVE Known' /\ ArgKnown'
  BY ZenonT(60), <1>2, <1>t DEF AllocTaskId, CanStep
<1>3. ASSUME Tame PROVE Known' /\ ArgKnown'
  <2>1. CASE UNCHANGED knows
    BY ZenonT(60), <1>3, <1>t, <2>1 DEF Tame, Calm
  <2>2. ASSUME NEW p \in Thread, AwaitDone(p) PROVE Known' /\ ArgKnown'
    <3>1. arg[p] \in Task /\ arg[p] \in Thread
      BY ZenonT(60), <2>2, <1>t DEF AwaitDone, AwaitReaps, ArgInv
    <3>2. /\ \A q \in Thread : knows[q] \subseteq knows'[q]
          /\ \A q \in Thread : q # p => knows'[q] = knows[q]
          /\ knows'[p] \subseteq knows[p] \union knows[arg[p]]
      BY SMTT(60), <2>2, <3>1 DEF AwaitDone
    <3>3. pc[p] = "await"
      BY Zenon, <2>2 DEF AwaitDone, AwaitReaps
    <3>4. \A q \in Thread : pc'[q] = "idle" <=> pc[q] = "idle"
      BY ZenonT(60), <1>3 DEF Tame, Calm
    <3>5. Known'
      BY ZenonT(60), <1>t, <3>1, <3>2, <3>3, <3>4
    <3>6. ArgKnown'
      BY ZenonT(60), <1>3, <3>2 DEF Tame, Calm
    <3> QED
      BY Zenon, <3>5, <3>6
  <2> QED
    BY ZenonT(60), <1>3, <2>1, <2>2 DEF Tame
<1> QED
  BY ZenonT(60), <1>1, <1>2, <1>3, TameCases

\* A sweep evicts no task that runs and is nobody's to tear down.
LEMMA RegisteredStep == IInv /\ QInv /\ [Next]_vars => Registered' /\ VictimsEnded'
<1> SUFFICES ASSUME IInv, QInv, [Next]_vars PROVE Registered' /\ VictimsEnded'
  BY Zenon
<1>t. Task \subseteq Thread
  BY SMTT(60), BoundsAreNat DEF Task, Thread
<1>e. EntriesStable /\ FinishedStays
  BY ZenonT(60), EntryStable, FinishedStable DEF IInv
<1>w. TypeOK /\ ArgInv /\ FreshInv /\ EntryInv
  BY ZenonT(60) DEF IInv
<1>q. Registered /\ VictimsEnded /\ pc[Root] # "drop"
  BY ZenonT(60) DEF QInv
<1>f. \A t \in Task : Finished(t) => Finished(t)'
  BY ZenonT(60), <1>e, <1>t DEF FinishedStays, Finished
<1>a. \A t \in Task : Alive(t)' /\ pc[t] # "idle" => Alive(t)
  BY ZenonT(60), <1>e, <1>t, <1>f DEF Alive, Finished, FinishedStays
<1>v. \A t \in Task : Finished(t) \/ phase[t] \in {"Cancelled", "Completed"} =>
          Finished(t)' \/ phase'[t] \in {"Cancelled", "Completed"}
  BY ZenonT(60), <1>e, <1>f DEF EntriesStable, StableEntry
<1>1. ASSUME NEW p \in Thread, SpawnNamed(p) \/ SpawnAnonymous(p)
      PROVE  Registered' /\ VictimsEnded'
  <2> DEFINE t == arg[p]
  <2>1. t \in Task /\ pc[t] = "idle" /\ phase[t] = "None" /\ p # t
    BY ZenonT(60), <1>1, <1>w DEF SpawnNamed, SpawnAnonymous, FreshInv,
       Spawners, IdleTasks
  <2>2. /\ victims' = [victims EXCEPT ![p] = {}]
        /\ \A u \in Task : u # t =>
              /\ u \in registry' <=> u \in registry \ victims[p]
              /\ phase'[u] = IF u \in victims[p] /\ phase[u] = "Running" THEN "Gone" ELSE phase[u]
              /\ pc[u] = "idle" => pc'[u] = "idle"
        /\ phase'[t] \in {"Running", "None"}
        /\ phase'[t] = "Running" <=> t \in registry'
    <3>p. /\ PhaseAfterSweep(p) \in [Task -> {phase[u] : u \in Task} \union {"Gone"}]
          /\ \A u \in Task : PhaseAfterSweep(p)[u] =
                IF u \in victims[p] /\ phase[u] = "Running" THEN "Gone" ELSE phase[u]
      BY ZenonT(60) DEF PhaseAfterSweep, Evicted
    <3>i. ASSUME pc' = [pc EXCEPT ![p] = "run", ![t] = "run"], pc[p] = "spawn",
                 NEW u \in Task, u # t, pc[u] = "idle"
          PROVE  pc'[u] = "idle"
      BY ZenonT(60), <1>w, <1>t, <3>i DEF TypeOK
    <3>1. CASE SpawnNamed(p)
      BY ZenonT(60), <1>w, <2>1, <3>1, <3>p, <3>i DEF SpawnNamed
    <3>2. CASE SpawnAnonymous(p)
      <4>1. t \notin registry
        BY ZenonT(60), <1>q, <2>1 DEF Registered
      <4> QED
        BY ZenonT(60), <1>w, <2>1, <3>2, <3>p, <3>i, <4>1 DEF SpawnAnonymous
    <3> QED
      BY ZenonT(60), <1>1, <3>1, <3>2
  <2> HIDE DEF t
  <2>3. \A u \in Task : u \in victims[p] => Finished(u) \/ phase[u] \in {"Cancelled", "Completed"}
    BY ZenonT(60), <1>q DEF VictimsEnded
  <2>4. ASSUME NEW u \in Task, u # t
        PROVE  /\ u \in registry' => phase'[u] # "None"
               /\ Alive(u)' /\ phase'[u] \in {"Running", "Awaiting"} => u \in registry'
               /\ phase'[u] = "Gone" => Finished(u)'
    <3>1. u \in registry' => phase'[u] # "None"
      BY ZenonT(60), <1>q, <2>2, <2>4 DEF Registered
    <3>2. ASSUME Alive(u)', phase'[u] \in {"Running", "Awaiting"} PROVE u \in registry'
      <4>1. Alive(u) /\ ~Finished(u)
        BY ZenonT(60), <1>a, <2>2, <2>4, <3>2 DEF Alive, Finished
      <4>2. phase[u] = phase'[u]
        BY ZenonT(60), <2>2, <2>4, <3>2
      <4>3. u \notin victims[p]
        BY ZenonT(60), <2>3, <3>2, <4>1, <4>2
      <4> QED
        BY ZenonT(60), <1>q, <2>2, <2>4, <3>2, <4>1, <4>2, <4>3 DEF Registered
    <3>3. ASSUME phase'[u] = "Gone" PROVE Finished(u)'
      <4>1. CASE phase[u] = "Gone"
        BY ZenonT(60), <1>q, <1>f, <4>1 DEF Registered
      <4>2. CASE u \in victims[p] /\ phase[u] = "Running"
        BY ZenonT(60), <1>f, <2>3, <4>2
      <4> QED
        BY ZenonT(60), <2>2, <2>4, <3>3, <4>1, <4>2
    <3> QED
      BY ZenonT(60), <3>1, <3>2, <3>3
  <2>5. Registered'
    BY ZenonT(60), <2>1, <2>2, <2>4 DEF Registered
  <2>6. VictimsEnded'
    <3> SUFFICES ASSUME NEW q \in Thread, NEW u \in victims'[q]
                 PROVE  Finished(u)' \/ phase'[u] \in {"Cancelled", "Completed"}
      BY ZenonT(60) DEF VictimsEnded
    <3>1. u \in victims[q] /\ u \in Task
      BY ZenonT(60), <1>w, <2>2 DEF TypeOK
    <3> QED
      BY ZenonT(60), <1>q, <1>v, <3>1 DEF VictimsEnded
  <2> QED
    BY ZenonT(60), <2>5, <2>6
<1>2. ASSUME NEW p \in Thread, AllocTaskId(p) PROVE Registered' /\ VictimsEnded'
  <2>1. /\ UNCHANGED <<registry, phase>>
        /\ pc' = [pc EXCEPT ![p] = "spawn"] /\ pc[p] = "run"
        /\ victims' = [victims EXCEPT ![p] = SweepCollect]
    BY ZenonT(60), <1>2 DEF AllocTaskId, CanStep, entryVars
  <2>2. \A u \in Task : Alive(u)' <=> Alive(u)
    BY ZenonT(60), <1>w, <1>t, <2>1 DEF TypeOK, Alive
  <2>3. Registered'
    BY ZenonT(60), <1>q, <1>f, <2>1, <2>2 DEF Registered
  <2>4. ASSUME NEW u \in SweepCollect
        PROVE  u \in Task /\ (Finished(u) \/ phase[u] \in {"Cancelled", "Completed"})
    <3>1. u \in registry /\ ~IsLive(u) /\ u \in Task
      BY ZenonT(60), <1>w, <2>4 DEF SweepCollect, TypeOK
    <3>2. phase[u] \in {"Running", "Cancelled", "Completed", "Gone"}
      BY ZenonT(60), <1>w, <1>q, <3>1 DEF TypeOK, IsLive, Registered
    <3>3. phase[u] = "Running" => handle[u]
      BY ZenonT(60), <1>w, <3>1 DEF EntryInv
    <3> QED
      BY ZenonT(60), <1>q, <3>1, <3>2, <3>3 DEF IsLive, Registered
  <2>5. VictimsEnded'
    <3> SUFFICES ASSUME NEW q \in Thread, NEW u \in victims'[q]
                 PROVE  Finished(u)' \/ phase'[u] \in {"Cancelled", "Completed"}
      BY Zenon DEF VictimsEnded
    <3>1. u \in Task /\ (u \in victims[q] \/ u \in SweepCollect)
      BY ZenonT(60), <1>w, <2>1, <2>4 DEF TypeOK
    <3> QED
      BY ZenonT(60), <1>q, <1>v, <2>4, <3>1 DEF VictimsEnded
  <2> QED
    BY Zenon, <2>3, <2>5
<1>3. ASSUME Tame PROVE Registered' /\ VictimsEnded'
  <2>1. Registered'
    <3>1. \A u \in Task : Alive(u)' => Alive(u)
      BY ZenonT(60), <1>a, <1>t, <1>3 DEF Tame, Calm, Alive
    <3>2. \A u \in Task : phase[u] # "None" => phase'[u] # "None"
      BY ZenonT(60), <1>e DEF EntriesStable, StableEntry
    <3> QED
      BY ZenonT(60), <1>q, <1>f, <1>3, <3>1, <3>2 DEF Tame, Calm, Registered
  <2>2. VictimsEnded'
    BY ZenonT(60), <1>w, <1>q, <1>v, <1>3 DEF Tame, Calm, VictimsEnded, TypeOK
  <2> QED
    BY ZenonT(60), <2>1, <2>2
<1> QED
  BY ZenonT(60), <1>w, <1>q, <1>1, <1>2, <1>3, TameCases


\* The order of the naturals is well-founded.
Less == {ss \in Nat \X Nat : ss[1] < ss[2]}

\* Every set of naturals has a least element.
LEMMA LessWellFounded == IsWellFoundedOn(Less, Nat)
  BY ZenonT(60), NatLessThanWellFounded DEF OpToRel, Less

\* Every non-empty set of naturals has a smallest element.
LEMMA NatMin ==
  ASSUME NEW S \in SUBSET Nat, S # {}
  PROVE  \E m \in S : \A n \in S : m =< n
<1>1. PICK m \in S : \A n \in S : <<n, m>> \notin Less
  BY ZenonT(60), LessWellFounded, WFMin
<1>2. ASSUME NEW n \in S PROVE m =< n
  <2>1. <<n, m>> \in Nat \X Nat /\ <<n, m>>[1] = n /\ <<n, m>>[2] = m
    BY ZenonT(60)
  <2>2. ~(n < m)
    BY <1>1, <2>1, ZenonT(60) DEF Less
  <2> QED
    BY SMTT(60), <2>2
<1> QED
  BY ZenonT(60), <1>2

\* When the last reap of the root flow finds nothing, no task is left: the
\* lowest ranked one left would be registered and not reaped, or owned by or
\* the child of the root flow.
LEMMA ClosingIsQuiet == IInv /\ QInv /\ Closes => \A t \in Task : ~Alive(t)
<1> SUFFICES ASSUME IInv, QInv, Closes, NEW t0 \in Task, Alive(t0) PROVE FALSE
  BY ZenonT(60)
<1> USE BoundsAreNat
<1>t. Task \subseteq Thread /\ Root \in Thread /\ \A p \in Thread : p # Root => p \in Task
  BY SMTT(60) DEF Task, Thread, Root
<1>w. TypeOK /\ EntryInv /\ Ownership /\ FreshInv
  BY ZenonT(60) DEF IInv
<1>1. PICK r \in [Thread -> Nat] : Ranks(r)
  BY ZenonT(60) DEF QInv, Ranked
<1> DEFINE S == {r[t] : t \in {u \in Task : Alive(u)}}
<1>2. S \in SUBSET Nat /\ S # {}
  BY ZenonT(60), <1>t
<1>3. PICK m \in S : \A n \in S : m =< n
  BY ZenonT(60), <1>2, NatMin
<1>4. PICK t \in Task : Alive(t) /\ r[t] = m
  BY ZenonT(60), <1>3
<1>5. ASSUME NEW p \in Task, Alive(p), t \in knows[p] \union bg[p] PROVE FALSE
  <2>1. r[p] < r[t] /\ r[p] \in Nat /\ r[t] \in Nat
    BY ZenonT(60), <1>1, <1>t, <1>5 DEF Ranks
  <2>2. m =< r[p]
    BY ZenonT(60), <1>3, <1>5
  <2> QED
    BY SMTT(60), <1>4, <2>1, <2>2
<1>6. bg[Root] = {} /\ \A u \in registry : reaped[u]
  <2>1. floor[Root] = 0 /\ ~Pending(Root)
    BY ZenonT(60) DEF Closes, None
  <2>2. \A u \in Task : u >= floor[Root]
    BY SMTT(60), <2>1 DEF Task
  <2> QED
    BY ZenonT(60), <1>w, <1>t, <2>1, <2>2 DEF Pending, InScope, TypeOK
<1>7. CASE phase[t] = "None"
  <2>1. PICK p \in Thread : Alive(p) /\ t \in bg[p]
    BY ZenonT(60), <1>w, <1>4, <1>7 DEF Ownership, NoOrphans
  <2> QED
    BY ZenonT(60), <1>t, <1>5, <1>6, <2>1
<1>8. CASE phase[t] = "Cancelled" /\ ~reaped[t]
  <2>1. PICK p \in Thread : t \in Owns(p)
    BY ZenonT(60), <1>w, <1>8 DEF Ownership, OwnerInv
  <2>2. HeldOf(p) /\ t # None
    BY SMTT(60), <1>w, <2>1 DEF Ownership, HeldInv, Task, None
  <2>3. pc[p] \in KillPcs \union {"mark"}
    BY ZenonT(60), <1>w, <2>1, <2>2 DEF Owns, HeldOf, KillPcs
  <2>4. p # Root
    BY ZenonT(60), <2>3 DEF Closes, KillPcs
  <2>5. Alive(p)
    BY ZenonT(60), <2>3 DEF Alive, KillPcs
  <2>6. CASE pc[p] \in {"killbg", "drop"}
    <3>1. t \in bg[p]
      BY ZenonT(60), <2>1, <2>2, <2>6 DEF Owns, HeldOf
    <3> QED
      BY ZenonT(60), <1>t, <1>5, <2>4, <2>5, <3>1
  <2>7. CASE pc[p] \in {"cancel", "awaitkill"}
    <3>1. t = arg[p] /\ arg[p] \in knows[p]
      BY ZenonT(60), <2>1, <2>2, <2>7 DEF Owns, HeldOf, QInv, ArgKnown
    <3> QED
      BY ZenonT(60), <1>t, <1>5, <2>4, <2>5, <3>1
  <2>8. CASE pc[p] \in {"mark", "killnamed"}
    BY ZenonT(60), <2>2, <2>4, <2>8 DEF HeldOf
  <2> QED
    BY ZenonT(60), <2>3, <2>6, <2>7, <2>8 DEF KillPcs
<1>9. CASE reaped[t]
  BY ZenonT(60), <1>w, <1>4, <1>9 DEF EntryInv, Alive, Finished
<1>10. CASE phase[t] \in {"Running", "Awaiting"}
  BY ZenonT(60), <1>4, <1>6, <1>9, <1>10 DEF QInv, Registered
<1>11. CASE phase[t] = "Completed"
  BY ZenonT(60), <1>w, <1>9, <1>11 DEF EntryInv
<1>12. CASE phase[t] = "Gone"
  BY ZenonT(60), <1>4, <1>12 DEF QInv, Registered, Alive, Finished
<1> QED
  BY ZenonT(60), <1>w, <1>7, <1>8, <1>9, <1>10, <1>11, <1>12 DEF TypeOK

\* Once the root flow is past its last reap, nothing starts again.
LEMMA QuietStep == IInv /\ QInv /\ [Next]_vars => Quiet' /\ pc'[Root] # "drop"
<1> SUFFICES ASSUME IInv, QInv, [Next]_vars PROVE Quiet' /\ pc'[Root] # "drop"
  BY ZenonT(60)
<1> USE BoundsAreNat
<1>t. Task \subseteq Thread /\ Root \in Thread /\ \A p \in Thread : p # Root => p \in Task
  BY SMTT(60) DEF Task, Thread, Root
<1>w. TypeOK /\ ArgInv /\ FreshInv /\ pc[Root] # "drop" /\ Quiet
  BY ZenonT(60) DEF IInv, QInv
<1>e. FinishedStays
  BY ZenonT(60), <1>w, FinishedStable
<1>1. ASSUME NEW p \in Thread, SpawnNamed(p) \/ SpawnAnonymous(p) \/ AllocTaskId(p)
      PROVE  Quiet' /\ pc'[Root] # "drop"
  <2>1. pc[p] \in {"spawn", "run"} /\ pc'[p] \in {"run", "spawn"}
    BY ZenonT(60), <1>1, <1>w DEF SpawnNamed, SpawnAnonymous, AllocTaskId,
       CanStep, TypeOK, FreshInv, Spawners
  <2>2. pc'[Root] \in {pc[Root], "run", "spawn"}
    BY ZenonT(60), <1>1, <1>w, <1>t DEF SpawnNamed, SpawnAnonymous,
       AllocTaskId, TypeOK
  <2>3. ASSUME RootOver' PROVE FALSE
    <3>1. pc[Root] \in {"ok", "bodyok"} /\ p # Root
      BY ZenonT(60), <2>1, <2>2, <2>3 DEF RootOver
    <3>2. UNCHANGED floor
      BY ZenonT(60), <1>1 DEF SpawnNamed, SpawnAnonymous, AllocTaskId, scopeVars
    <3>3. RootOver
      BY ZenonT(60), <2>2, <2>3, <3>1, <3>2 DEF RootOver
    <3>4. Alive(p) /\ p \in Task
      BY ZenonT(60), <1>t, <2>1, <3>1 DEF Alive
    <3> QED
      BY ZenonT(60), <1>w, <3>3, <3>4 DEF Quiet
  <2> QED
    BY ZenonT(60), <1>w, <2>2, <2>3 DEF Quiet
<1>2. ASSUME Tame PROVE Quiet' /\ pc'[Root] # "drop"
  <2>1. pc'[Root] # "drop"
    BY ZenonT(60), <1>2 DEF Tame, Calm
  <2>2. ASSUME RootOver' PROVE \A t \in Task : ~Alive(t)
    BY ZenonT(60), <1>2, <1>w, <2>2, ClosingIsQuiet DEF Tame, Calm, Quiet
  <2>3. ASSUME NEW t \in Task, ~Alive(t) PROVE ~Alive(t)'
    <3>1. CASE Finished(t)
      BY ZenonT(60), <1>t, <1>e, <3>1 DEF FinishedStays, Finished, Alive
    <3>2. CASE pc[t] = "idle"
      BY ZenonT(60), <1>t, <1>2, <3>2 DEF Tame, Calm, Alive
    <3> QED
      BY ZenonT(60), <2>3, <3>1, <3>2 DEF Alive, Finished
  <2> QED
    BY ZenonT(60), <2>1, <2>2, <2>3 DEF Quiet
<1> QED
  BY ZenonT(60), <1>w, <1>1, <1>2, TameCases

\* A fresh run knows no task.
LEMMA QuietInit == Init => QInv
<1> SUFFICES ASSUME Init PROVE QInv
  BY Zenon
<1>1. Ranked
  <2>1. Ranks([p \in Thread |-> 0])
    BY ZenonT(60) DEF Ranks, Init
  <2> QED
    BY ZenonT(60), <2>1 DEF Ranked
<1> QED
  BY SMTT(60), <1>1, BoundsAreNat DEF QInv, Init, Known, ArgKnown, Registered,
     VictimsEnded, Quiet,
     RootOver, Alive, Root, Thread, Task

\* Handles go from later to earlier knowers only, so no two tasks can ever
\* tear each other down, and a root flow that ends well leaves none running.
THEOREM QuietInductive == Spec => []QInv
<1>1. IInv /\ QInv /\ [Next]_vars => QInv'
  BY ZenonT(60), RankedStep, KnownStep, RegisteredStep, QuietStep DEF QInv
<1> QED
  BY QuietInit, Inductive, <1>1, PTL DEF Spec

\* No task runs when the root flow has ended well, whatever tasks spawned,
\* awaited, cancelled and evicted each other before.
THEOREM RootEndsQuiet == Spec => []RootOkMeansQuiet
<1>1. QInv => RootOkMeansQuiet
  BY Zenon DEF QInv, Quiet, RootOver, RootOkMeansQuiet
<1> QED
  BY QuietInductive, <1>1, PTL

=============================================================================

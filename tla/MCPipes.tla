------------------------------ MODULE MCPipes ------------------------------
(***************************************************************************)
(* Script pipes for TLC.  A behaviour is of one of two parts: any callers  *)
(* of one pipe (ScriptPipe with the handles of Alone), or the root flow    *)
(* and a task that share one (AsyncPipe).                                  *)
(***************************************************************************)
EXTENDS AsyncPipe

VARIABLE part

P == "produce"
C == "consume"
O == "other"

\* Bodies with gaps between writing commands, blocks whose inner indices
\* coincide with the step at which the keeper expires, and reads after the
\* last write.  A body that reads to the end before its own last write would
\* wait for itself and is left out.
SomeBodies ==
    { <<<<P>>, <<O>>, <<P>>, <<C>>>>,
      <<<<P, P>>, <<P>>, <<C>>>>,
      <<<<P>>, <<O, P>>, <<O>>>>,
      <<<<P>>, <<C>>, <<C>>>> }

-----------------------------------------------------------------------------
(* The pipe alone, with the first writers of the set *)

CONSTANT AloneWriter

AloneNext ==
    /\ \/ \E w \in AloneWriter : WriterStep(w)
       \/ \E k \in Keeper : KeeperStep(k)
       \/ \E c \in Control : ControlStep(c)
       \/ \E c \in Caller : NotifyAll(c)
       \/ \E r \in Reader : ReaderStep(r)
    /\ UNCHANGED taskVars

-----------------------------------------------------------------------------
PipesInit == \/ part = "alone" /\ AsyncInit /\ body = CHOOSE b \in Bodies : TRUE
             \/ part = "async" /\ AsyncInit

PipesNext == \/ part = "alone" /\ AloneNext /\ UNCHANGED part
             \/ part = "async" /\ AsyncNext /\ UNCHANGED part

PipesSpec ==
    /\ PipesInit /\ [][PipesNext]_<<part, allVars>>
    /\ WF_allVars(part = "async" /\ (RootReads \/ RootReadDone))
    /\ WF_allVars(part = "async" /\ RootDetaches) /\ WF_allVars(part = "async" /\ Spawn)
    /\ WF_allVars(part = "async" /\ WorkerStep)
    /\ \A c \in Caller : WF_allVars(NotifyAll(c) /\ UNCHANGED taskVars)
    /\ \A r \in Reader : WF_allVars(ReadProceeds(r) /\ UNCHANGED taskVars)

=============================================================================

--------------------------- MODULE MCTaskRegistry ----------------------------
(***************************************************************************)
(* TaskRegistry for TLC: the classes of scripts the runs look at.          *)
(***************************************************************************)
EXTENDS TaskRegistry

AllRootOps == Steps \ {"RETURN"}
AllWorkerOps == Steps
=============================================================================

------------------------------ MODULE MCRemote ------------------------------
(* A REMOTE block that feeds its standard input to a script that reads it. *)
EXTENDS Remote

StdinScenarios ==
    {[hasStdin |-> TRUE, stdin |-> <<"i1", "i2">>, open |-> FALSE, reads |-> TRUE, writes |-> 1,
      end |-> "ok", fetch |-> <<>>, push |-> <<>>, tree |-> {},
      sameProtocol |-> TRUE, sameModules |-> TRUE, faults |-> {}]}
=============================================================================

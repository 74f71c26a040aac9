---------------------------- MODULE MCScheduler ----------------------------
(* Scheduler for three nodes: a card of which nothing is donated, several  *)
(* cards each capped to the share of all, a CPU node for the lesser half   *)
(* of a pipeline, a pod member that a script declares, and a fast machine  *)
(* without a backend of the model.                                         *)
EXTENDS Scheduler

CONSTANTS n1, n2, n3

MCRows == <<n1, n2, n3>>
MCBoxes ==
  {[cards |-> <<48>>, ram |-> 8, speed |-> 0, share |-> 0,
    joins |-> {}, managed |-> TRUE, runs |-> TRUE],
   [cards |-> <<16, 16, 16>>, ram |-> 8, speed |-> 8000, share |-> 20,
    joins |-> {"replica", "pipeline", "draft"}, managed |-> TRUE, runs |-> TRUE],
   [cards |-> <<>>, ram |-> 8, speed |-> 8000, share |-> 85,
    joins |-> {"pipeline"}, managed |-> TRUE, runs |-> TRUE],
   [cards |-> <<48>>, ram |-> 64, speed |-> 4000, share |-> 30,
    joins |-> {"single", "replica", "tensor"}, managed |-> FALSE, runs |-> TRUE],
   [cards |-> <<48>>, ram |-> 64, speed |-> 2000, share |-> 100,
    joins |-> {"pipeline", "draft"}, managed |-> TRUE, runs |-> FALSE]}
MCClientRTT == (n1 :> 10) @@ (n2 :> 10) @@ (n3 :> None)
=============================================================================

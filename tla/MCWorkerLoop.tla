---------------------------- MODULE MCWorkerLoop ----------------------------
(* Small instances of WorkerLoop for TLC.                                     *)
EXTENDS WorkerLoop

CONSTANTS s1, s2

\* A strict burst worker that holds one task of its top lane, with two consumers;
\* and a weighted one that holds one task of its low lane and can be stopped.
StrictAndWeighted ==
  {[weights |-> << >>, limits |-> <<1, Prefetch>>, slots |-> {s1, s2},
    burst |-> TRUE, stops |-> FALSE],
   [weights |-> <<2, 1>>, limits |-> <<Prefetch, 1>>, slots |-> {s1},
    burst |-> FALSE, stops |-> TRUE]}
=============================================================================

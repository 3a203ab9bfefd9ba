-------------------------------- MODULE Jobs --------------------------------
(***************************************************************************)
(* What a queue promises its callers, without streams, locks or workers.   *)
(* A job is one accepted staging of a task id.  It stays open until it     *)
(* settles, is executed by one worker at a time, perhaps several times, is *)
(* not begun again after its abort was accepted, and only once it has      *)
(* settled may its id be accepted again.                                   *)
(***************************************************************************)
EXTENDS Naturals

CONSTANTS Tasks, MaxStaged

JobIds == Tasks \X (1 .. MaxStaged)

VARIABLES
  state,     \* see States
  aborted    \* jobs whose abort was accepted

States == {"none", "open", "running", "settled"}

Init == state = [j \in JobIds |-> "none"] /\ aborted = {}

Become(S, from, to) ==
  /\ \A j \in S : state[j] \in from
  /\ state' = [j \in JobIds |-> IF j \in S THEN to ELSE state[j]]

\* A batch, whose ids have no unsettled job.
Accept(S) ==
  /\ S # {}
  /\ Become(S, {"none"}, "open")
  /\ \A j \in S : \A i \in 1 .. (j[2] - 1) : state[<<j[1], i>>] = "settled"
  /\ UNCHANGED aborted

Start(j) == j \notin aborted /\ Become({j}, {"open"}, "running") /\ UNCHANGED aborted

\* An attempt is over, or its worker is: the job is open again.
Stop(S) == S # {} /\ Become(S, {"running"}, "open") /\ UNCHANGED aborted

Settle(S) == S # {} /\ Become(S, {"open", "running"}, "settled") /\ UNCHANGED aborted

\* A job that only waits for its time settles at once.
Abort(j) ==
  /\ aborted' = aborted \cup {j}
  /\ \/ Become({j}, {"open"}, "settled")
     \/ state[j] \in {"open", "running"} /\ UNCHANGED state

Next ==
  \/ \E S \in SUBSET JobIds : Accept(S) \/ Stop(S) \/ Settle(S)
  \/ \E j \in JobIds : Start(j) \/ Abort(j)

Spec == Init /\ [][Next]_<<state, aborted>>
=============================================================================

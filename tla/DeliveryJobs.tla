---------------------------- MODULE DeliveryJobs ----------------------------
(***************************************************************************)
(* Delivery implements Jobs, as long as nothing expires by itself and no   *)
(* worker holds an entry past the idle timeout (Lease = "held").           *)
(***************************************************************************)
EXTENDS Delivery

\* A consumer that has fetched the payload executes the job, until its attempt
\* ends; the outcome is not known before the pipeline that records it.
Executes(c, j) ==
  /\ pc[c] \in {"fetched", "running"}
  /\ msg[c].task = j[1] /\ load[c] = j[2]

JobState(j) ==
  IF \E c \in Consumers : Executes(c, j) THEN "running"
  ELSE IF j \in settled THEN "settled"
  ELSE IF j[2] <= staged[j[1]] THEN "open" ELSE "none"

JobStates == [j \in Tasks \X (1 .. MaxStaged) |-> JobState(j)]

J == INSTANCE Jobs WITH state <- JobStates

\* Every step of workers, callers and Redis, with crashes, stops, lost commands
\* and purges, is a step of Jobs or leaves the jobs as they are: no job is lost,
\* executed after it settled or begun after its abort, one that was interrupted
\* goes on waiting, and an id is accepted again only when its job has settled.
JobsImplemented == J!Spec
=============================================================================

----------------------------- MODULE JobsProofs -----------------------------
(***************************************************************************)
(* Delivery implements Jobs, for any tasks, lanes, workers, slots and      *)
(* bounds: the initial states map to the initial state of Jobs, and every  *)
(* step to one of its steps or to none.                                    *)
(***************************************************************************)
EXTENDS DeliveryJobs, HeldProofs

Runs(j) == \E c \in Consumers : Executes(c, j)

\* The mapped state, read off the payloads and the consumers.
Stands ==
  /\ JobStates = [j \in J!JobIds |-> JobStates[j]]
  /\ \A j \in J!JobIds :
       /\ j[1] \in Tasks /\ j[2] \in 1..MaxStaged /\ j = <<j[1], j[2]>>
       /\ staged[j[1]] \in Nat /\ data[j[1]] \in {0, staged[j[1]]}
       /\ Runs(j) => j[2] = data[j[1]]
       /\ JobStates[j] = IF Runs(j) THEN "running"
                         ELSE IF j[2] > staged[j[1]] THEN "none"
                         ELSE IF j[2] = data[j[1]] THEN "open" ELSE "settled"

LEMMA HeldStands == HeldInv => Stands
<1> SUFFICES ASSUME HeldInv PROVE Stands
  OBVIOUS
<1>1. Ledger /\ BrokerTypeOK /\ LoadIsStored
  BY FromHeld DEF Books
<1>2. JobStates = [j \in J!JobIds |-> JobStates[j]]
  BY DEF JobStates, J!JobIds
<1>3. ASSUME NEW j \in J!JobIds
      PROVE  /\ j[1] \in Tasks /\ j[2] \in 1..MaxStaged /\ j = <<j[1], j[2]>>
             /\ staged[j[1]] \in Nat /\ data[j[1]] \in {0, staged[j[1]]}
             /\ Runs(j) => j[2] = data[j[1]]
             /\ JobStates[j] = IF Runs(j) THEN "running"
                               ELSE IF j[2] > staged[j[1]] THEN "none"
                               ELSE IF j[2] = data[j[1]] THEN "open" ELSE "settled"
  <2>1. j[1] \in Tasks /\ j[2] \in 1..MaxStaged /\ j = <<j[1], j[2]>>
    BY DEF J!JobIds
  <2>2. staged[j[1]] \in Nat /\ data[j[1]] \in {0, staged[j[1]]}
    BY <1>1, <2>1 DEF Ledger, BrokerTypeOK
  <2>3. Runs(j) => j[2] = data[j[1]]
    BY <1>1 DEF Runs, Executes, LoadIsStored
  <2>4. j \in settled <=> j[2] <= staged[j[1]] /\ j[2] # data[j[1]]
    BY <1>1, <2>1 DEF Ledger
  <2>5. JobStates[j] = JobState(j)
    BY DEF JobStates, J!JobIds
  <2>6. j[2] \in Int /\ staged[j[1]] \in Int
    BY <2>1, <2>2, BrokerAssumption
  <2>7. JobState(j) = IF Runs(j) THEN "running"
                     ELSE IF j \in settled THEN "settled"
                     ELSE IF j[2] <= staged[j[1]] THEN "open" ELSE "none"
    BY DEF JobState, Runs
  <2> HIDE DEF JobState
  <2> QED
    BY <2>1, <2>2, <2>3, <2>4, <2>5, <2>6, <2>7
<1> QED
  BY <1>2, <1>3 DEF Stands

LEMMA NextStands == HeldInv' => Stands'
BY HeldStands, PTL

LEMMA Becomes ==
  ASSUME Stands', NEW S, NEW from, NEW to, \A j \in S : JobStates[j] \in from,
         \A j \in J!JobIds : JobStates'[j] = IF j \in S THEN to ELSE JobStates[j]
  PROVE  J!Become(S, from, to)
<1>1. JobStates' = [j \in J!JobIds |-> JobStates'[j]]
  BY DEF Stands
<1>2. JobStates' = [j \in J!JobIds |-> IF j \in S THEN to ELSE JobStates[j]]
  BY <1>1
<1> QED
  BY <1>2 DEF J!Become

LEMMA Unchanged ==
  ASSUME Stands, Stands', \A j \in J!JobIds : JobStates'[j] = JobStates[j]
  PROVE  JobStates' = JobStates
BY DEF Stands

\* A step of Jobs, or none.
Maps == [J!Next]_<<JobStates, aborted>>

-----------------------------------------------------------------------------
(* The steps of Jobs, from what happens to payloads and consumers.         *)

\* Attempts may end, and nothing else.
LEMMA StopMaps ==
  ASSUME Stands, Stands', UNCHANGED <<staged, data, aborted>>,
         \A j \in J!JobIds : Runs(j)' => Runs(j)
  PROVE  Maps
<1> DEFINE S == {j \in J!JobIds : Runs(j) /\ ~Runs(j)'}
<1>1. \A j \in J!JobIds : JobStates'[j] = IF j \in S THEN "open" ELSE JobStates[j]
  <2> SUFFICES ASSUME NEW j \in J!JobIds
               PROVE  JobStates'[j] = IF j \in S THEN "open" ELSE JobStates[j]
    OBVIOUS
  <2>1. j \in S => JobStates'[j] = "open"
    BY BrokerAssumption DEF Stands
  <2>2. j \notin S => JobStates'[j] = JobStates[j]
    BY DEF Stands
  <2> QED
    BY <2>1, <2>2
<1>2. \A j \in S : JobStates[j] \in {"running"}
  BY DEF Stands
<1>3. S \in SUBSET J!JobIds
  OBVIOUS
<1> HIDE DEF S
<1>4. CASE S = {}
  BY <1>1, <1>4, Unchanged DEF Maps
<1>5. CASE S # {}
  <2>1. J!Become(S, {"running"}, "open")
    BY <1>1, <1>2, Becomes
  <2>2. J!Stop(S)
    BY <1>5, <2>1 DEF J!Stop
  <2> QED
    BY <1>3, <2>2 DEF Maps, J!Next
<1> QED
  BY <1>4, <1>5

\* Payloads may go, of jobs that are open.
LEMMA SettleMaps ==
  ASSUME Stands, Stands', UNCHANGED <<staged, aborted>>,
         \A t \in Tasks : data'[t] \in {0, data[t]},
         \A j \in J!JobIds : Runs(j)' <=> Runs(j)
  PROVE  Maps
<1> DEFINE S == {j \in J!JobIds : data[j[1]] = j[2] /\ data'[j[1]] # j[2]}
<1>1. ASSUME NEW j \in J!JobIds
      PROVE  /\ JobStates'[j] = IF j \in S THEN "settled" ELSE JobStates[j]
             /\ j \in S => JobStates[j] = "open"
  <2>1. /\ j[1] \in Tasks /\ j[2] \in Nat \ {0} /\ data'[j[1]] \in {0, data[j[1]]}
        /\ staged[j[1]] \in Nat /\ data[j[1]] \in {0, staged[j[1]]}
        /\ staged'[j[1]] = staged[j[1]]
    BY BrokerAssumption DEF Stands
  <2>2. j \in S => ~Runs(j) /\ ~Runs(j)'
    BY DEF Stands
  <2> QED
    BY <2>1, <2>2 DEF Stands
<1>2. S \in SUBSET J!JobIds
  OBVIOUS
<1> HIDE DEF S
<1>3. CASE S = {}
  BY <1>1, <1>3, Unchanged DEF Maps
<1>4. CASE S # {}
  <2>1. J!Become(S, {"open", "running"}, "settled")
    BY <1>1, <1>2, Becomes
  <2>2. J!Settle(S)
    BY <1>4, <2>1 DEF J!Settle
  <2> QED
    BY <1>2, <2>2 DEF Maps, J!Next
<1> QED
  BY <1>3, <1>4

\* Payloads may come, of ids that had none.
LEMMA AcceptMaps ==
  ASSUME Stands, Stands', UNCHANGED aborted,
         \A t \in Tasks :
           \/ data'[t] = data[t] /\ staged'[t] = staged[t]
           \/ data[t] = 0 /\ data'[t] = staged[t] + 1 /\ staged'[t] = staged[t] + 1,
         \A j \in J!JobIds : Runs(j)' <=> Runs(j)
  PROVE  Maps
<1> DEFINE S == {j \in J!JobIds : j[2] = staged[j[1]] + 1 /\ data'[j[1]] = j[2]}
<1>1. ASSUME NEW j \in J!JobIds
      PROVE  /\ JobStates'[j] = IF j \in S THEN "open" ELSE JobStates[j]
             /\ j \in S => JobStates[j] = "none"
             /\ j \in S => data[j[1]] = 0
  <2>1. /\ j[1] \in Tasks /\ j[2] \in Nat \ {0}
        /\ staged[j[1]] \in Nat /\ data[j[1]] \in {0, staged[j[1]]}
        /\ Runs(j) => j[2] = data[j[1]]
        /\ Runs(j)' <=> Runs(j)
    BY BrokerAssumption DEF Stands
  <2>2. CASE data'[j[1]] = data[j[1]] /\ staged'[j[1]] = staged[j[1]]
    BY <2>1, <2>2 DEF Stands
  <2>3. CASE /\ data[j[1]] = 0 /\ data'[j[1]] = staged[j[1]] + 1
             /\ staged'[j[1]] = staged[j[1]] + 1
    BY <2>1, <2>3 DEF Stands
  <2> QED
    BY <2>1, <2>2, <2>3
<1>2. S \in SUBSET J!JobIds
  OBVIOUS
<1>3. ASSUME NEW j \in S, NEW i \in 1..(j[2] - 1)
      PROVE  JobStates[<<j[1], i>>] = "settled"
  <2>1. /\ j[1] \in Tasks /\ j[2] \in 1..MaxStaged /\ j[2] = staged[j[1]] + 1
        /\ data[j[1]] = 0 /\ staged[j[1]] \in Nat
    BY <1>1 DEF Stands
  <2>2. i \in 1..MaxStaged /\ i <= staged[j[1]] /\ i # 0
    BY <2>1, BrokerAssumption
  <2>3. <<j[1], i>> \in J!JobIds
    BY <2>1, <2>2 DEF J!JobIds
  <2> QED
    BY <2>1, <2>2, <2>3 DEF Stands
<1>4. CASE S = {}
  BY <1>1, <1>4, Unchanged DEF Maps
<1>5. CASE S # {}
  <2> HIDE DEF S
  <2>1. J!Become(S, {"none"}, "open")
    BY <1>1, <1>2, Becomes
  <2>2. J!Accept(S)
    BY <1>3, <1>5, <2>1, Zenon DEF J!Accept
  <2> QED
    BY <1>2, <2>2 DEF Maps, J!Next
<1> QED
  BY <1>4, <1>5

\* A run of a job that is not aborted begins.
LEMMA StartMaps ==
  ASSUME Stands, Stands', UNCHANGED <<staged, data, aborted>>,
         NEW j \in J!JobIds, ~Runs(j), j[2] = data[j[1]], j \notin aborted,
         \A i \in J!JobIds : Runs(i)' <=> (Runs(i) \/ i = j)
  PROVE  Maps
<1>1. JobStates[j] = "open"
  BY BrokerAssumption DEF Stands
<1>2. \A i \in J!JobIds : JobStates'[i] = IF i \in {j} THEN "running" ELSE JobStates[i]
  BY DEF Stands
<1>3. J!Become({j}, {"open"}, "running")
  BY <1>1, <1>2, Becomes
<1> QED
  BY <1>3 DEF Maps, J!Next, J!Start

\* An abort is accepted, of a stored job: a waiting one may settle.
LEMMA AbortMaps ==
  ASSUME Stands, Stands', UNCHANGED staged, NEW t \in Tasks,
         data[t] \in 1..MaxStaged, data[t] = staged[t],
         aborted' = aborted \cup {<<t, data[t]>>},
         \A u \in Tasks \ {t} : data'[u] = data[u],
         data'[t] = data[t] \/ (data'[t] = 0 /\ ~Runs(<<t, data[t]>>)),
         \A j \in J!JobIds : Runs(j)' <=> Runs(j)
  PROVE  Maps
<1> DEFINE j == <<t, data[t]>>
<1>1. j \in J!JobIds /\ data[t] \in Nat \ {0} /\ data[t] = staged[t]
  BY BrokerAssumption DEF J!JobIds
<1>2. JobStates[j] \in {"open", "running"}
  BY <1>1 DEF Stands
<1>3. CASE data'[t] = data[t]
  <2>1. \A i \in J!JobIds : JobStates'[i] = JobStates[i]
    BY <1>3 DEF Stands
  <2>2. JobStates' = JobStates
    BY <2>1, Unchanged
  <2>3. J!Abort(j)
    BY <1>2, <2>2 DEF J!Abort
  <2> QED
    BY <1>1, <2>3 DEF Maps, J!Next
<1>4. CASE data'[t] = 0 /\ ~Runs(j)
  <2>1. JobStates[j] = "open"
    BY <1>1, <1>4 DEF Stands
  <2>2. ASSUME NEW i \in J!JobIds
        PROVE  JobStates'[i] = IF i \in {j} THEN "settled" ELSE JobStates[i]
    <3>1. CASE i = j
      BY <1>1, <1>4, <3>1 DEF Stands
    <3>2. CASE i # j
      <4>1. i[1] # t \/ i[2] # data[t]
        BY <3>2 DEF Stands
      <4> QED
        BY <1>1, <1>4, <3>2, <4>1 DEF Stands
    <3> QED
      BY <3>1, <3>2
  <2>3. J!Become({j}, {"open"}, "settled")
    BY <2>1, <2>2, Becomes
  <2>4. J!Abort(j)
    BY <2>3 DEF J!Abort
  <2> QED
    BY <1>1, <2>4 DEF Maps, J!Next
<1> QED
  BY <1>3, <1>4

-----------------------------------------------------------------------------
(* The steps of Delivery.                                                  *)

Executing == {"fetched", "running"}

\* No consumer begins to execute a job.
BeginsNothing ==
  \A c \in Consumers :
    \/ SameSlot(c)
    \/ pc'[c] \notin Executing
    \/ pc[c] \in Executing /\ msg'[c] = msg[c] /\ load'[c] = load[c]

LEMMA AttemptMaps ==
  ASSUME HeldInv, HeldInv', UNCHANGED <<staged, data, aborted>>, BeginsNothing
  PROVE  Maps
<1>1. \A j \in J!JobIds : Runs(j)' => Runs(j)
  BY DEF BeginsNothing, Executing, Runs, Executes, SameSlot
<1> QED
  BY <1>1, HeldStands, NextStands, StopMaps

LEMMA SameRuns ==
  ASSUME \A c \in Consumers :
           SameSlot(c) \/ (pc[c] \notin Executing /\ pc'[c] \notin Executing)
  PROVE  \A j \in J!JobIds : Runs(j)' <=> Runs(j)
BY DEF Executing, Runs, Executes, SameSlot

LEMMA SlotsSame == UNCHANGED slotVars => \A c \in Consumers : SameSlot(c)
BY DEF SameSlot, slotVars

LEMMA ProducerMaps ==
  ASSUME HeldInv, HeldInv', NEW w \in Workers,
         ProducerStep(w) \/ ProducerError(w) \/ ProducerExit(w) \/ Stop(w) \/ Start(w)
  PROVE  Maps
<1>1. UNCHANGED slotVars
  BY DEF ProducerStep, Read, Claim, Overread, Promote, ProducerError, ProducerExit, Stop, Start,
     workerVars, slotVars
<1>2. UNCHANGED <<staged, data, aborted>>
  BY DEF ProducerStep, Read, Claim, Overread, Promote, ProducerError, ProducerExit, Stop, Start,
     ReadNew, ReadAndHandBack, PublishDelayed, brokerVars, keys, history
<1>3. BeginsNothing
  BY <1>1, SlotsSame DEF BeginsNothing
<1> QED
  BY <1>2, <1>3, AttemptMaps

LEMMA VanishMaps ==
  ASSUME HeldInv, HeldInv', NEW w \in Workers, Crash(w) \/ Leave(w)
  PROVE  Maps
<1>1. UNCHANGED <<staged, data, aborted>>
  BY DEF Crash, Leave, Release, brokerVars, keys, history
<1>2. Vanish(w)
  BY DEF Crash, Leave
<1>3. \A c \in Consumers : pc'[c] = "idle" \/ SameSlot(c)
  BY <1>2 DEF Vanish, SameSlot
<1>4. BeginsNothing
  BY <1>3 DEF BeginsNothing, Executing
<1> QED
  BY <1>1, <1>4, AttemptMaps

\* The steps of consumers that neither begin nor settle a job.
LEMMA ConsumerMaps ==
  ASSUME HeldInv, HeldInv', NEW c \in Consumers,
         \/ Take(c) \/ TakeError(c) \/ Mark(c) \/ Begin(c) \/ Abandon(c)
         \/ \E o \in Outcomes : End(c, o)
  PROVE  Maps
<1>1. UNCHANGED <<staged, data, aborted>>
  BY DEF Take, TakeError, Mark, Begin, Abandon, End, IncrRetry, MarkRunning, queues, brokerVars,
     history
<1>2. WorkerTypeOK
  BY FromHeld
<1>3. \A d \in Consumers \ {c} : SameSlot(d)
  BY <1>2 DEF Take, TakeError, Mark, Begin, Abandon, End, EndWith, Free, SameSlot, slotVars,
     WorkerTypeOK
<1>4. \/ SameSlot(c) \/ pc'[c] \notin Executing
      \/ pc[c] \in Executing /\ msg'[c] = msg[c] /\ load'[c] = load[c]
  BY <1>2 DEF Take, TakeError, Mark, Begin, Abandon, End, EndWith, Free, SameSlot, slotVars,
     WorkerTypeOK, Executing
<1>5. BeginsNothing
  BY <1>3, <1>4 DEF BeginsNothing
<1> QED
  BY <1>1, <1>5, AttemptMaps

LEMMA WatchMaps ==
  ASSUME HeldInv, HeldInv', NEW w \in Workers, NEW t \in Tasks, Watch(w, t)
  PROVE  Maps
<1>1. UNCHANGED <<staged, data, aborted, msg, load>>
  BY DEF Watch, brokerVars
<1>2. \A d \in Consumers : pc'[d] = pc[d] \/ pc'[d] = "ended"
  BY FromHeld DEF Watch, EndWith, WorkerTypeOK
<1>3. BeginsNothing
  BY <1>1, <1>2 DEF BeginsNothing, SameSlot, Executing
<1> QED
  BY <1>1, <1>3, AttemptMaps

\* A pickup begins a run, unless it finds the abort marker.
LEMMA FetchMaps ==
  ASSUME HeldInv, HeldInv', AbortRemembered, NEW c \in Consumers, Fetch(c)
  PROVE  Maps
<1> DEFINE t == msg[c].task
           j == <<t, data[t]>>
<1>1. /\ pc[c] = "marked" /\ load' = [load EXCEPT ![c] = data[t]]
      /\ UNCHANGED <<brokerVars, msg>>
  BY DEF Fetch
<1>2. /\ UNCHANGED <<staged, data, aborted>>
      /\ t \in Tasks /\ data[t] # 0 /\ msg[c] \in stream
  BY <1>1, HoldsStored DEF brokerVars
<1>3. WorkerTypeOK /\ \A d \in Consumers \ {c} : SameSlot(d)
  BY <1>1, FromHeld DEF Fetch, SameSlot, WorkerTypeOK
<1>4. load'[c] = data[t] /\ msg'[c] = msg[c]
  BY <1>1, <1>3 DEF WorkerTypeOK
<1>5. CASE marker[t]
  <2>1. pc'[c] = "ended"
    BY <1>2, <1>3, <1>5 DEF Fetch, WorkerTypeOK
  <2>2. BeginsNothing
    BY <1>3, <2>1 DEF BeginsNothing, Executing
  <2> QED
    BY <1>2, <2>2, AttemptMaps
<1>6. CASE ~marker[t]
  <2>1. pc'[c] = "fetched"
    BY <1>2, <1>3, <1>6 DEF Fetch, WorkerTypeOK
  <2>2. j \notin aborted
    BY <1>2, <1>6 DEF AbortRemembered
  <2>3. j \in J!JobIds /\ j[1] = t /\ j[2] = data[t]
    BY <1>2, FromHeld, BrokerAssumption DEF Books, Ledger, BrokerTypeOK, J!JobIds
  <2>4. \A d \in Consumers \ {c} : pc[d] # "idle" => msg[d].task # t
    <3>1. \A d \in Consumers \ {c} : pc[d] # "idle" => msg[d] \in stream /\ msg[d] # msg[c]
      BY <1>1, HoldsStored, FromHeld DEF OneOwner
    <3> QED
      BY <1>2, <3>1, FromHeld DEF Copies
  <2>5. ~Runs(j)
    BY <1>1, <2>3, <2>4 DEF Runs, Executes
  <2>6. \A i \in J!JobIds : Runs(i)' <=> (Runs(i) \/ i = j)
    <3> SUFFICES ASSUME NEW i \in J!JobIds PROVE Runs(i)' <=> (Runs(i) \/ i = j)
      OBVIOUS
    <3>1. Executes(c, i)' <=> i = j
      <4>1. i = <<i[1], i[2]>>
        BY DEF J!JobIds
      <4> QED
        BY <1>4, <2>1, <4>1 DEF Executes
    <3>2. ~Executes(c, i)
      BY <1>1 DEF Executes
    <3>3. \A d \in Consumers \ {c} : Executes(d, i)' <=> Executes(d, i)
      BY <1>3 DEF Executes, SameSlot
    <3> QED
      BY <3>1, <3>2, <3>3 DEF Runs
  <2> HIDE DEF j
  <2> QED
    BY <1>2, <2>2, <2>3, <2>5, <2>6, HeldStands, NextStands, StartMaps
<1> QED
  BY <1>5, <1>6

LEMMA FinishMaps ==
  ASSUME HeldInv, HeldInv', NEW c \in Consumers, Finish(c)
  PROVE  Maps
<1>1. /\ pc[c] = "ended" /\ pc'[c] = "idle"
      /\ \A d \in Consumers \ {c} : SameSlot(d)
  BY FromHeld DEF Finish, Free, SameSlot, WorkerTypeOK
<1>2. \A j \in J!JobIds : Runs(j)' <=> Runs(j)
  BY <1>1, SameRuns DEF Executing
<1>3. UNCHANGED <<staged, aborted>> /\ \A t \in Tasks : data'[t] \in {0, data[t]}
  BY FromHeld DEF Finish, RetryLater, Complete, history, BrokerTypeOK
<1> QED
  BY <1>2, <1>3, HeldStands, NextStands, SettleMaps

\* Callers leave the consumers alone.
LEMMA EnqueueMaps ==
  ASSUME HeldInv, HeldInv', NEW now \in SUBSET (Lanes \X Tasks),
         NEW later \in SUBSET (Lanes \X Tasks), Enqueue(now, later)
  PROVE  Maps
<1>1. UNCHANGED slotVars /\ PublishTasks(now, later)
  BY DEF Enqueue, workerVars, slotVars
<1>2. \A j \in J!JobIds : Runs(j)' <=> Runs(j)
  BY <1>1, SlotsSame, SameRuns
<1>3. /\ UNCHANGED aborted
      /\ \A t \in Tasks :
           \/ data'[t] = data[t] /\ staged'[t] = staged[t]
           \/ data[t] = 0 /\ data'[t] = staged[t] + 1 /\ staged'[t] = staged[t] + 1
  BY <1>1 DEF PublishTasks, Fresh
<1> QED
  BY <1>2, <1>3, HeldStands, NextStands, AcceptMaps

LEMMA DeadLetterMaps ==
  ASSUME HeldInv, HeldInv', NEW t \in Tasks, DeadLetter(t)
  PROVE  Maps
<1>1. UNCHANGED slotVars
  BY DEF DeadLetter, workerVars, slotVars
<1>2. \A j \in J!JobIds : Runs(j)' <=> Runs(j)
  BY <1>1, SlotsSame, SameRuns
<1>3. /\ UNCHANGED aborted
      /\ \A u \in Tasks :
           \/ data'[u] = data[u] /\ staged'[u] = staged[u]
           \/ data[u] = 0 /\ data'[u] = staged[u] + 1 /\ staged'[u] = staged[u] + 1
  <2>1. data \in [Tasks -> Nat] /\ staged \in [Tasks -> Nat]
    BY FromHeld DEF BrokerTypeOK
  <2>2. CASE DeadDelete(t)
    BY <2>2 DEF DeadDelete, history
  <2>3. ASSUME NEW l \in Lanes, ReplayDead(t, l), data[t] # 0
        PROVE  UNCHANGED <<staged, data, aborted>>
    BY <2>3 DEF ReplayDead
  <2>4. ASSUME NEW l \in Lanes, ReplayDead(t, l), data[t] = 0
        PROVE  /\ data' = [data EXCEPT ![t] = staged[t] + 1]
               /\ staged' = [staged EXCEPT ![t] = staged[t] + 1] /\ UNCHANGED aborted
    BY <2>4 DEF ReplayDead
  <2> QED
    BY <2>1, <2>2, <2>3, <2>4 DEF DeadLetter
<1> QED
  BY <1>2, <1>3, HeldStands, NextStands, AcceptMaps

LEMMA AbortIsMapped ==
  ASSUME HeldInv, HeldInv', NEW t \in Tasks, Abort(t)
  PROVE  Maps
<1>1. UNCHANGED slotVars /\ AbortTask(t)
  BY DEF Abort, slotVars
<1>2. \A j \in J!JobIds : Runs(j)' <=> Runs(j)
  BY <1>1, SlotsSame, SameRuns
<1>3. UNCHANGED staged /\ aborted' = aborted \cup {<<t, data[t]>>} /\ data[t] # 0
  BY <1>1 DEF AbortTask, Finished
<1>4. data[t] \in 1..MaxStaged /\ data[t] = staged[t]
  BY <1>3, FromHeld, BrokerAssumption DEF Books, Ledger, BrokerTypeOK
<1>5. \A u \in Tasks \ {t} : data'[u] = data[u]
  BY <1>1, FromHeld DEF AbortTask, BrokerTypeOK
<1>6. data'[t] = data[t] \/ (data'[t] = 0 /\ IsDelayed(t))
  BY <1>1, FromHeld DEF AbortTask, BrokerTypeOK
<1>7. IsDelayed(t) => ~Runs(<<t, data[t]>>)
  <2>1. \A c \in Consumers : pc[c] # "idle" => msg[c] \in stream
    BY HoldsStored
  <2> QED
    BY <2>1, FromHeld DEF Copies, IsDelayed, Runs, Executes
<1> QED
  BY <1>2, <1>3, <1>4, <1>5, <1>6, <1>7, HeldStands, NextStands, AbortMaps

LEMMA PurgeMaps ==
  ASSUME HeldInv, HeldInv', NEW l \in Lanes, Purge(l)
  PROVE  Maps
<1>1. UNCHANGED slotVars
  BY DEF Purge, workerVars, slotVars
<1>2. \A j \in J!JobIds : Runs(j)' <=> Runs(j)
  BY <1>1, SlotsSame, SameRuns
<1>3. UNCHANGED <<staged, aborted>> /\ \A t \in Tasks : data'[t] \in {0, data[t]}
  BY DEF Purge, PurgeLane
<1> QED
  BY <1>2, <1>3, HeldStands, NextStands, SettleMaps

LEMMA QuietCallerMaps ==
  ASSUME HeldInv, HeldInv', Timely, NEW t \in Tasks,
         Expire(t) \/ \E w \in Workers : LoseAbort(w, t)
  PROVE  Maps
<1>1. UNCHANGED slotVars
  BY DEF Expire, LoseAbort, workerVars, slotVars
<1>2. UNCHANGED <<staged, data, aborted>>
  BY DEF Expire, LoseAbort, Fault, Timely, ExpireResult, ExpireMarker, history, brokerVars
<1>3. BeginsNothing
  BY <1>1, SlotsSame DEF BeginsNothing
<1> QED
  BY <1>2, <1>3, AttemptMaps

-----------------------------------------------------------------------------
(* The theorem.                                                            *)

LEMMA InitMaps == Init => J!Init
<1> SUFFICES ASSUME Init PROVE J!Init
  OBVIOUS
<1>1. ASSUME NEW j \in J!JobIds PROVE JobStates[j] = "none"
  <2>1. HeldInv
    BY InitHeld
  <2>2. staged[j[1]] = 0 /\ data[j[1]] = 0 /\ j[2] \in 1..MaxStaged
    BY <2>1, HeldStands DEF Stands, Init, BrokerInit
  <2>3. ~Runs(j)
    BY DEF Init, Runs, Executes
  <2> QED
    BY <2>1, <2>2, <2>3, HeldStands, BrokerAssumption DEF Stands
<1>2. JobStates = [j \in J!JobIds |-> JobStates[j]]
  BY InitHeld, HeldStands DEF Stands
<1>3. aborted = {}
  BY DEF Init, BrokerInit
<1> QED
  BY <1>1, <1>2, <1>3 DEF J!Init

LEMMA NextMaps ==
  ASSUME Timely, HeldInv, HeldInv', AbortRemembered, [Next]_vars
  PROVE  Maps
<1>1. ASSUME UNCHANGED vars PROVE Maps
  <2>1. BeginsNothing /\ UNCHANGED <<staged, data, aborted>>
    BY <1>1, SlotsSame DEF BeginsNothing, vars, workerVars, slotVars, brokerVars
  <2> QED
    BY <2>1, AttemptMaps
<1>2. ASSUME NEW w \in Workers,
             \/ ProducerStep(w) \/ WorkerFault(w) \/ ProducerExit(w) \/ Leave(w) \/ Start(w)
      PROVE  Maps
  BY <1>2, ProducerMaps, VanishMaps DEF WorkerFault
<1>3. ASSUME NEW w \in Workers, NEW t \in Tasks, Watch(w, t) PROVE Maps
  BY <1>3, WatchMaps
<1>4. ASSUME NEW c \in Consumers, ConsumerStep(c) \/ ConsumerFault(c) PROVE Maps
  <2>1. ~DropExpired(c)
    BY FromHeld DEF DropExpired, LoadIsStored
  <2> QED
    BY <1>4, <2>1, ConsumerMaps, FetchMaps, FinishMaps DEF ConsumerStep, ConsumerFault
<1>5. ASSUME CallerStep PROVE Maps
  BY <1>5, EnqueueMaps, AbortIsMapped, DeadLetterMaps, PurgeMaps, QuietCallerMaps DEF CallerStep
<1> QED
  BY <1>1, <1>2, <1>3, <1>4, <1>5 DEF Next

\* Delivery implements Jobs, for any workers, slots, ids, lanes and faults but an
\* expiring payload or abort marker, as long as the heartbeat keeps what workers
\* hold: what the run checks on one id, crashes, stops, lost commands and purges
\* included, for all of them.
THEOREM ImplementsJobs ==
  ASSUME Timely, "expire_marker" \notin FaultKinds PROVE Spec => JobsImplemented
<1>1. Spec => []HeldInv
  BY HeldInductive
<1>2. Spec => []AbortRemembered
  BY AbortsAreKept
<1>3. Init => J!Init
  BY InitMaps
<1>4. HeldInv /\ HeldInv' /\ AbortRemembered /\ [Next]_vars => [J!Next]_<<JobStates, aborted>>
  BY NextMaps DEF Maps
<1> QED
  BY <1>1, <1>2, <1>3, <1>4, PTL DEF Spec, JobsImplemented, J!Spec
=============================================================================

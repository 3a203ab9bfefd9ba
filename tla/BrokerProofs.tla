---------------------------- MODULE BrokerProofs ----------------------------
(***************************************************************************)
(* Each script and pipeline of Broker.tla keeps the Redis state well typed *)
(* and never leaves a payload and a result under one id, whoever calls it. *)
(* The second half says how each moves the entries a payload relies on.    *)
(***************************************************************************)
EXTENDS Broker, TLAPS

\* What every Redis command preserves.
BrokerInv == BrokerTypeOK /\ NotCompleteWhileQueued /\ StreamFresh

Grows == nextId <= nextId'

LEMMA InitBroker == BrokerInit => BrokerInv
BY BrokerAssumption DEF BrokerInit, BrokerInv, BrokerTypeOK, NotCompleteWhileQueued, StreamFresh

LEMMA StutterBroker == BrokerInv /\ UNCHANGED brokerVars => BrokerInv' /\ Grows
BY DEF BrokerInv, BrokerTypeOK, Grows, NotCompleteWhileQueued, StreamFresh, brokerVars

LEMMA RenumberedEntry ==
  ASSUME NEW e \in Entry, NEW n \in Nat
  PROVE  LET copy == [e EXCEPT !.id = n]
         IN  copy \in Entry /\ copy.id = n /\ copy.task = e.task
BY DEF Entry

\* The new entries of a script carry the number the script took.
LEMMA NewEntriesNumber ==
  ASSUME NEW items, NEW e \in NewEntries(items)
  PROVE  e.id = nextId
BY DEF NewEntries

\* Numbers given before a script ran stay below the ones given after it.
LEMMA StillFresh ==
  ASSUME BrokerTypeOK, StreamFresh, nextId' \in Nat, nextId <= nextId',
         NEW e \in stream
  PROVE  e.id < nextId'
BY DEF BrokerTypeOK, StreamFresh, Entry

LEMMA PublishTasksInv ==
  ASSUME BrokerInv, NEW now \in SUBSET (Lanes \X Tasks),
         NEW later \in SUBSET (Lanes \X Tasks), PublishTasks(now, later)
  PROVE  BrokerInv' /\ Grows
<1> USE DEF BrokerInv, BrokerTypeOK, Grows, PublishTasks, Fresh, Reset
<1>1. stream' \subseteq Entry
  BY DEF NewEntries, Entry
<1>2. NotCompleteWhileQueued'
  BY DEF NotCompleteWhileQueued
<1>3. StreamFresh'
  BY NewEntriesNumber, StillFresh DEF StreamFresh
<1> QED
  BY <1>1, <1>2, <1>3

LEMMA PublishDelayedInv ==
  ASSUME BrokerInv, NEW l \in Lanes, NEW due \in SUBSET delayed,
         PublishDelayed(l, due)
  PROVE  BrokerInv' /\ Grows
<1> USE DEF BrokerInv, BrokerTypeOK, Grows, PublishDelayed, keys, history
<1>1. stream' \subseteq Entry
  BY DEF NewEntries, Entry
<1>2. NotCompleteWhileQueued'
  BY DEF NotCompleteWhileQueued
<1>3. StreamFresh'
  BY NewEntriesNumber, StillFresh DEF StreamFresh
<1> QED
  BY <1>1, <1>2, <1>3

LEMMA ReplayDeadInv ==
  ASSUME BrokerInv, NEW t \in Tasks, NEW l \in Lanes, ReplayDead(t, l)
  PROVE  BrokerInv' /\ Grows
<1> USE DEF BrokerInv, BrokerTypeOK, Grows, ReplayDead, Reset
<1>1. stream' \subseteq Entry
  BY BrokerAssumption DEF NewEntries, Entry
<1>2. NotCompleteWhileQueued'
  BY DEF NotCompleteWhileQueued
<1>3. StreamFresh'
  BY NewEntriesNumber, StillFresh DEF StreamFresh
<1> QED
  BY <1>1, <1>2, <1>3

LEMMA DeadDeleteInv ==
  ASSUME BrokerInv, NEW t \in Tasks, DeadDelete(t)
  PROVE  BrokerInv' /\ Grows
BY DEF BrokerInv, BrokerTypeOK, Grows, NotCompleteWhileQueued, StreamFresh, DeadDelete, queues, history

LEMMA ReadNewInv ==
  ASSUME BrokerInv, NEW es, ReadNew(es)
  PROVE  BrokerInv' /\ Grows /\ es \subseteq stream
BY DEF BrokerInv, BrokerTypeOK, Grows, NotCompleteWhileQueued, StreamFresh, ReadNew, Oldest, Waiting,
       keys, history

LEMMA ReadAndHandBackInv ==
  ASSUME BrokerInv, NEW e, NEW extra, ReadAndHandBack(e, extra)
  PROVE  BrokerInv' /\ Grows /\ e \in stream
<1> USE DEF BrokerInv, BrokerTypeOK, Grows, ReadAndHandBack, keys, history
<1>1. e \in stream /\ extra \subseteq stream /\ e \notin extra /\ extra \cap pending = {}
  BY DEF Oldest, Waiting
<1>2. stream' \subseteq Entry
  BY <1>1, RenumberedEntry
<1>3. StreamFresh'
  <2>1. SUFFICES ASSUME NEW g \in stream' PROVE g.id < nextId'
    BY DEF StreamFresh
  <2>2. CASE g \in stream
    BY <2>2, StillFresh
  <2>3. CASE g \notin stream
    <3>1. PICK f \in extra : g = [f EXCEPT !.id = nextId]
      BY <2>1, <2>3
    <3>2. g.id = nextId
      BY <1>1, <3>1, RenumberedEntry
    <3> QED
      BY <3>2
  <2> QED
    BY <2>2, <2>3
<1>4. pending' \subseteq stream'
  BY <1>1
<1>5. NotCompleteWhileQueued'
  BY DEF NotCompleteWhileQueued
<1> QED
  BY <1>1, <1>2, <1>3, <1>4, <1>5

LEMMA IncrRetryInv ==
  ASSUME BrokerInv, NEW t \in Tasks, IncrRetry(t)
  PROVE  BrokerInv' /\ Grows
BY DEF BrokerInv, BrokerTypeOK, Grows, NotCompleteWhileQueued, StreamFresh, IncrRetry, queues, history

LEMMA MarkRunningInv ==
  ASSUME BrokerInv, NEW t \in Tasks, MarkRunning(t)
  PROVE  BrokerInv' /\ Grows
BY DEF BrokerInv, BrokerTypeOK, Grows, NotCompleteWhileQueued, StreamFresh, MarkRunning, queues, history

LEMMA CompleteInv ==
  ASSUME BrokerInv, NEW e \in Entry, NEW load \in Nat, NEW dies \in BOOLEAN,
         Complete(e, load, dies)
  PROVE  BrokerInv' /\ Grows
BY DEF BrokerInv, BrokerTypeOK, Grows, NotCompleteWhileQueued, StreamFresh, Complete, Acknowledge, Entry

LEMMA RetryLaterInv ==
  ASSUME BrokerInv, NEW e \in Entry, RetryLater(e)
  PROVE  BrokerInv' /\ Grows
BY DEF BrokerInv, BrokerTypeOK, Grows, NotCompleteWhileQueued, StreamFresh, RetryLater, Acknowledge,
       Entry, history

LEMMA ReleaseInv ==
  ASSUME BrokerInv, NEW msgs \in Seq(Entry), Release(msgs)
  PROVE  BrokerInv' /\ Grows
<1> USE DEF BrokerInv, BrokerTypeOK, Grows, Release, keys, history
<1>1. stream' \subseteq Entry
  <2>1. ASSUME NEW i \in DOMAIN msgs
        PROVE  [msgs[i] EXCEPT !.id = nextId + i] \in Entry
    <3>1. msgs[i] \in Entry /\ nextId + i \in Nat
      OBVIOUS
    <3> QED
      BY <3>1, RenumberedEntry
  <2> QED
    BY <2>1
<1>2. NotCompleteWhileQueued'
  BY DEF NotCompleteWhileQueued
<1>3. StreamFresh'
  <2>1. ASSUME NEW i \in DOMAIN msgs
        PROVE  [msgs[i] EXCEPT !.id = nextId + i].id < nextId'
    BY DEF Entry
  <2>2. Len(msgs) \in Nat /\ nextId' \in Nat /\ nextId <= nextId'
    OBVIOUS
  <2> QED
    BY <2>1, <2>2, StillFresh DEF StreamFresh
<1> QED
  BY <1>1, <1>2, <1>3

LEMMA DiscardInv ==
  ASSUME BrokerInv, NEW e \in Entry, Discard(e)
  PROVE  BrokerInv' /\ Grows
BY DEF BrokerInv, BrokerTypeOK, Grows, NotCompleteWhileQueued, StreamFresh, Discard, Acknowledge,
       Entry, history

LEMMA AbortTaskInv ==
  ASSUME BrokerInv, NEW t \in Tasks, AbortTask(t)
  PROVE  BrokerInv' /\ Grows
<1> USE DEF BrokerInv, BrokerTypeOK, Grows, AbortTask
<1>1. NotCompleteWhileQueued'
  BY DEF NotCompleteWhileQueued, StreamFresh, Finished
<1>2. settled' \subseteq Tasks \X Nat /\ aborted' \subseteq Tasks \X Nat
  OBVIOUS
<1>3. delayed' \subseteq Lanes \X Tasks
  OBVIOUS
<1>4. data' \in [Tasks -> Nat] /\ retry' \in [Tasks -> Nat]
  OBVIOUS
<1>5. marker' \in [Tasks -> BOOLEAN]
  OBVIOUS
<1>6. result' \in [Tasks -> Nat]
  OBVIOUS
<1>7. UNCHANGED <<stream, pending, nextId, running, dead, staged>>
  OBVIOUS
<1>8. StreamFresh'
  BY DEF StreamFresh
<1> QED
  BY <1>1, <1>2, <1>3, <1>4, <1>5, <1>6, <1>7, <1>8

LEMMA PurgeLaneInv ==
  ASSUME BrokerInv, NEW l \in Lanes, NEW scheduled \in SUBSET delayed,
         NEW waiting \in SUBSET Waiting, PurgeLane(l, scheduled, waiting)
  PROVE  BrokerInv' /\ Grows
<1> USE DEF BrokerInv, BrokerTypeOK, Grows, PurgeLane
<1>1. pending' \subseteq stream'
  BY DEF Waiting
<1>2. settled' \subseteq Tasks \X Nat
  BY DEF Entry, Waiting
<1>3. NotCompleteWhileQueued'
  BY DEF NotCompleteWhileQueued
<1>4. marker' \in [Tasks -> BOOLEAN]
  OBVIOUS
<1>5. data' \in [Tasks -> Nat] /\ retry' \in [Tasks -> Nat]
  OBVIOUS
<1>6. stream' \subseteq Entry /\ delayed' \subseteq Lanes \X Tasks
  OBVIOUS
<1>7. UNCHANGED <<pending, nextId, running, result, dead, staged, aborted>>
  OBVIOUS
<1>8. StreamFresh'
  BY DEF StreamFresh
<1> QED
  BY <1>1, <1>2, <1>3, <1>4, <1>5, <1>6, <1>7, <1>8

LEMMA ExpireInv ==
  ASSUME BrokerInv, NEW t \in Tasks,
         ExpireData(t) \/ ExpireResult(t) \/ ExpireMarker(t)
  PROVE  BrokerInv' /\ Grows
<1> USE DEF BrokerInv, BrokerTypeOK, Grows, NotCompleteWhileQueued, StreamFresh, queues, history
<1>1. CASE ExpireData(t)
  <2>1. <<t, data[t]>> \in Tasks \X Nat
    OBVIOUS
  <2>2. BrokerTypeOK'
    BY <1>1, <2>1 DEF ExpireData
  <2> QED
    BY <1>1, <2>2 DEF ExpireData
<1>2. CASE ExpireResult(t)
  BY <1>2 DEF ExpireResult
<1>3. CASE ExpireMarker(t)
  BY <1>3 DEF ExpireMarker
<1> QED
  BY <1>1, <1>2, <1>3

-----------------------------------------------------------------------------
(* Entries a payload relies on.  D stands for the entries that are doomed; *)
(* a number still to be given is not among theirs.                         *)

Below(D) == \A e \in D : e.id < nextId

LEMMA NotDoomedYet ==
  ASSUME BrokerTypeOK, NEW D, Below(D), NEW e \in D
  PROVE  e.id # nextId
BY DEF Below, BrokerTypeOK

LEMMA PublishTasksEntry ==
  ASSUME BrokerInv, NEW D, Below(D), HasEntry(D),
         NEW now \in SUBSET (Lanes \X Tasks),
         NEW later \in SUBSET (Lanes \X Tasks), PublishTasks(now, later)
  PROVE  HasEntry(D)'
<1> SUFFICES ASSUME NEW t \in Tasks, data'[t] # 0
             PROVE  IsDelayed(t)' \/ \E e \in EntriesOf(t)' : e \notin D
  BY DEF HasEntry
<1>1. stream' = stream \cup NewEntries(Fresh(now)) /\ delayed' = delayed \cup Fresh(later)
  BY DEF PublishTasks
<1>2. CASE data[t] # 0
  BY <1>1, <1>2 DEF HasEntry, IsDelayed, EntriesOf
<1>3. CASE data[t] = 0
  <2>1. PICK p \in Fresh(now \cup later) : p[2] = t
    <3>1. \E p \in Fresh(now \cup later) : p[2] = t
      BY <1>3 DEF PublishTasks, BrokerInv, BrokerTypeOK
    <3> QED
      BY <3>1
  <2>2. CASE p \in now
    <3>1. p \in Fresh(now)
      BY <2>1, <2>2 DEF Fresh
    <3> DEFINE e == [id |-> nextId, task |-> t, lane |-> p[1]]
    <3>2. e \in EntriesOf(t)'
      BY <1>1, <2>1, <3>1 DEF NewEntries, EntriesOf
    <3>3. e \notin D
      BY NotDoomedYet DEF BrokerInv
    <3> HIDE DEF e
    <3> QED
      BY <3>2, <3>3
  <2>3. CASE p \in later
    BY <1>1, <2>1, <2>3 DEF IsDelayed, Fresh
  <2> QED
    BY <2>1, <2>2, <2>3 DEF Fresh
<1> QED
  BY <1>2, <1>3

LEMMA PublishDelayedEntry ==
  ASSUME BrokerInv, NEW D, Below(D), HasEntry(D),
         NEW l \in Lanes, NEW due \in SUBSET delayed, PublishDelayed(l, due)
  PROVE  HasEntry(D)'
<1> SUFFICES ASSUME NEW t \in Tasks, data'[t] # 0
             PROVE  IsDelayed(t)' \/ \E e \in EntriesOf(t)' : e \notin D
  BY DEF HasEntry
<1>1. /\ stream' = stream \cup NewEntries(due) /\ delayed' = delayed \ due
      /\ data'[t] = data[t]
  BY DEF PublishDelayed, keys
<1>2. CASE \E m \in Lanes : <<m, t>> \in due
  <2>1. PICK m \in Lanes : <<m, t>> \in due
    BY <1>2
  <2>2. [id |-> nextId, task |-> t, lane |-> m] \in stream'
    BY <1>1, <2>1 DEF NewEntries
  <2> QED
    BY <2>2, NotDoomedYet DEF EntriesOf, BrokerInv
<1>3. CASE ~ \E m \in Lanes : <<m, t>> \in due
  BY <1>1, <1>3 DEF HasEntry, IsDelayed, EntriesOf
<1> QED
  BY <1>2, <1>3

LEMMA ReplayDeadEntry ==
  ASSUME BrokerInv, NEW D, Below(D), HasEntry(D),
         NEW t \in Tasks, NEW l \in Lanes, ReplayDead(t, l)
  PROVE  HasEntry(D)'
<1> SUFFICES ASSUME NEW u \in Tasks, data'[u] # 0
             PROVE  IsDelayed(u)' \/ \E e \in EntriesOf(u)' : e \notin D
  BY DEF HasEntry
<1>1. delayed' = delayed /\ stream \subseteq stream'
  BY DEF ReplayDead
<1>2. CASE data[u] # 0
  BY <1>1, <1>2 DEF HasEntry, IsDelayed, EntriesOf
<1>3. CASE data[u] = 0
  <2>1. u = t /\ [id |-> nextId, task |-> t, lane |-> l] \in stream'
    BY <1>3 DEF ReplayDead, NewEntries, BrokerInv, BrokerTypeOK
  <2> QED
    BY <2>1, NotDoomedYet DEF EntriesOf, BrokerInv
<1> QED
  BY <1>2, <1>3

LEMMA ReleaseEntry ==
  ASSUME BrokerInv, NEW D, Below(D), HasEntry(D),
         NEW msgs \in Seq(Entry), Release(msgs)
  PROVE  HasEntry(D)'
<1> SUFFICES ASSUME NEW t \in Tasks, data'[t] # 0
             PROVE  IsDelayed(t)' \/ \E e \in EntriesOf(t)' : e \notin D
  BY DEF HasEntry
<1>1. delayed' = delayed /\ data' = data
  BY DEF Release, keys
<1>2. CASE IsDelayed(t)
  BY <1>1, <1>2 DEF IsDelayed
<1>3. CASE ~IsDelayed(t)
  <2>1. PICK e \in EntriesOf(t) : e \notin D
    BY <1>1, <1>3 DEF HasEntry
  <2>2. CASE \E i \in DOMAIN msgs : e = msgs[i]
    <3>1. PICK i \in DOMAIN msgs : e = msgs[i]
      BY <2>2
    <3> DEFINE copy == [msgs[i] EXCEPT !.id = nextId + i]
    <3>2. copy \in stream' /\ copy.task = t /\ copy.id = nextId + i
      <4>1. copy \in stream'
        BY DEF Release
      <4>2. msgs[i] \in Entry /\ nextId + i \in Nat /\ msgs[i].task = t
        BY <2>1, <3>1 DEF EntriesOf, BrokerInv, BrokerTypeOK
      <4> QED
        BY <4>1, <4>2, RenumberedEntry
    <3>3. i \in Nat /\ i > 0 /\ nextId \in Nat
      BY DEF BrokerInv, BrokerTypeOK
    <3> HIDE DEF copy
    <3>4. copy \notin D
      BY <3>2, <3>3 DEF Below
    <3> QED
      BY <3>2, <3>4 DEF EntriesOf
  <2>3. CASE ~ \E i \in DOMAIN msgs : e = msgs[i]
    BY <2>1, <2>3 DEF Release, EntriesOf
  <2> QED
    BY <2>2, <2>3
<1> QED
  BY <1>2, <1>3

LEMMA ReadAndHandBackEntry ==
  ASSUME BrokerInv, NEW D, Below(D), HasEntry(D),
         NEW e, NEW extra, ReadAndHandBack(e, extra)
  PROVE  HasEntry(D)'
<1> SUFFICES ASSUME NEW t \in Tasks, data'[t] # 0
             PROVE  IsDelayed(t)' \/ \E f \in EntriesOf(t)' : f \notin D
  BY DEF HasEntry
<1>1. /\ delayed' = delayed /\ data' = data /\ extra \subseteq stream
      /\ stream' = (stream \ extra) \cup {[f EXCEPT !.id = nextId] : f \in extra}
  BY DEF ReadAndHandBack, Oldest, Waiting, keys
<1>2. CASE IsDelayed(t)
  BY <1>1, <1>2 DEF IsDelayed
<1>3. CASE ~IsDelayed(t)
  <2>1. PICK f \in EntriesOf(t) : f \notin D
    BY <1>1, <1>3 DEF HasEntry
  <2>2. CASE f \in extra
    <3> DEFINE copy == [f EXCEPT !.id = nextId]
    <3>1. copy \in stream'
      BY <1>1, <2>2
    <3>2. copy.task = t /\ copy.id = nextId
      BY <2>1, RenumberedEntry DEF EntriesOf, BrokerInv, BrokerTypeOK
    <3> HIDE DEF copy
    <3> QED
      BY <3>1, <3>2, NotDoomedYet DEF EntriesOf, BrokerInv
  <2>3. CASE f \notin extra
    BY <1>1, <2>1, <2>3 DEF EntriesOf
  <2> QED
    BY <2>2, <2>3
<1> QED
  BY <1>2, <1>3

\* Finishing takes the payload away, or leaves the id in a delayed set.
LEMMA CompleteEntry ==
  ASSUME BrokerInv, NEW D, HasEntry(D), NEW e \in Entry, NEW load, NEW dies,
         Complete(e, load, dies)
  PROVE  HasEntry(D)'
BY DEF BrokerInv, BrokerTypeOK, HasEntry, Complete, Acknowledge, IsDelayed,
       EntriesOf, Entry

LEMMA RetryLaterEntry ==
  ASSUME BrokerInv, NEW D, HasEntry(D), NEW e \in Entry, RetryLater(e)
  PROVE  HasEntry(D)'
BY DEF BrokerInv, BrokerTypeOK, HasEntry, RetryLater, Acknowledge, IsDelayed,
       EntriesOf, Entry

\* A discard removes an entry nobody relies on.
LEMMA DiscardEntry ==
  ASSUME BrokerInv, NEW D, HasEntry(D), NEW e \in D, e \in Entry, Discard(e)
  PROVE  HasEntry(D)'
BY DEF BrokerInv, BrokerTypeOK, HasEntry, Discard, Acknowledge, IsDelayed, EntriesOf

LEMMA AbortTaskEntry ==
  ASSUME BrokerInv, NEW D, HasEntry(D), NEW t \in Tasks, AbortTask(t)
  PROVE  HasEntry(D)'
BY DEF BrokerInv, BrokerTypeOK, HasEntry, AbortTask, IsDelayed, EntriesOf

LEMMA PurgeLaneEntry ==
  ASSUME BrokerInv, NEW D, HasEntry(D), NEW l \in Lanes,
         NEW scheduled \in SUBSET delayed, NEW waiting \in SUBSET Waiting,
         PurgeLane(l, scheduled, waiting)
  PROVE  HasEntry(D)'
<1> SUFFICES ASSUME NEW t \in Tasks, data'[t] # 0
             PROVE  IsDelayed(t)' \/ \E e \in EntriesOf(t)' : e \notin D
  BY DEF HasEntry
<1>1. /\ data[t] # 0
      /\ \A p \in scheduled : p[2] # t
      /\ \A e \in waiting : e.task # t
  BY DEF PurgeLane, BrokerInv, BrokerTypeOK
<1>2. delayed' = delayed \ scheduled /\ stream' = stream \ waiting
  BY DEF PurgeLane
<1>3. IsDelayed(t) => IsDelayed(t)'
  BY <1>1, <1>2 DEF IsDelayed
<1>4. EntriesOf(t) \subseteq EntriesOf(t)'
  BY <1>1, <1>2 DEF EntriesOf
<1> QED
  BY <1>1, <1>3, <1>4 DEF HasEntry

\* The rest leaves entries and delayed sets alone and stores no payload.
LEMMA QuietEntry ==
  ASSUME BrokerInv, NEW D, HasEntry(D), stream' = stream, delayed' = delayed,
         \A t \in Tasks : data'[t] # 0 => data[t] # 0
  PROVE  HasEntry(D)'
BY DEF HasEntry, IsDelayed, EntriesOf
=============================================================================

----------------------------- MODULE HeldProofs -----------------------------
(***************************************************************************)
(* What holds of one queue as long as leases are held and no payload       *)
(* expires by itself (Timely), for any tasks, lanes, workers, slots and    *)
(* bounds: an id is one piece of work, with one owner, and the books of    *)
(* what was accepted, settled and aborted stay straight.                   *)
(***************************************************************************)
EXTENDS DeliveryProofs

\* The half of HeldInv that speaks of Redis only.
Books == OneCopy /\ Ledger /\ ResultIsLatest /\ NoResidue /\ AbortsKept

\* OneCopy, entry by entry instead of id by id.
Copies ==
  /\ \A e, f \in stream : e.task = f.task => e = f
  /\ \A e \in stream : data[e.task] # 0 /\ \A l \in Lanes : <<l, e.task>> \notin delayed
  /\ \A l \in Lanes, t \in Tasks : <<l, t>> \in delayed => data[t] # 0
  /\ \A l, m \in Lanes, t \in Tasks :
       <<l, t>> \in delayed /\ <<m, t>> \in delayed => l = m

LEMMA CopiesIff == BrokerTypeOK => (OneCopy <=> Copies)
<1> SUFFICES ASSUME BrokerTypeOK PROVE OneCopy <=> Copies
  OBVIOUS
<1>1. \A e \in stream : e.task \in Tasks
  BY DEF BrokerTypeOK, Entry
<1>2. \A p \in delayed : p[1] \in Lanes /\ p[2] \in Tasks /\ p = <<p[1], p[2]>>
  BY DEF BrokerTypeOK
<1>3. OneCopy => Copies
  BY <1>1, <1>2 DEF OneCopy, Copies, EntriesOf, IsDelayed
<1>4. Copies => OneCopy
  BY <1>1, <1>2 DEF OneCopy, Copies, EntriesOf, IsDelayed
<1> QED
  BY <1>3, <1>4

LEMMA CopiesNext == BrokerInv' /\ Copies' => OneCopy'
BY CopiesIff, PTL DEF BrokerInv

\* The rest of Books looks at no stream and no delayed set.
LEMMA SameBooks ==
  ASSUME Books, BrokerInv', Copies', UNCHANGED <<keys, history>>
  PROVE  Books'
<1>1. OneCopy'
  BY CopiesNext
<1>2. Ledger' /\ ResultIsLatest' /\ NoResidue' /\ AbortsKept'
  BY DEF Books, Ledger, ResultIsLatest, NoResidue, AbortsKept, AbortRemembered, keys, history
<1> QED
  BY <1>1, <1>2 DEF Books

LEMMA FromBooks == BrokerInv /\ Books => BrokerTypeOK /\ Copies
BY CopiesIff DEF BrokerInv, Books

LEMMA NewEntriesAre ==
  ASSUME NEW items \in SUBSET (Lanes \X Tasks), NEW e \in NewEntries(items)
  PROVE  /\ e.lane \in Lanes /\ e.task \in Tasks /\ <<e.lane, e.task>> \in items
         /\ e = [id |-> nextId, task |-> e.task, lane |-> e.lane]
<1>1. PICK p \in items : e = [id |-> nextId, task |-> p[2], lane |-> p[1]]
  BY DEF NewEntries
<1>2. p = <<p[1], p[2]>> /\ p[1] \in Lanes /\ p[2] \in Tasks
  OBVIOUS
<1> QED
  BY <1>1, <1>2

\* A script that adds an entry for each of A, and puts C in the place of B.
Stages(A, B, C) ==
  /\ A \subseteq Lanes \X Tasks /\ C \subseteq Lanes \X Tasks /\ A \cap C = {}
  /\ stream' = stream \cup NewEntries(A) /\ delayed' = (delayed \ B) \cup C
  /\ \A l, m \in Lanes, t \in Tasks :
       <<l, t>> \in A \cup C /\ <<m, t>> \in A \cup C => l = m
  /\ \A l \in Lanes, t \in Tasks : <<l, t>> \in A \cup C =>
       /\ \A e \in stream : e.task # t
       /\ \A m \in Lanes : <<m, t>> \notin delayed \ B
       /\ data'[t] # 0
  /\ \A t \in Tasks : data[t] # 0 => data'[t] # 0

LEMMA StagingCopies ==
  ASSUME BrokerTypeOK, Copies, NEW A, NEW B, NEW C, Stages(A, B, C)
  PROVE  Copies'
<1> USE DEF Stages
<1>1. \A e \in NewEntries(A) :
        /\ e.lane \in Lanes /\ e.task \in Tasks /\ <<e.lane, e.task>> \in A
        /\ e = [id |-> nextId, task |-> e.task, lane |-> e.lane]
  <2>1. A \in SUBSET (Lanes \X Tasks)
    OBVIOUS
  <2> QED
    BY <2>1, NewEntriesAre, Zenon
<1>2. \A e \in stream : e.task \in Tasks
  BY DEF BrokerTypeOK, Entry
<1>3. ASSUME NEW e \in stream', NEW f \in stream', e.task = f.task
      PROVE  e = f
  <2>1. CASE e \in stream /\ f \in stream
    BY <1>3, <2>1 DEF Copies
  <2>2. CASE e \in NewEntries(A) /\ f \in NewEntries(A)
    <3>1. <<e.lane, e.task>> \in A /\ <<f.lane, f.task>> \in A /\ e.lane \in Lanes
          /\ f.lane \in Lanes /\ e.task \in Tasks
      BY <1>1, <2>2
    <3>2. e.lane = f.lane
      BY <1>3, <3>1
    <3>3. /\ e = [id |-> nextId, task |-> e.task, lane |-> e.lane]
          /\ f = [id |-> nextId, task |-> f.task, lane |-> f.lane]
      BY <1>1, <2>2
    <3> QED
      BY <1>3, <3>2, <3>3, Zenon
  <2>3. ASSUME NEW g \in stream, NEW h \in NewEntries(A) PROVE g.task # h.task
    BY <1>1
  <2> QED
    BY <1>3, <2>1, <2>2, <2>3
<1>4. ASSUME NEW e \in stream'
      PROVE  data'[e.task] # 0 /\ \A l \in Lanes : <<l, e.task>> \notin delayed'
  <2>1. CASE e \in stream
    BY <1>2, <2>1 DEF Copies
  <2>2. CASE e \in NewEntries(A)
    BY <1>1, <2>2
  <2> QED
    BY <2>1, <2>2
<1>5. ASSUME NEW l \in Lanes, NEW t \in Tasks, <<l, t>> \in delayed'
      PROVE  data'[t] # 0 /\ \A m \in Lanes : <<m, t>> \in delayed' => l = m
  BY <1>5 DEF Copies
<1> QED
  BY <1>3, <1>4, <1>5 DEF Copies

LEMMA PublishTasksBooks ==
  ASSUME BrokerInv, Books, NEW now \in SUBSET (Lanes \X Tasks),
         NEW later \in SUBSET (Lanes \X Tasks), PublishTasks(now, later),
         \A p, q \in now \cup later : p[2] = q[2] => p = q, now \cap later = {}
  PROVE  Books'
<1> DEFINE new == {p[2] : p \in Fresh(now \cup later)}
<1>1. /\ stream' = stream \cup NewEntries(Fresh(now))
      /\ delayed' = delayed \cup Fresh(later)
      /\ data' = [t \in Tasks |-> IF t \in new THEN staged[t] + 1 ELSE data[t]]
      /\ staged' = [t \in Tasks |-> IF t \in new THEN staged[t] + 1 ELSE staged[t]]
      /\ result' = [t \in Tasks |-> IF t \in new THEN 0 ELSE result[t]]
      /\ \A t \in new : staged[t] < MaxStaged
      /\ UNCHANGED <<pending, retry, marker, running, dead, settled, aborted>>
  BY DEF PublishTasks, Reset
<1>2. BrokerInv'
  BY PublishTasksInv
<1>3. \A t \in new : data[t] = 0 /\ t \in Tasks
  BY DEF Fresh
<1> HIDE DEF new
<1>4. Copies'
  <2>1. /\ Fresh(now) \in SUBSET (Lanes \X Tasks) /\ Fresh(later) \in SUBSET (Lanes \X Tasks)
        /\ Fresh(now) \cap Fresh(later) = {}
    BY DEF Fresh
  <2> DEFINE A == Fresh(now)  C == Fresh(later)
  <2>2. \A l \in Lanes, t \in Tasks : <<l, t>> \in A \cup C =>
          /\ t \in new /\ data[t] = 0
          /\ \A m \in Lanes : <<m, t>> \in A \cup C => l = m
    BY DEF Fresh, new
  <2>3. \A t \in new : data'[t] # 0
    BY <1>1, <1>3 DEF BrokerInv, BrokerTypeOK
  <2>4. \A t \in Tasks : data[t] # 0 => data'[t] # 0
    BY <1>1, <1>3
  <2>5. /\ BrokerTypeOK /\ Copies /\ delayed' = (delayed \ {}) \cup C
        /\ stream' = stream \cup NewEntries(A)
    BY <1>1, FromBooks
  <2> HIDE DEF A, C
  <2>6. \A l \in Lanes, t \in Tasks : <<l, t>> \in A \cup C =>
          /\ \A e \in stream : e.task # t
          /\ \A m \in Lanes : <<m, t>> \notin delayed \ {}
          /\ data'[t] # 0
    BY <2>2, <2>3, <2>5 DEF Copies
  <2>7. A \subseteq Lanes \X Tasks /\ C \subseteq Lanes \X Tasks /\ A \cap C = {}
    BY <2>1 DEF A, C
  <2>8. \A l, m \in Lanes, t \in Tasks : <<l, t>> \in A \cup C /\ <<m, t>> \in A \cup C => l = m
    BY <2>2
  <2>9. Stages(A, {}, C)
    BY <2>4, <2>5, <2>6, <2>7, <2>8 DEF Stages
  <2> QED
    BY <2>5, <2>9, StagingCopies
<1>5. Ledger'
  <2>1. settled' \cup aborted' \subseteq Tasks \X (1..MaxStaged)
    BY <1>1 DEF Books, Ledger
  <2>2. ASSUME NEW t \in Tasks
        PROVE  staged'[t] <= MaxStaged /\ data'[t] \in {0, staged'[t]}
    BY <1>1, BrokerAssumption DEF Books, Ledger, BrokerInv, BrokerTypeOK
  <2>3. ASSUME NEW t \in Tasks, NEW i \in 1..MaxStaged
        PROVE  /\ <<t, i>> \in settled' <=> i <= staged'[t] /\ i # data'[t]
               /\ <<t, i>> \in aborted' => i <= staged'[t]
    <3>1. /\ <<t, i>> \in settled <=> i <= staged[t] /\ i # data[t]
          /\ <<t, i>> \in aborted => i <= staged[t]
          /\ staged[t] \in Nat
      BY DEF Books, Ledger, BrokerInv, BrokerTypeOK
    <3>2. CASE t \in new
      BY <1>1, <1>3, <3>1, <3>2
    <3>3. CASE t \notin new
      BY <1>1, <3>1, <3>3
    <3> QED
      BY <3>2, <3>3
  <2> QED
    BY <2>1, <2>2, <2>3 DEF Ledger
<1>6. ResultIsLatest'
  BY <1>1 DEF Books, ResultIsLatest
<1>7. NoResidue'
  BY <1>1, <1>3 DEF Books, NoResidue, BrokerInv, BrokerTypeOK
<1>8. AbortsKept'
  <2>1. ASSUME NEW t \in new PROVE <<t, staged[t] + 1>> \notin aborted
    BY <1>1, <1>3, BrokerAssumption DEF Books, Ledger, BrokerInv, BrokerTypeOK
  <2> QED
    BY <1>1, <2>1 DEF Books, AbortsKept, AbortRemembered
<1> QED
  BY <1>2, <1>4, <1>5, <1>6, <1>7, <1>8, CopiesNext DEF Books

LEMMA PublishDelayedBooks ==
  ASSUME BrokerInv, Books, NEW l \in Lanes, NEW due \in SUBSET delayed,
         PublishDelayed(l, due)
  PROVE  Books'
<1>1. /\ stream' = stream \cup NewEntries(due) /\ delayed' = (delayed \ due) \cup {}
      /\ UNCHANGED <<keys, history>> /\ data' = data
      /\ due \subseteq Lanes \X Tasks
  BY DEF PublishDelayed, keys, BrokerInv, BrokerTypeOK
<1>2. BrokerTypeOK /\ Copies
  BY FromBooks
<1>3. \A t \in Tasks, m \in Lanes : <<m, t>> \in due =>
        /\ data[t] # 0
        /\ \A e \in stream : e.task # t
        /\ \A k \in Lanes : <<k, t>> \in delayed => k = m
  BY <1>2 DEF Copies
<1>4. Stages(due, due, {})
  BY <1>1, <1>3 DEF Stages
<1>5. Copies' /\ BrokerInv'
  BY <1>2, <1>4, StagingCopies, PublishDelayedInv
<1> QED
  BY <1>1, <1>5, SameBooks

LEMMA ReplayDeadBooks ==
  ASSUME BrokerInv, Books, NEW t \in Tasks, NEW l \in Lanes, ReplayDead(t, l)
  PROVE  Books'
<1>1. BrokerTypeOK /\ Copies /\ BrokerInv'
  BY FromBooks, ReplayDeadInv
<1>2. CASE data[t] # 0
  <2>1. UNCHANGED <<stream, delayed, data, retry, marker, running, result, history>>
    BY <1>2 DEF ReplayDead, history
  <2>2. Copies'
    BY <1>1, <2>1 DEF Copies
  <2>3. Ledger' /\ ResultIsLatest' /\ NoResidue' /\ AbortsKept'
    BY <2>1 DEF Books, Ledger, ResultIsLatest, NoResidue, AbortsKept, AbortRemembered, history
  <2> QED
    BY <1>1, <2>2, <2>3, CopiesNext DEF Books
<1>3. CASE data[t] = 0
  <2>1. /\ staged[t] < MaxStaged
        /\ data' = [data EXCEPT ![t] = staged[t] + 1]
        /\ staged' = [staged EXCEPT ![t] = staged[t] + 1]
        /\ result' = [u \in Tasks |-> IF u = t THEN 0 ELSE result[u]]
        /\ stream' = stream \cup NewEntries({<<l, t>>}) /\ delayed' = (delayed \ {}) \cup {}
        /\ UNCHANGED <<delayed, retry, marker, running, settled, aborted>>
    BY <1>3 DEF ReplayDead, Reset
  <2>2. data'[t] # 0 /\ \A u \in Tasks \ {t} : data'[u] = data[u] /\ staged'[u] = staged[u]
    BY <1>1, <2>1 DEF BrokerTypeOK
  <2>3. (\A e \in stream : e.task # t) /\ \A m \in Lanes : <<m, t>> \notin delayed
    BY <1>1, <1>3 DEF Copies
  <2>4. Stages({<<l, t>>}, {}, {})
    BY <1>3, <2>1, <2>2, <2>3 DEF Stages
  <2>5. Copies'
    BY <1>1, <2>4, StagingCopies
  <2>6. Ledger'
    <3>1. data'[t] = staged[t] + 1 /\ staged'[t] = staged[t] + 1
      BY <1>1, <2>1 DEF BrokerTypeOK
    <3>2. Ledger /\ staged \in [Tasks -> Nat]
      BY <1>1 DEF Books, BrokerTypeOK
    <3>3. ASSUME NEW i \in 1..MaxStaged
          PROVE  /\ <<t, i>> \in settled <=> i <= staged[t] + 1 /\ i # staged[t] + 1
                 /\ <<t, i>> \in aborted => i <= staged[t] + 1
      BY <1>3, <3>2 DEF Ledger
    <3>4. staged[t] + 1 <= MaxStaged
      BY <2>1, <3>2, BrokerAssumption
    <3> QED
      BY <2>1, <2>2, <3>1, <3>2, <3>3, <3>4 DEF Ledger
  <2>7. ResultIsLatest'
    BY <2>1, <2>2 DEF Books, ResultIsLatest
  <2>8. NoResidue'
    BY <1>1, <2>1, <2>2 DEF Books, NoResidue
  <2>9. AbortsKept'
    <3>1. <<t, staged[t] + 1>> \notin aborted
      BY <1>1, <2>1, BrokerAssumption DEF Books, Ledger, BrokerTypeOK
    <3> QED
      BY <1>1, <2>1, <2>2, <3>1 DEF Books, AbortsKept, AbortRemembered, BrokerTypeOK
  <2> QED
    BY <1>1, <2>5, <2>6, <2>7, <2>8, <2>9, CopiesNext DEF Books
<1> QED
  BY <1>2, <1>3

\* The commands that leave entries, payloads, results and markers alone.
LEMMA QuietBooks ==
  ASSUME BrokerInv, Books, BrokerInv', UNCHANGED <<stream, delayed, data, marker, result, history>>,
         NoResidue'
  PROVE  Books'
<1>1. Copies'
  BY FromBooks DEF Copies
<1>2. Ledger' /\ ResultIsLatest' /\ AbortsKept'
  BY DEF Books, Ledger, ResultIsLatest, AbortsKept, AbortRemembered, history
<1> QED
  BY <1>1, <1>2, CopiesNext DEF Books

LEMMA StutterBooks ==
  ASSUME BrokerInv, Books, UNCHANGED brokerVars
  PROVE  Books'
BY StutterBroker, QuietBooks DEF brokerVars, history, Books, NoResidue

LEMMA DeadDeleteBooks ==
  ASSUME BrokerInv, Books, NEW t \in Tasks, DeadDelete(t)
  PROVE  Books'
BY DeadDeleteInv, QuietBooks DEF DeadDelete, queues, Books, NoResidue

LEMMA ReadNewBooks ==
  ASSUME BrokerInv, Books, NEW es, ReadNew(es)
  PROVE  Books'
BY ReadNewInv, QuietBooks DEF ReadNew, keys, Books, NoResidue

\* Counting and marking are for tasks whose payload is stored.
LEMMA IncrRetryBooks ==
  ASSUME BrokerInv, Books, NEW t \in Tasks, data[t] # 0, IncrRetry(t)
  PROVE  Books'
<1>1. /\ retry' = [retry EXCEPT ![t] = retry[t] + 1]
      /\ UNCHANGED <<stream, delayed, data, marker, running, result, history>>
  BY DEF IncrRetry, queues
<1>2. NoResidue'
  BY <1>1 DEF Books, NoResidue, BrokerInv, BrokerTypeOK
<1> QED
  BY <1>1, <1>2, IncrRetryInv, QuietBooks

LEMMA MarkRunningBooks ==
  ASSUME BrokerInv, Books, NEW t \in Tasks, data[t] # 0, MarkRunning(t)
  PROVE  Books'
BY MarkRunningInv, QuietBooks DEF MarkRunning, queues, Books, NoResidue

\* Entries X are taken out of the streams and their copies N put in.
Renumbers(X, N) ==
  /\ X \subseteq stream /\ stream' = (stream \ X) \cup N
  /\ UNCHANGED <<delayed, data>>
  /\ \A g \in N : \E f \in X : g.task = f.task
  /\ \A g, h \in N : g.task = h.task => g = h

LEMMA RenumberCopies ==
  ASSUME Copies, NEW X, NEW N, Renumbers(X, N)
  PROVE  Copies'
<1> USE DEF Renumbers
<1>1. \A g \in N : \E f \in X : f \in stream /\ g.task = f.task
  OBVIOUS
<1>2. \A g \in N, f \in stream \ X : g.task # f.task
  BY <1>1 DEF Copies
<1>3. \A e, f \in stream' : e.task = f.task => e = f
  BY <1>2 DEF Copies
<1>4. \A e \in stream' : data'[e.task] # 0 /\ \A l \in Lanes : <<l, e.task>> \notin delayed'
  BY <1>1 DEF Copies
<1> QED
  BY <1>3, <1>4 DEF Copies

LEMMA ReadAndHandBackBooks ==
  ASSUME BrokerInv, Books, NEW e, NEW extra, ReadAndHandBack(e, extra)
  PROVE  Books'
<1> DEFINE N == {[f EXCEPT !.id = nextId] : f \in extra}
<1>1. /\ extra \subseteq stream /\ stream' = (stream \ extra) \cup N
      /\ UNCHANGED <<delayed, keys, history>> /\ data' = data
  BY DEF ReadAndHandBack, Oldest, Waiting, keys
<1>2. BrokerTypeOK /\ Copies /\ BrokerInv'
  BY FromBooks, ReadAndHandBackInv
<1>3. \A g \in N : \E f \in extra : g = [f EXCEPT !.id = nextId] /\ g.task = f.task
  <2>1. ASSUME NEW f \in extra PROVE [f EXCEPT !.id = nextId].task = f.task
    BY <1>1, <1>2, RenumberedEntry DEF BrokerTypeOK
  <2> QED
    BY <2>1
<1> HIDE DEF N
<1>4. \A g, h \in N : g.task = h.task => g = h
  BY <1>1, <1>2, <1>3 DEF Copies
<1>5. Renumbers(extra, N)
  BY <1>1, <1>3, <1>4 DEF Renumbers
<1>6. Copies'
  BY <1>2, <1>5, RenumberCopies
<1> QED
  BY <1>1, <1>2, <1>6, SameBooks

LEMMA ReleaseBooks ==
  ASSUME BrokerInv, Books, NEW msgs \in Seq(Entry), Release(msgs), Distinct(msgs),
         \A i \in DOMAIN msgs : msgs[i] \in stream
  PROVE  Books'
<1> DEFINE X == {msgs[i] : i \in DOMAIN msgs}
           N == {[msgs[i] EXCEPT !.id = nextId + i] : i \in DOMAIN msgs}
<1>1. /\ X \subseteq stream /\ stream' = (stream \ X) \cup N
      /\ UNCHANGED <<delayed, keys, history>> /\ data' = data
  BY DEF Release, keys
<1>2. BrokerTypeOK /\ Copies /\ BrokerInv'
  BY FromBooks, ReleaseInv
<1>3. ASSUME NEW i \in DOMAIN msgs
      PROVE  [msgs[i] EXCEPT !.id = nextId + i].task = msgs[i].task
  <2>1. msgs[i] \in Entry /\ nextId + i \in Nat
    BY <1>2 DEF BrokerTypeOK
  <2> QED
    BY <2>1, RenumberedEntry
<1>4. \A g \in N : \E i \in DOMAIN msgs :
        g = [msgs[i] EXCEPT !.id = nextId + i] /\ g.task = msgs[i].task
  BY <1>3
<1>5. \A i, j \in DOMAIN msgs : msgs[i].task = msgs[j].task => i = j
  BY <1>2 DEF Copies, Distinct
<1>6. \A g \in N : \E f \in X : g.task = f.task
  BY <1>4
<1> HIDE DEF N, X
<1>7. \A g, h \in N : g.task = h.task => g = h
  BY <1>4, <1>5
<1>8. Renumbers(X, N)
  BY <1>1, <1>6, <1>7 DEF Renumbers
<1>9. Copies'
  BY <1>2, <1>8, RenumberCopies
<1> QED
  BY <1>1, <1>2, <1>9, SameBooks

LEMMA CompleteBooks ==
  ASSUME BrokerInv, Books, NEW e \in stream, NEW dies \in BOOLEAN,
         Complete(e, data[e.task], dies)
  PROVE  Books'
<1> DEFINE t == e.task
<1>1. /\ stream' = stream \ {e} /\ delayed' = delayed
      /\ running' = running \ {t}
      /\ retry' = [retry EXCEPT ![t] = 0] /\ data' = [data EXCEPT ![t] = 0]
      /\ marker' = [marker EXCEPT ![t] = FALSE]
      /\ result' = IF KeepResults THEN [result EXCEPT ![t] = data[t]] ELSE result
      /\ settled' = settled \cup {<<t, data[t]>>}
      /\ UNCHANGED <<staged, aborted>>
  BY DEF Complete, Acknowledge
<1>2. BrokerTypeOK /\ Copies /\ e \in Entry /\ t \in Tasks /\ data[t] \in Nat \ {0}
  BY FromBooks DEF BrokerTypeOK, Entry, Copies
<1>3. BrokerInv'
  BY <1>2, CompleteInv
<1> HIDE DEF t
<1>4. \A u \in Tasks : data'[u] = IF u = t THEN 0 ELSE data[u]
  BY <1>1, <1>2 DEF BrokerTypeOK
<1>5. Copies'
  <2>1. \A f \in stream' : f \in stream /\ f.task # t /\ f.task \in Tasks
    BY <1>1, <1>2 DEF Copies, t, BrokerTypeOK, Entry
  <2>2. \A l \in Lanes : <<l, t>> \notin delayed
    BY <1>2 DEF Copies, t
  <2> QED
    BY <1>1, <1>2, <1>4, <2>1, <2>2 DEF Copies
<1>6. Ledger'
  BY <1>1, <1>2, <1>4, BrokerAssumption DEF Books, Ledger, BrokerTypeOK
<1>7. ResultIsLatest'
  BY <1>1, <1>2 DEF Books, Ledger, ResultIsLatest, BrokerTypeOK
<1>8. NoResidue'
  BY <1>1, <1>2, <1>4 DEF Books, NoResidue, BrokerTypeOK
<1>9. AbortsKept'
  BY <1>1, <1>2, <1>4 DEF Books, AbortsKept, AbortRemembered, BrokerTypeOK
<1> QED
  BY <1>3, <1>5, <1>6, <1>7, <1>8, <1>9, CopiesNext DEF Books

LEMMA RetryLaterBooks ==
  ASSUME BrokerInv, Books, NEW e \in stream, RetryLater(e)
  PROVE  Books'
<1>1. /\ stream' = stream \ {e} /\ delayed' = delayed \cup {<<e.lane, e.task>>}
      /\ running' = running \ {e.task}
      /\ UNCHANGED <<data, retry, marker, result, history>>
  BY DEF RetryLater, Acknowledge
<1>2. BrokerTypeOK /\ Copies /\ e \in Entry /\ BrokerInv'
  BY FromBooks, RetryLaterInv DEF BrokerTypeOK
<1>3. Copies'
  BY <1>1, <1>2 DEF Copies, Entry
<1>4. Ledger' /\ ResultIsLatest' /\ NoResidue' /\ AbortsKept'
  BY <1>1 DEF Books, Ledger, ResultIsLatest, NoResidue, AbortsKept, AbortRemembered, history
<1> QED
  BY <1>2, <1>3, <1>4, CopiesNext DEF Books

LEMMA AbortTaskBooks ==
  ASSUME BrokerInv, Books, NEW t \in Tasks, AbortTask(t)
  PROVE  Books'
<1>1. BrokerTypeOK /\ Copies /\ BrokerInv' /\ Ledger
  BY FromBooks, AbortTaskInv DEF Books
<1>2. /\ data[t] # 0 /\ aborted' = aborted \cup {<<t, data[t]>>}
      /\ UNCHANGED <<stream, running, staged>>
  BY DEF AbortTask, Finished
<1>3. data[t] = staged[t] /\ data[t] \in 1..MaxStaged
  BY <1>1, <1>2, BrokerAssumption DEF Ledger, BrokerTypeOK
<1>4. CASE t \in running \/ ~IsDelayed(t)
  <2>1. /\ marker' = [marker EXCEPT ![t] = TRUE]
        /\ UNCHANGED <<delayed, data, retry, result, settled>>
    BY <1>4 DEF AbortTask
  <2>2. Copies'
    BY <1>1, <1>2, <2>1 DEF Copies
  <2>3. Ledger'
    BY <1>1, <1>2, <1>3, <2>1 DEF Ledger
  <2>4. ResultIsLatest' /\ NoResidue' /\ AbortsKept'
    BY <1>1, <1>2, <2>1 DEF Books, ResultIsLatest, NoResidue, AbortsKept, AbortRemembered,
       BrokerTypeOK
  <2> QED
    BY <1>1, <2>2, <2>3, <2>4, CopiesNext DEF Books
<1>5. CASE ~(t \in running \/ ~IsDelayed(t))
  <2>1. /\ delayed' = {p \in delayed : p[2] # t} /\ data' = [data EXCEPT ![t] = 0]
        /\ marker' = [marker EXCEPT ![t] = FALSE] /\ retry' = [retry EXCEPT ![t] = 0]
        /\ result' = IF KeepResults THEN [result EXCEPT ![t] = data[t]] ELSE result
        /\ settled' = settled \cup {<<t, data[t]>>}
    BY <1>5 DEF AbortTask
  <2>2. \A u \in Tasks : data'[u] = IF u = t THEN 0 ELSE data[u]
    BY <1>1, <2>1 DEF BrokerTypeOK
  <2>3. \A e \in stream : e.task # t /\ e.task \in Tasks
    BY <1>1, <1>5 DEF Copies, IsDelayed, BrokerTypeOK, Entry
  <2>4. Copies'
    BY <1>1, <1>2, <2>1, <2>2, <2>3 DEF Copies
  <2>5. Ledger'
    BY <1>1, <1>2, <1>3, <2>1, <2>2 DEF Ledger
  <2>6. ResultIsLatest'
    BY <1>1, <1>2, <1>3, <2>1 DEF Books, ResultIsLatest, BrokerTypeOK
  <2>7. NoResidue'
    BY <1>1, <1>2, <1>5, <2>1, <2>2 DEF Books, NoResidue, BrokerTypeOK
  <2>8. AbortsKept'
    BY <1>1, <1>2, <2>1, <2>2 DEF Books, AbortsKept, AbortRemembered, BrokerTypeOK
  <2> QED
    BY <1>1, <2>4, <2>5, <2>6, <2>7, <2>8, CopiesNext DEF Books
<1> QED
  BY <1>4, <1>5

LEMMA PurgeLaneBooks ==
  ASSUME BrokerInv, Books, NEW l \in Lanes, NEW scheduled \in SUBSET delayed,
         NEW waiting \in SUBSET Waiting, PurgeLane(l, scheduled, waiting),
         NoResidue'
  PROVE  Books'
<1> DEFINE gone == {p[2] : p \in scheduled} \cup {e.task : e \in waiting}
<1>1. BrokerTypeOK /\ Copies /\ BrokerInv' /\ Ledger
  BY FromBooks, PurgeLaneInv DEF Books
<1>2. /\ delayed' = delayed \ scheduled /\ stream' = stream \ waiting
      /\ data' = [t \in Tasks |-> IF t \in gone THEN 0 ELSE data[t]]
      /\ retry' = [t \in Tasks |-> IF t \in gone THEN 0 ELSE retry[t]]
      /\ marker' = [t \in Tasks |-> marker[t] /\ t \notin gone]
      /\ settled' = settled \cup {<<t, data[t]>> : t \in {u \in gone : data[u] # 0}}
      /\ UNCHANGED <<running, result, staged, aborted>>
  BY DEF PurgeLane
<1>3. waiting \subseteq stream
  BY DEF Waiting
<1>4. \A e \in stream \ waiting : e.task \notin gone /\ e.task \in Tasks
  BY <1>1, <1>3 DEF Copies, BrokerTypeOK, Entry
<1>5. \A m \in Lanes, t \in Tasks : <<m, t>> \in delayed \ scheduled => t \notin gone
  BY <1>1, <1>3 DEF Copies, BrokerTypeOK
<1>6. \A t \in gone : t \in Tasks /\ data[t] # 0
  BY <1>1, <1>3 DEF Copies, BrokerTypeOK, Entry
<1> HIDE DEF gone
<1>7. Copies'
  BY <1>1, <1>2, <1>4, <1>5 DEF Copies
<1>8. Ledger'
  <2>1. \A t \in gone : data[t] = staged[t] /\ data[t] \in 1..MaxStaged
    BY <1>1, <1>6, BrokerAssumption DEF Ledger, BrokerTypeOK
  <2>2. ASSUME NEW t \in Tasks, NEW i \in 1..MaxStaged
        PROVE  <<t, i>> \in settled' <=> <<t, i>> \in settled \/ (t \in gone /\ i = data[t])
    BY <1>2, <1>6
  <2>3. settled' \subseteq Tasks \X (1..MaxStaged)
    BY <1>1, <1>2, <1>6, <2>1 DEF Ledger
  <2>4. \A t \in Tasks : data'[t] = IF t \in gone THEN 0 ELSE data[t]
    BY <1>2
  <2>5. ASSUME NEW t \in Tasks, NEW i \in 1..MaxStaged
        PROVE  <<t, i>> \in settled' <=> i <= staged'[t] /\ i # data'[t]
    BY <1>1, <1>2, <2>1, <2>2, <2>4 DEF Ledger, BrokerTypeOK
  <2> QED
    BY <1>1, <1>2, <2>3, <2>4, <2>5 DEF Ledger
<1>9. ResultIsLatest' /\ AbortsKept'
  BY <1>1, <1>2 DEF Books, ResultIsLatest, AbortsKept, AbortRemembered, BrokerTypeOK
<1> QED
  BY <1>1, <1>7, <1>8, <1>9, CopiesNext DEF Books

\* A purge clears retry counts and markers, and may leave an id in the running set.
LEMMA PurgeLaneResidue ==
  ASSUME BrokerTypeOK, NoResidue, NEW l \in Lanes, NEW scheduled, NEW waiting,
         PurgeLane(l, scheduled, waiting),
         \A t \in Tasks : t \in running' /\ data'[t] = 0 => "purge" \in FaultKinds
  PROVE  NoResidue'
BY DEF PurgeLane, NoResidue, BrokerTypeOK

LEMMA ExpireResultBooks ==
  ASSUME BrokerInv, Books, NEW t \in Tasks, ExpireResult(t)
  PROVE  Books'
<1>1. /\ result' = [result EXCEPT ![t] = 0]
      /\ UNCHANGED <<stream, delayed, data, retry, marker, running, history>>
  BY DEF ExpireResult, queues
<1>2. Copies' /\ BrokerInv'
  BY <1>1, FromBooks, ExpireInv DEF Copies
<1>3. Ledger' /\ ResultIsLatest' /\ NoResidue' /\ AbortsKept'
  BY <1>1 DEF Books, Ledger, ResultIsLatest, NoResidue, AbortsKept, AbortRemembered, history,
     BrokerInv, BrokerTypeOK
<1> QED
  BY <1>2, <1>3, CopiesNext DEF Books

LEMMA ExpireMarkerBooks ==
  ASSUME BrokerInv, Books, NEW t \in Tasks, ExpireMarker(t), "expire_marker" \in FaultKinds
  PROVE  Books'
<1>1. /\ marker' = [marker EXCEPT ![t] = FALSE]
      /\ UNCHANGED <<stream, delayed, data, retry, running, result, history>>
  BY DEF ExpireMarker, queues
<1>2. Copies' /\ BrokerInv'
  BY <1>1, FromBooks, ExpireInv DEF Copies
<1>3. Ledger' /\ ResultIsLatest' /\ NoResidue' /\ AbortsKept'
  BY <1>1 DEF Books, Ledger, ResultIsLatest, NoResidue, AbortsKept, history,
     BrokerInv, BrokerTypeOK
<1> QED
  BY <1>2, <1>3, CopiesNext DEF Books

-----------------------------------------------------------------------------
(* What a command leaves to the owners of the entries that are not in G.   *)

Spares(G) ==
  \A e \in pending \ G : e \in pending' /\ data'[e.task] = data[e.task]

\* An owned payload is not staged over.
LEMMA OwnedIsStored ==
  ASSUME BrokerTypeOK, Copies, NEW e \in pending
  PROVE  e \in stream /\ e \in Entry /\ e.task \in Tasks /\ data[e.task] # 0
BY DEF BrokerTypeOK, Copies, Entry

LEMMA QuietSpares ==
  ASSUME pending \subseteq pending', data' = data
  PROVE  Spares({})
BY DEF Spares

LEMMA PublishTasksSpares ==
  ASSUME BrokerInv, Books, NEW now, NEW later, PublishTasks(now, later)
  PROVE  Spares({})
<1>1. BrokerTypeOK /\ Copies
  BY FromBooks
<1>2. pending' = pending /\ \A t \in Tasks : data[t] # 0 => data'[t] = data[t]
  BY DEF PublishTasks, Fresh
<1> QED
  BY <1>1, <1>2, OwnedIsStored DEF Spares

LEMMA ReplayDeadSpares ==
  ASSUME BrokerInv, Books, NEW t \in Tasks, NEW l \in Lanes, ReplayDead(t, l)
  PROVE  Spares({})
<1>1. BrokerTypeOK /\ Copies
  BY FromBooks
<1>2. pending' = pending /\ \A u \in Tasks : data[u] # 0 => data'[u] = data[u]
  BY <1>1 DEF ReplayDead, BrokerTypeOK
<1> QED
  BY <1>1, <1>2, OwnedIsStored DEF Spares

LEMMA CompleteSpares ==
  ASSUME BrokerInv, Books, NEW e \in stream, NEW stored, NEW dies, Complete(e, stored, dies)
  PROVE  Spares({e})
<1>1. BrokerTypeOK /\ Copies
  BY FromBooks
<1>2. pending' = pending \ {e} /\ data' = [data EXCEPT ![e.task] = 0]
  BY DEF Complete, Acknowledge
<1> QED
  BY <1>1, <1>2, OwnedIsStored DEF Spares, Copies, BrokerTypeOK

LEMMA AbortTaskSpares ==
  ASSUME BrokerInv, Books, NEW t \in Tasks, AbortTask(t)
  PROVE  Spares({})
<1>1. BrokerTypeOK /\ Copies
  BY FromBooks
<1>2. ASSUME NEW e \in pending PROVE e \in pending' /\ data'[e.task] = data[e.task]
  <2>1. e \in stream /\ e.task \in Tasks
    BY <1>1, OwnedIsStored
  <2>2. e.task = t => ~IsDelayed(t)
    BY <1>1, <2>1 DEF Copies, IsDelayed
  <2> QED
    BY <1>1, <2>1, <2>2 DEF AbortTask, BrokerTypeOK
<1> QED
  BY <1>2 DEF Spares

LEMMA PurgeLaneSpares ==
  ASSUME BrokerInv, Books, NEW l \in Lanes, NEW scheduled \in SUBSET delayed,
         NEW waiting \in SUBSET Waiting, PurgeLane(l, scheduled, waiting)
  PROVE  Spares({})
<1>1. BrokerTypeOK /\ Copies
  BY FromBooks
<1>2. ASSUME NEW e \in pending PROVE e \in pending' /\ data'[e.task] = data[e.task]
  <2>1. e \in stream /\ e.task \in Tasks
    BY <1>1, OwnedIsStored
  <2>2. ASSUME NEW p \in scheduled PROVE p[2] # e.task
    <3>1. p = <<p[1], p[2]>> /\ p[1] \in Lanes /\ p \in delayed
      BY <1>1 DEF BrokerTypeOK
    <3> QED
      BY <1>1, <2>1, <3>1 DEF Copies
  <2>3. \A f \in waiting : f.task # e.task
    BY <1>1, <2>1 DEF Copies, Waiting
  <2> QED
    BY <2>1, <2>2, <2>3 DEF PurgeLane
<1> QED
  BY <1>2 DEF Spares

-----------------------------------------------------------------------------
(* Owners.                                                                 *)

\* What remains to be shown of a step, besides IInv.
LEMMA HeldParts ==
  HeldInv <=> IInv /\ Books /\ OneOwner /\ LoadIsStored
BY DEF HeldInv, Books

LEMMA FromHeld ==
  ASSUME HeldInv
  PROVE  /\ IInv /\ BrokerInv /\ WorkerTypeOK /\ Books /\ BrokerTypeOK /\ Copies
         /\ OneOwner /\ LoadIsStored
BY HeldParts, BrokerPart, FromBooks

\* What a consumer holds is in the stream, with its payload.
LEMMA HoldsStored ==
  ASSUME HeldInv, NEW c \in Consumers, pc[c] # "idle"
  PROVE  /\ msg[c] \in pending /\ msg[c] \in stream /\ msg[c] \in Entry
         /\ msg[c].task \in Tasks /\ data[msg[c].task] # 0
<1>1. msg[c] \in pending
  BY FromHeld DEF OneOwner
<1> QED
  BY <1>1, FromHeld, OwnedIsStored

\* Nothing new is owned, and what is still owned is still pending.
Relinquishes ==
  /\ \A w \in Workers :
       /\ Distinct(channel'[w]) /\ InChannel(w)' \subseteq InChannel(w) \cap pending'
       /\ mode'[w] = "down" => InChannel(w)' = {}
  /\ \A c \in Consumers : pc'[c] # "idle" =>
       /\ pc[c] # "idle" /\ msg'[c] = msg[c] /\ msg[c] \in pending'
       /\ mode'[WorkerOf(c)] # "down"

LEMMA FewerOwners ==
  ASSUME OneOwner, Relinquishes
  PROVE  OneOwner'
BY DEF OneOwner, Relinquishes

SameSlot(c) == pc'[c] = pc[c] /\ msg'[c] = msg[c] /\ load'[c] = load[c]

LEMMA LoadsStill ==
  ASSUME HeldInv, NEW G, Spares(G),
         \A c \in Consumers :
           \/ SameSlot(c) /\ (pc[c] # "idle" => msg[c] \notin G)
           \/ pc'[c] \in {"idle", "counted", "marked"}
           \/ /\ pc'[c] \in {"fetched", "running", "ended"}
              /\ load'[c] = data'[msg'[c].task]
  PROVE  LoadIsStored'
<1>1. \A c \in Consumers : pc[c] # "idle" => msg[c] \in pending
  BY HoldsStored
<1>2. \A c \in Consumers : SameSlot(c) /\ (pc[c] # "idle" => msg[c] \notin G) =>
        /\ pc'[c] # "discarding"
        /\ pc'[c] \in {"fetched", "running", "ended"} => load'[c] = data'[msg'[c].task]
  BY <1>1, FromHeld DEF LoadIsStored, SameSlot, Spares
<1> QED
  BY <1>2 DEF LoadIsStored

\* Steps that leave every worker what it holds.
LEMMA QuietOwners ==
  ASSUME HeldInv, Spares({}), UNCHANGED <<channel, slotVars>>,
         \A w \in Workers : mode'[w] = "down" => mode[w] = "down"
  PROVE  OneOwner' /\ LoadIsStored'
<1>1. \A e \in pending : e \in pending'
  BY DEF Spares
<1>2. OneOwner /\ \A c \in Consumers : WorkerOf(c) \in Workers
  BY FromHeld DEF Consumers, WorkerOf
<1>3. OneOwner'
  BY <1>1, <1>2 DEF OneOwner, InChannel, slotVars
<1>4. \A c \in Consumers : SameSlot(c)
  BY DEF SameSlot, slotVars
<1> QED
  BY <1>3, <1>4, LoadsStill

-----------------------------------------------------------------------------
(* The producer.                                                           *)

\* In no channel and with no consumer.
Unowned(e) ==
  /\ \A w \in Workers : e \notin InChannel(w)
  /\ \A c \in Consumers : pc[c] # "idle" => msg[c] # e

LEMMA NotDeliveredIsFree ==
  ASSUME OneOwner, NEW e, e \notin pending
  PROVE  Unowned(e)
BY DEF OneOwner, Unowned

LEMMA IdleIsFree ==
  ASSUME OneOwner, Lease = "held", NEW e, MayBeIdle(e)
  PROVE  Unowned(e)
<1>1. \A w \in Workers : mode[w] # "down" => e \notin Held(w)
  BY DEF MayBeIdle, Covered
<1>2. \A c \in Consumers : pc[c] # "idle" => c \in Busy(WorkerOf(c)) /\ WorkerOf(c) \in Workers
  BY DEF Busy, Consumers, WorkerOf
<1> QED
  BY <1>1, <1>2 DEF OneOwner, Unowned, Held

LEMMA AppendDistinct ==
  ASSUME NEW S, NEW s \in Seq(S), NEW e \in S, Distinct(s), \A i \in DOMAIN s : s[i] # e
  PROVE  Distinct(Append(s, e))
<1>1. Append(s, e) \in Seq(S) /\ DOMAIN Append(s, e) = 1..(Len(s) + 1)
      /\ DOMAIN s = 1..Len(s) /\ Len(s) \in Nat
  OBVIOUS
<1>2. Append(s, e)[Len(s) + 1] = e /\ \A i \in 1..Len(s) : Append(s, e)[i] = s[i]
  OBVIOUS
<1> QED
  BY <1>1, <1>2 DEF Distinct

LEMMA ReceiveOwners ==
  ASSUME HeldInv, NEW w \in Workers, NEW e \in stream, Receive(w, e),
         Unowned(e), e \in pending', mode[w] # "down", Spares({}),
         UNCHANGED <<mode, slotVars>>
  PROVE  OneOwner' /\ LoadIsStored'
<1>1. /\ OneOwner /\ channel \in [Workers -> Seq(Entry)] /\ e \in Entry
      /\ \A f \in pending : f \in pending'
  BY FromHeld DEF WorkerTypeOK, BrokerTypeOK, Spares
<1> HIDE DEF Entry
<1>2. /\ channel'[w] = Append(channel[w], e)
      /\ \A v \in Workers \ {w} : channel'[v] = channel[v]
  BY <1>1 DEF Receive
<1>3. Distinct(channel'[w])
  BY <1>1, <1>2, AppendDistinct DEF OneOwner, Unowned, InChannel
<1>4. InChannel(w)' = InChannel(w) \cup {e}
  <2>1. channel[w] \in Seq(Entry)
    BY <1>1
  <2>2. /\ DOMAIN Append(channel[w], e) = 1..(Len(channel[w]) + 1)
        /\ DOMAIN channel[w] = 1..Len(channel[w]) /\ Len(channel[w]) \in Nat
        /\ Append(channel[w], e)[Len(channel[w]) + 1] = e
        /\ \A i \in 1..Len(channel[w]) : Append(channel[w], e)[i] = channel[w][i]
    BY <1>1, <2>1
  <2> QED
    BY <1>2, <2>2 DEF InChannel
<1>5. \A v \in Workers \ {w} : InChannel(v)' = InChannel(v)
  BY <1>2 DEF InChannel
<1>6. OneOwner'
  <2>1. ASSUME NEW v \in Workers
        PROVE  /\ Distinct(channel'[v]) /\ InChannel(v)' \subseteq pending'
               /\ mode'[v] = "down" => InChannel(v)' = {}
               /\ \A u \in Workers \ {v} : InChannel(u)' \cap InChannel(v)' = {}
    <3>1. Distinct(channel'[v]) /\ InChannel(v)' \subseteq pending'
      BY <1>1, <1>2, <1>3, <1>4, <1>5 DEF OneOwner
    <3>2. mode'[v] = "down" => InChannel(v)' = {}
      BY <1>1, <1>5 DEF OneOwner
    <3>3. ASSUME NEW u \in Workers \ {v} PROVE InChannel(u)' \cap InChannel(v)' = {}
      <4>1. InChannel(u) \cap InChannel(v) = {} /\ e \notin InChannel(u) /\ e \notin InChannel(v)
        BY <1>1 DEF OneOwner, Unowned
      <4>2. /\ InChannel(v)' = InChannel(v) \/ (v = w /\ InChannel(v)' = InChannel(v) \cup {e})
            /\ InChannel(u)' = InChannel(u) \/ (u = w /\ InChannel(u)' = InChannel(u) \cup {e})
        BY <1>4, <1>5
      <4> QED
        BY <4>1, <4>2
    <3> QED
      BY <3>1, <3>2, <3>3
  <2>2. ASSUME NEW c \in Consumers, pc'[c] # "idle"
        PROVE  /\ msg'[c] \in pending' /\ mode'[WorkerOf(c)] # "down"
               /\ \A v \in Workers : msg'[c] \notin InChannel(v)'
               /\ \A d \in Consumers \ {c} : pc'[d] # "idle" => msg'[d] # msg'[c]
    BY <1>1, <1>4, <1>5, <2>2 DEF OneOwner, Unowned, slotVars
  <2> QED
    BY <2>1, <2>2 DEF OneOwner
<1>7. \A c \in Consumers : SameSlot(c)
  BY DEF SameSlot, slotVars
<1> QED
  BY <1>6, <1>7, LoadsStill

\* The parts of HeldInv that DeliveryProofs does not cover.
Kept == Books /\ OneOwner /\ LoadIsStored

LEMMA ReadHeld ==
  ASSUME HeldInv, NEW w \in Workers, NEW e \in stream, Read(w, e)
  PROVE  Kept'
<1>1. /\ ReadNew({e}) /\ Receive(w, e) /\ UNCHANGED <<mode, slotVars>>
      /\ mode[w] # "down"
  BY DEF Read, Producing
<1>2. Unowned(e) /\ e \in pending'
  BY <1>1, FromHeld, NotDeliveredIsFree DEF ReadNew, Oldest, Waiting
<1>3. Spares({})
  BY <1>1, QuietSpares DEF ReadNew, keys
<1>4. Books'
  BY <1>1, FromHeld, ReadNewBooks
<1> QED
  BY <1>1, <1>2, <1>3, <1>4, ReceiveOwners DEF Kept

LEMMA OverreadHeld ==
  ASSUME HeldInv, NEW w \in Workers, NEW e \in stream, NEW extra \in SUBSET stream,
         Overread(w, e, extra)
  PROVE  Kept'
<1>1. /\ ReadAndHandBack(e, extra) /\ Receive(w, e) /\ UNCHANGED <<mode, slotVars>>
      /\ mode[w] # "down"
  BY DEF Overread, Producing
<1>2. Unowned(e) /\ e \in pending'
  BY <1>1, FromHeld, NotDeliveredIsFree DEF ReadAndHandBack, Oldest, Waiting
<1>3. Spares({})
  BY <1>1, QuietSpares DEF ReadAndHandBack, keys
<1>4. Books'
  BY <1>1, FromHeld, ReadAndHandBackBooks
<1> QED
  BY <1>1, <1>2, <1>3, <1>4, ReceiveOwners DEF Kept

LEMMA ClaimHeld ==
  ASSUME HeldInv, Timely, NEW w \in Workers, NEW e \in stream, Claim(w, e)
  PROVE  Kept'
<1>1. /\ UNCHANGED brokerVars /\ Receive(w, e) /\ UNCHANGED <<mode, slotVars>>
      /\ mode[w] # "down" /\ MayBeIdle(e)
  BY DEF Claim, Producing
<1>2. Unowned(e) /\ e \in pending'
  BY <1>1, FromHeld, IdleIsFree DEF Timely, MayBeIdle, brokerVars
<1>3. Spares({})
  BY <1>1, QuietSpares DEF brokerVars
<1>4. Books'
  BY <1>1, FromHeld, StutterBooks
<1> QED
  BY <1>1, <1>2, <1>3, <1>4, ReceiveOwners DEF Kept

LEMMA PromoteHeld ==
  ASSUME HeldInv, NEW w \in Workers, NEW l \in Lanes, NEW due \in SUBSET delayed,
         Promote(w, l, due)
  PROVE  Kept'
<1>1. PublishDelayed(l, due) /\ UNCHANGED <<mode, channel, slotVars>>
  BY DEF Promote, workerVars, slotVars
<1>2. Spares({})
  BY <1>1, QuietSpares DEF PublishDelayed, keys
<1>3. Books'
  BY <1>1, FromHeld, PublishDelayedBooks
<1> QED
  BY <1>1, <1>2, <1>3, QuietOwners DEF Kept

LEMMA ProducerErrorHeld ==
  ASSUME HeldInv, NEW w \in Workers, ProducerError(w)
  PROVE  Kept'
<1>1. /\ UNCHANGED <<channel, slotVars>>
      /\ \A v \in Workers : mode'[v] = "down" => mode[v] = "down"
  BY FromHeld DEF ProducerError, WorkerTypeOK
<1>2. Books' /\ Spares({})
  <2>1. CASE UNCHANGED brokerVars
    BY <2>1, FromHeld, StutterBooks, QuietSpares DEF brokerVars
  <2>2. ASSUME NEW es \in SUBSET stream, ReadNew(es) PROVE Books' /\ Spares({})
    BY <2>2, FromHeld, ReadNewBooks, QuietSpares DEF ReadNew, keys
  <2>3. ASSUME NEW e \in stream, NEW extra \in SUBSET stream, ReadAndHandBack(e, extra)
        PROVE  Books' /\ Spares({})
    BY <2>3, FromHeld, ReadAndHandBackBooks, QuietSpares DEF ReadAndHandBack, keys
  <2> QED
    BY <2>1, <2>2, <2>3 DEF ProducerError
<1> QED
  BY <1>1, <1>2, QuietOwners DEF Kept

-----------------------------------------------------------------------------
(* The consumers.                                                          *)

LEMMA TailDistinct ==
  ASSUME NEW S, NEW s \in Seq(S), s # <<>>, Distinct(s)
  PROVE  /\ Distinct(Tail(s))
         /\ \A i \in DOMAIN Tail(s) :
              Tail(s)[i] # Head(s) /\ \E j \in DOMAIN s : Tail(s)[i] = s[j]
<1>1. /\ 1 \in DOMAIN s /\ Head(s) = s[1]
      /\ \A i \in DOMAIN Tail(s) : i + 1 \in DOMAIN s /\ Tail(s)[i] = s[i + 1]
  BY HeadAndTail
<1>2. DOMAIN Tail(s) \subseteq Nat \ {0}
  <2>1. Tail(s) \in Seq(S)
    OBVIOUS
  <2> QED
    BY <2>1
<1> QED
  BY <1>1, <1>2 DEF Distinct

\* A consumer, or a failed pickup, removes the head of its worker's channel.
LEMMA HeadLeaves ==
  ASSUME HeldInv, NEW w \in Workers, channel[w] # <<>>,
         channel' = [channel EXCEPT ![w] = Tail(@)]
  PROVE  /\ Head(channel[w]) \in InChannel(w) /\ Head(channel[w]) \notin InChannel(w)'
         /\ \A v \in Workers : Distinct(channel'[v]) /\ InChannel(v)' \subseteq InChannel(v)
<1>1. OneOwner /\ channel \in [Workers -> Seq(Entry)]
  BY FromHeld DEF WorkerTypeOK
<1> HIDE DEF Entry
<1>2. /\ channel'[w] = Tail(channel[w])
      /\ \A v \in Workers \ {w} : channel'[v] = channel[v]
  BY <1>1
<1>3. /\ channel[w] \in Seq(Entry) /\ Distinct(channel[w])
  BY <1>1 DEF OneOwner
<1>4. /\ Distinct(Tail(channel[w]))
      /\ \A i \in DOMAIN Tail(channel[w]) :
           /\ Tail(channel[w])[i] # Head(channel[w])
           /\ \E j \in DOMAIN channel[w] : Tail(channel[w])[i] = channel[w][j]
  BY <1>3, TailDistinct
<1>5. Head(channel[w]) = channel[w][1] /\ 1 \in DOMAIN channel[w]
  BY <1>3, HeadAndTail
<1>6. Head(channel[w]) \in InChannel(w) /\ Head(channel[w]) \notin InChannel(w)'
  BY <1>2, <1>4, <1>5 DEF InChannel
<1>7. InChannel(w)' \subseteq InChannel(w) /\ Distinct(channel'[w])
  BY <1>2, <1>4 DEF InChannel
<1>8. \A v \in Workers \ {w} : InChannel(v)' = InChannel(v) /\ Distinct(channel'[v])
  BY <1>1, <1>2 DEF InChannel, OneOwner
<1> QED
  BY <1>6, <1>7, <1>8

LEMMA TakeHeld ==
  ASSUME HeldInv, NEW c \in Consumers, Take(c)
  PROVE  Kept'
<1> DEFINE w == c[1]
           e == Head(channel[w])
<1>1. /\ w \in Workers /\ WorkerOf(c) = w /\ channel[w] # <<>> /\ mode[w] # "down"
      /\ pc[c] = "idle" /\ IncrRetry(e.task) /\ mode' = mode /\ load' = load
      /\ channel' = [channel EXCEPT ![w] = Tail(@)]
  BY DEF Take, CanTake, WorkerOf, Consumers
<1>2. /\ e \in InChannel(w) /\ e \notin InChannel(w)'
      /\ \A v \in Workers : Distinct(channel'[v]) /\ InChannel(v)' \subseteq InChannel(v)
  BY <1>1, HeadLeaves
<1>3. OneOwner /\ BrokerTypeOK /\ Copies /\ WorkerTypeOK
  BY FromHeld
<1>4. /\ pc'[c] = "counted" /\ msg'[c] = e
      /\ \A d \in Consumers \ {c} : pc'[d] = pc[d] /\ msg'[d] = msg[d]
  BY <1>3 DEF Take, WorkerOf, WorkerTypeOK
<1> HIDE DEF w, e
<1>5. e \in pending /\ e.task \in Tasks /\ data[e.task] # 0
  BY <1>1, <1>2, <1>3, OwnedIsStored DEF OneOwner
<1>6. Books'
  BY <1>1, <1>5, FromHeld, IncrRetryBooks
<1>7. pending' = pending /\ data' = data
  BY <1>1 DEF IncrRetry, queues
<1>8. \A v \in Workers : e \notin InChannel(v)'
  BY <1>1, <1>2, <1>3 DEF OneOwner
<1>9. \A d \in Consumers : pc[d] # "idle" => msg[d] # e
  BY <1>1, <1>2, <1>3 DEF OneOwner
<1>10. OneOwner'
  <2>1. ASSUME NEW v \in Workers
        PROVE  /\ Distinct(channel'[v]) /\ InChannel(v)' \subseteq pending'
               /\ mode'[v] = "down" => InChannel(v)' = {}
               /\ \A u \in Workers \ {v} : InChannel(u)' \cap InChannel(v)' = {}
    BY <1>1, <1>2, <1>3, <1>7 DEF OneOwner
  <2>2. ASSUME NEW d \in Consumers, pc'[d] # "idle"
        PROVE  /\ msg'[d] \in pending' /\ mode'[WorkerOf(d)] # "down"
               /\ \A v \in Workers : msg'[d] \notin InChannel(v)'
               /\ \A f \in Consumers \ {d} : pc'[f] # "idle" => msg'[f] # msg'[d]
    <3>1. CASE d = c
      BY <1>1, <1>4, <1>5, <1>7, <1>8, <1>9, <3>1
    <3>2. CASE d # c
      BY <1>1, <1>2, <1>3, <1>4, <1>7, <1>9, <2>2, <3>2 DEF OneOwner
    <3> QED
      BY <3>1, <3>2
  <2> QED
    BY <2>1, <2>2 DEF OneOwner
<1>11. LoadIsStored'
  BY <1>1, <1>4, <1>7, QuietSpares, LoadsStill DEF SameSlot
<1> QED
  BY <1>6, <1>10, <1>11 DEF Kept

LEMMA TakeErrorHeld ==
  ASSUME HeldInv, NEW c \in Consumers, TakeError(c)
  PROVE  Kept'
<1> DEFINE w == c[1]
           e == Head(channel[w])
<1>1. /\ w \in Workers /\ WorkerOf(c) = w /\ channel[w] # <<>>
      /\ IncrRetry(e.task) \/ UNCHANGED brokerVars
      /\ UNCHANGED <<mode, slotVars>> /\ channel' = [channel EXCEPT ![w] = Tail(@)]
  BY DEF TakeError, CanTake, WorkerOf, Consumers
<1>2. /\ e \in InChannel(w)
      /\ \A v \in Workers : Distinct(channel'[v]) /\ InChannel(v)' \subseteq InChannel(v)
  BY <1>1, HeadLeaves
<1>3. OneOwner /\ BrokerTypeOK /\ Copies
  BY FromHeld
<1> HIDE DEF w, e
<1>4. e.task \in Tasks /\ data[e.task] # 0
  BY <1>1, <1>2, <1>3, OwnedIsStored DEF OneOwner
<1>5. Books'
  BY <1>1, <1>4, FromHeld, IncrRetryBooks, StutterBooks
<1>6. pending' = pending /\ data' = data
  BY <1>1 DEF IncrRetry, queues, brokerVars
<1>7. Relinquishes
  BY <1>1, <1>2, <1>3, <1>6 DEF Relinquishes, OneOwner, slotVars
<1>8. LoadIsStored'
  BY <1>1, <1>6, QuietSpares, LoadsStill DEF SameSlot, slotVars
<1> QED
  BY <1>3, <1>5, <1>7, <1>8, FewerOwners DEF Kept

\* A consumer goes on with the message it holds.
LEMMA SameOwners ==
  ASSUME HeldInv, Spares({}), UNCHANGED <<mode, channel, msg>>,
         \A d \in Consumers : pc'[d] # "idle" => pc[d] # "idle"
  PROVE  OneOwner'
<1>1. OneOwner /\ \A e \in pending : e \in pending'
  BY FromHeld DEF Spares
<1>2. Relinquishes
  BY <1>1 DEF Relinquishes, OneOwner, InChannel
<1> QED
  BY <1>1, <1>2, FewerOwners

LEMMA MarkHeld ==
  ASSUME HeldInv, NEW c \in Consumers, Mark(c)
  PROVE  Kept'
<1>1. /\ pc[c] = "counted" /\ pc' = [pc EXCEPT ![c] = "marked"]
      /\ MarkRunning(msg[c].task) \/ UNCHANGED brokerVars
      /\ UNCHANGED <<mode, channel, msg, load>>
  BY DEF Mark
<1>2. msg[c].task \in Tasks /\ data[msg[c].task] # 0
  BY <1>1, HoldsStored
<1>3. Books'
  BY <1>1, <1>2, FromHeld, MarkRunningBooks, StutterBooks
<1>4. Spares({})
  BY <1>1, QuietSpares DEF MarkRunning, queues, brokerVars
<1>5. pc'[c] = "marked" /\ \A d \in Consumers \ {c} : pc'[d] = pc[d]
  BY <1>1, FromHeld DEF WorkerTypeOK
<1>6. OneOwner'
  BY <1>1, <1>4, <1>5, SameOwners
<1>7. LoadIsStored'
  BY <1>1, <1>4, <1>5, LoadsStill DEF SameSlot
<1> QED
  BY <1>3, <1>6, <1>7 DEF Kept

\* The payload of a delivered entry is there: nothing is ever discarded.
LEMMA FetchHeld ==
  ASSUME HeldInv, NEW c \in Consumers, Fetch(c)
  PROVE  Kept'
<1>1. /\ pc[c] = "marked" /\ load' = [load EXCEPT ![c] = data[msg[c].task]]
      /\ UNCHANGED <<brokerVars, mode, channel, msg>>
  BY DEF Fetch
<1>2. data[msg[c].task] # 0
  BY <1>1, HoldsStored
<1>3. Books' /\ Spares({}) /\ data' = data
  BY <1>1, FromHeld, StutterBooks, QuietSpares DEF brokerVars
<1>4. /\ pc'[c] \in {"fetched", "ended"} /\ load'[c] = data[msg[c].task]
      /\ \A d \in Consumers \ {c} : pc'[d] = pc[d] /\ load'[d] = load[d]
  BY <1>1, <1>2, FromHeld DEF Fetch, WorkerTypeOK
<1>5. OneOwner'
  BY <1>1, <1>3, <1>4, SameOwners
<1>6. LoadIsStored'
  BY <1>1, <1>3, <1>4, LoadsStill DEF SameSlot
<1> QED
  BY <1>3, <1>5, <1>6 DEF Kept

\* A step within the user's code and around it.
LEMMA AttemptHeld ==
  ASSUME HeldInv, NEW c \in Consumers, pc[c] \in {"fetched", "running"},
         UNCHANGED <<brokerVars, mode, channel, msg, load>>,
         pc'[c] \in {"running", "ended"}, \A d \in Consumers \ {c} : pc'[d] = pc[d]
  PROVE  Kept'
<1>1. Books' /\ Spares({}) /\ data' = data
  BY FromHeld, StutterBooks, QuietSpares DEF brokerVars
<1>2. OneOwner'
  BY <1>1, SameOwners
<1>3. load'[c] = data'[msg'[c].task]
  BY <1>1, FromHeld DEF LoadIsStored
<1>4. LoadIsStored'
  BY <1>1, <1>3, LoadsStill DEF SameSlot
<1> QED
  BY <1>1, <1>2, <1>4 DEF Kept

LEMMA BeginHeld ==
  ASSUME HeldInv, NEW c \in Consumers, Begin(c)
  PROVE  Kept'
<1>1. pc'[c] \in {"running", "ended"} /\ \A d \in Consumers \ {c} : pc'[d] = pc[d]
  BY FromHeld DEF Begin, WorkerTypeOK
<1> QED
  BY <1>1, AttemptHeld DEF Begin

LEMMA EndHeld ==
  ASSUME HeldInv, NEW c \in Consumers, NEW o \in Outcomes, End(c, o)
  PROVE  Kept'
<1>1. pc'[c] \in {"running", "ended"} /\ \A d \in Consumers \ {c} : pc'[d] = pc[d]
  BY FromHeld DEF End, EndWith, WorkerTypeOK
<1> QED
  BY <1>1, AttemptHeld DEF End

LEMMA WatchHeld ==
  ASSUME HeldInv, NEW w \in Workers, NEW t \in Tasks, Watch(w, t)
  PROVE  Kept'
<1>1. UNCHANGED <<brokerVars, mode, channel, msg, tries, load>>
  BY DEF Watch
<1>2. CASE UNCHANGED <<pc, outcome>>
  BY <1>1, <1>2, FromHeld, StutterBooks, QuietSpares, QuietOwners DEF Kept, slotVars, brokerVars
<1>3. CASE registered[w][t] # NoSlot /\ EndWith(<<w, registered[w][t]>>, "aborted")
  <2> DEFINE c == <<w, registered[w][t]>>
  <2>1. registered[w][t] \in Slots
    BY <1>3, FromHeld DEF WorkerTypeOK
  <2>2. c \in Consumers /\ pc[c] = "running"
    BY <1>3, <2>1, FromHeld DEF IInv, CancelsItsOwn, Consumers
  <2>3. pc'[c] = "ended" /\ \A d \in Consumers \ {c} : pc'[d] = pc[d]
    BY <1>3, <2>2, FromHeld DEF EndWith, WorkerTypeOK
  <2> HIDE DEF c
  <2> QED
    BY <1>1, <2>2, <2>3, AttemptHeld
<1> QED
  BY <1>2, <1>3 DEF Watch

\* A consumer forgets its message, whose entry G may be gone.
LEMMA FreeOwners ==
  ASSUME HeldInv, NEW c \in Consumers, pc[c] # "idle", Free(c), UNCHANGED <<mode, channel>>,
         NEW G, G \subseteq {msg[c]}, Spares(G)
  PROVE  OneOwner' /\ LoadIsStored'
<1>1. /\ pc'[c] = "idle"
      /\ \A d \in Consumers \ {c} : SameSlot(d)
  BY FromHeld DEF Free, WorkerTypeOK, SameSlot
<1>2. OneOwner /\ \A e \in pending : e # msg[c] => e \in pending'
  BY FromHeld DEF Spares
<1>3. \A d \in Consumers \ {c} : pc[d] # "idle" => msg[d] # msg[c]
  BY <1>2 DEF OneOwner
<1>4. \A w \in Workers : msg[c] \notin InChannel(w)
  BY <1>2 DEF OneOwner
<1>5. Relinquishes
  BY <1>1, <1>2, <1>3, <1>4 DEF Relinquishes, OneOwner, InChannel, SameSlot
<1>6. LoadIsStored'
  BY <1>1, <1>3, LoadsStill
<1> QED
  BY <1>2, <1>5, <1>6, FewerOwners

LEMMA FinishHeld ==
  ASSUME HeldInv, NEW c \in Consumers, Finish(c)
  PROVE  Kept'
<1>1. pc[c] = "ended" /\ Free(c) /\ UNCHANGED <<mode, channel>>
  BY DEF Finish
<1>2. /\ msg[c] \in stream /\ load[c] = data[msg[c].task]
      /\ (outcome[c] = "dead") \in BOOLEAN
  BY <1>1, HoldsStored, FromHeld DEF LoadIsStored
<1>3. Books' /\ Spares({msg[c]})
  <2>1. CASE RetryLater(msg[c])
    BY <1>2, <2>1, FromHeld, RetryLaterBooks DEF RetryLater, Acknowledge, Spares
  <2>2. CASE Complete(msg[c], load[c], outcome[c] = "dead")
    BY <1>2, <2>2, FromHeld, CompleteBooks, CompleteSpares
  <2> QED
    BY <2>1, <2>2 DEF Finish
<1> QED
  BY <1>1, <1>3, FreeOwners DEF Kept

LEMMA AbandonHeld ==
  ASSUME HeldInv, NEW c \in Consumers, Abandon(c)
  PROVE  Kept'
<1>1. pc[c] # "idle" /\ Free(c) /\ UNCHANGED <<brokerVars, mode, channel>>
  BY DEF Abandon
<1>2. Books' /\ Spares({})
  BY <1>1, FromHeld, StutterBooks, QuietSpares DEF brokerVars
<1> QED
  BY <1>1, <1>2, FreeOwners DEF Kept

-----------------------------------------------------------------------------
(* A worker's life.                                                        *)

\* A worker loses its memory, and hands back G out of its channel.
LEMMA VanishOwners ==
  ASSUME HeldInv, NEW w \in Workers, Vanish(w), NEW G, G \subseteq InChannel(w), Spares(G)
  PROVE  OneOwner' /\ LoadIsStored'
<1>1. OneOwner /\ WorkerTypeOK /\ \A e \in pending \ InChannel(w) : e \in pending'
  BY FromHeld DEF Spares
<1>2. /\ channel'[w] = <<>>
      /\ \A v \in Workers \ {w} : channel'[v] = channel[v] /\ mode'[v] = mode[v]
  BY <1>1 DEF Vanish, WorkerTypeOK
<1>3. \A c \in Consumers :
        /\ WorkerOf(c) \in Workers
        /\ WorkerOf(c) = w => pc'[c] = "idle"
        /\ WorkerOf(c) # w => SameSlot(c)
  BY DEF Vanish, WorkerOf, SameSlot, Consumers
<1>4. \A c \in Consumers : pc[c] # "idle" => msg[c] \notin InChannel(w)
  BY <1>1 DEF OneOwner
<1>5. Relinquishes
  <2>1. ASSUME NEW v \in Workers
        PROVE  /\ Distinct(channel'[v]) /\ InChannel(v)' \subseteq InChannel(v) \cap pending'
               /\ mode'[v] = "down" => InChannel(v)' = {}
    <3>1. CASE v = w
      BY <1>2, <3>1 DEF InChannel, Distinct
    <3>2. CASE v # w
      <4>1. InChannel(v)' = InChannel(v)
        BY <1>2, <3>2 DEF InChannel
      <4>2. InChannel(v) \cap InChannel(w) = {} /\ InChannel(v) \subseteq pending
        BY <1>1, <3>2 DEF OneOwner
      <4> QED
        BY <1>1, <1>2, <3>2, <4>1, <4>2 DEF OneOwner
    <3> QED
      BY <3>1, <3>2
  <2>2. ASSUME NEW c \in Consumers, pc'[c] # "idle"
        PROVE  /\ pc[c] # "idle" /\ msg'[c] = msg[c] /\ msg[c] \in pending'
               /\ mode'[WorkerOf(c)] # "down"
    BY <1>1, <1>2, <1>3, <1>4, <2>2 DEF OneOwner, SameSlot
  <2> QED
    BY <2>1, <2>2 DEF Relinquishes
<1>6. LoadIsStored'
  BY <1>3, <1>4, LoadsStill
<1> QED
  BY <1>1, <1>5, <1>6, FewerOwners

LEMMA CrashHeld ==
  ASSUME HeldInv, NEW w \in Workers, Crash(w)
  PROVE  Kept'
<1>1. Vanish(w) /\ UNCHANGED brokerVars
  BY DEF Crash
<1>2. Books' /\ Spares({})
  BY <1>1, FromHeld, StutterBooks, QuietSpares DEF brokerVars
<1> QED
  BY <1>1, <1>2, VanishOwners DEF Kept

LEMMA LeaveHeld ==
  ASSUME HeldInv, NEW w \in Workers, Leave(w)
  PROVE  Kept'
<1>1. Vanish(w)
  BY DEF Leave
<1>2. CASE UNCHANGED brokerVars
  <2>1. Books' /\ Spares({})
    BY <1>2, FromHeld, StutterBooks, QuietSpares DEF brokerVars
  <2> QED
    BY <1>1, <2>1, VanishOwners DEF Kept
<1>3. CASE Release(channel[w])
  <2>1. /\ channel[w] \in Seq(Entry) /\ Distinct(channel[w]) /\ BrokerTypeOK
        /\ \A i \in DOMAIN channel[w] : channel[w][i] \in InChannel(w)
        /\ InChannel(w) \subseteq pending
    BY FromHeld DEF WorkerTypeOK, OneOwner, InChannel
  <2>2. \A i \in DOMAIN channel[w] : channel[w][i] \in stream
    BY <2>1 DEF BrokerTypeOK
  <2>3. Books'
    BY <1>3, <2>1, <2>2, FromHeld, ReleaseBooks
  <2>4. Spares(InChannel(w))
    BY <1>3 DEF Release, InChannel, Spares, keys
  <2> QED
    BY <1>1, <2>3, <2>4, VanishOwners DEF Kept
<1> QED
  BY <1>2, <1>3 DEF Leave

\* Steps that touch neither Redis nor what the workers hold.
LEMMA LifeHeld ==
  ASSUME HeldInv, UNCHANGED <<brokerVars, channel, slotVars>>,
         \A v \in Workers : mode'[v] = "down" => mode[v] = "down"
  PROVE  Kept'
BY FromHeld, StutterBooks, QuietSpares, QuietOwners DEF Kept, brokerVars

LEMMA StopHeld ==
  ASSUME HeldInv, NEW w \in Workers, Stop(w) \/ Start(w) \/ ProducerExit(w)
  PROVE  Kept'
<1>1. UNCHANGED <<brokerVars, channel, slotVars>>
  BY DEF Stop, Start, ProducerExit
<1>2. \A v \in Workers : mode'[v] = "down" => mode[v] = "down"
  BY FromHeld DEF Stop, Start, ProducerExit, WorkerTypeOK
<1> QED
  BY <1>1, <1>2, LifeHeld

-----------------------------------------------------------------------------
(* Callers, and time.                                                      *)

LEMMA EnqueueHeld ==
  ASSUME HeldInv, NEW now \in SUBSET (Lanes \X Tasks), NEW later \in SUBSET (Lanes \X Tasks),
         Enqueue(now, later)
  PROVE  Kept'
<1>1. /\ PublishTasks(now, later) /\ now \cap later = {} /\ UNCHANGED <<mode, channel, slotVars>>
      /\ \A p, q \in now \cup later : p[2] = q[2] => p = q
  BY DEF Enqueue, workerVars, slotVars
<1>2. Books' /\ Spares({})
  BY <1>1, FromHeld, PublishTasksBooks, PublishTasksSpares
<1> QED
  BY <1>1, <1>2, QuietOwners DEF Kept

LEMMA AbortHeld ==
  ASSUME HeldInv, NEW t \in Tasks, Abort(t)
  PROVE  Kept'
<1>1. AbortTask(t) /\ UNCHANGED <<mode, channel, slotVars>>
  BY DEF Abort
<1>2. Books' /\ Spares({})
  BY <1>1, FromHeld, AbortTaskBooks, AbortTaskSpares
<1> QED
  BY <1>1, <1>2, QuietOwners DEF Kept

LEMMA LoseAbortHeld ==
  ASSUME HeldInv, NEW w \in Workers, NEW t \in Tasks, LoseAbort(w, t)
  PROVE  Kept'
BY LifeHeld DEF LoseAbort

LEMMA DeadLetterHeld ==
  ASSUME HeldInv, NEW t \in Tasks, DeadLetter(t)
  PROVE  Kept'
<1>1. UNCHANGED <<mode, channel, slotVars>>
  BY DEF DeadLetter, workerVars, slotVars
<1>2. Books' /\ Spares({})
  <2>1. ASSUME NEW l \in Lanes, ReplayDead(t, l) PROVE Books' /\ Spares({})
    BY <2>1, FromHeld, ReplayDeadBooks, ReplayDeadSpares
  <2>2. CASE DeadDelete(t)
    BY <2>2, FromHeld, DeadDeleteBooks, QuietSpares DEF DeadDelete, queues
  <2> QED
    BY <2>1, <2>2 DEF DeadLetter
<1> QED
  BY <1>1, <1>2, QuietOwners DEF Kept

LEMMA PurgeHeld ==
  ASSUME HeldInv, NEW l \in Lanes, Purge(l)
  PROVE  Kept'
<1>1. UNCHANGED <<mode, channel, slotVars>> /\ "purge" \in FaultKinds
  BY DEF Purge, workerVars, slotVars, Fault
<1>2. PICK scheduled \in SUBSET delayed, waiting \in SUBSET Waiting :
        PurgeLane(l, scheduled, waiting)
  BY DEF Purge
<1>3. Books' /\ Spares({})
  BY <1>1, <1>2, FromHeld, PurgeLaneBooks, PurgeLaneResidue, PurgeLaneSpares DEF Books
<1> QED
  BY <1>1, <1>3, QuietOwners DEF Kept

LEMMA ExpireHeld ==
  ASSUME HeldInv, Timely, NEW t \in Tasks, Expire(t)
  PROVE  Kept'
<1>1. /\ UNCHANGED <<mode, channel, slotVars>>
      /\ ExpireResult(t) \/ (ExpireMarker(t) /\ "expire_marker" \in FaultKinds)
  BY DEF Expire, workerVars, slotVars, Fault, Timely
<1>2. Books' /\ Spares({})
  BY <1>1, FromHeld, ExpireResultBooks, ExpireMarkerBooks, QuietSpares
     DEF ExpireResult, ExpireMarker, queues
<1> QED
  BY <1>1, <1>2, QuietOwners DEF Kept

-----------------------------------------------------------------------------
(* The theorems.                                                           *)

\* The initial state: nothing accepted, nothing owned.
LEMMA InitHeld == Init => HeldInv
<1> SUFFICES ASSUME Init PROVE HeldInv
  OBVIOUS
<1>1. IInv
  BY InitIInv
<1>2. OneCopy
  <2>1. stream = {} /\ delayed = {}
    BY DEF Init, BrokerInit
  <2> QED
    BY <2>1 DEF OneCopy, EntriesOf, IsDelayed
<1>3. OneOwner
  BY DEF Init, OneOwner, InChannel, Distinct
<1>4. LoadIsStored
  BY DEF Init, LoadIsStored
<1>5. Ledger
  BY BrokerAssumption DEF Init, BrokerInit, Ledger
<1>6. ResultIsLatest /\ NoResidue /\ AbortsKept
  BY DEF Init, BrokerInit, ResultIsLatest, NoResidue, AbortsKept, AbortRemembered
<1> QED
  BY <1>1, <1>2, <1>3, <1>4, <1>5, <1>6 DEF HeldInv

\* Every step keeps it, as long as leases are held and payloads do not expire.
LEMMA NextHeld ==
  ASSUME Timely
  PROVE  HeldInv /\ [Next]_vars => HeldInv'
<1> SUFFICES ASSUME HeldInv, [Next]_vars PROVE HeldInv'
  OBVIOUS
<1>1. ASSUME UNCHANGED vars PROVE Kept'
  BY <1>1, LifeHeld DEF vars, workerVars, slotVars
<1>2. ASSUME NEW w \in Workers, ProducerStep(w) PROVE Kept'
  BY <1>2, ReadHeld, ClaimHeld, OverreadHeld, PromoteHeld DEF ProducerStep
<1>3. ASSUME NEW w \in Workers, WorkerFault(w) PROVE Kept'
  BY <1>3, ProducerErrorHeld, CrashHeld, StopHeld DEF WorkerFault
<1>4. ASSUME NEW w \in Workers, Leave(w) \/ Start(w) \/ ProducerExit(w) PROVE Kept'
  BY <1>4, LeaveHeld, StopHeld
<1>5. ASSUME NEW w \in Workers, NEW t \in Tasks, Watch(w, t) PROVE Kept'
  BY <1>5, WatchHeld
<1>6. ASSUME NEW c \in Consumers, ConsumerStep(c) PROVE Kept'
  <2>1. ~DropExpired(c)
    BY FromHeld DEF DropExpired, LoadIsStored
  <2> QED
    BY <1>6, <2>1, TakeHeld, MarkHeld, FetchHeld, BeginHeld, EndHeld, FinishHeld
       DEF ConsumerStep
<1>7. ASSUME NEW c \in Consumers, ConsumerFault(c) PROVE Kept'
  BY <1>7, TakeErrorHeld, AbandonHeld DEF ConsumerFault
<1>8. ASSUME CallerStep PROVE Kept'
  BY <1>8, EnqueueHeld, AbortHeld, DeadLetterHeld, ExpireHeld, LoseAbortHeld, PurgeHeld
     DEF CallerStep
<1>9. Kept'
  BY <1>1, <1>2, <1>3, <1>4, <1>5, <1>6, <1>7, <1>8 DEF Next
<1>10. IInv'
  BY FromHeld, NextIInv
<1> QED
  BY <1>9, <1>10 DEF HeldInv, Kept, Books

\* HeldInv holds of every state, for any workers, slots, ids, lanes and faults
\* but an expiring payload, as long as the heartbeat keeps what workers hold.
THEOREM HeldInductive ==
  ASSUME Timely PROVE Spec => []HeldInv
<1>1. Init => HeldInv
  BY InitHeld
<1>2. HeldInv /\ [Next]_vars => HeldInv'
  BY NextHeld
<1> QED
  BY <1>1, <1>2, PTL DEF Spec

\* An id is never two pieces of work: retries, promotions, hand-backs and replays
\* move its entry, and a staging is turned away while one is there.
THEOREM NeverTwoCopies ==
  ASSUME Timely PROVE Spec => []OneCopy
<1>1. Spec => []HeldInv
  BY HeldInductive
<1>2. HeldInv => OneCopy
  BY DEF HeldInv
<1> QED
  BY <1>1, <1>2, PTL

\* No task runs twice at a time, on two workers or on two consumers of one.
THEOREM OneRunAtATime ==
  ASSUME Timely PROVE Spec => []NoConcurrentRuns
<1>1. Spec => []HeldInv
  BY HeldInductive
<1>2. HeldInv => NoConcurrentRuns
  <2> SUFFICES ASSUME HeldInv, NEW c \in Consumers, NEW d \in Consumers, c # d,
                      pc[c] # "idle", pc[d] # "idle", msg[c].task = msg[d].task
               PROVE  FALSE
    BY DEF NoConcurrentRuns
  <2>1. msg[c] \in stream /\ msg[d] \in stream
    BY HoldsStored
  <2>2. msg[c] = msg[d]
    BY <2>1, FromHeld DEF Copies
  <2> QED
    BY <2>2, FromHeld DEF OneOwner
<1> QED
  BY <1>1, <1>2, PTL

\* No accepted task is dropped in silence, through crashes, stops, lost commands
\* and purges: what was accepted is still stored, or it settled.
THEOREM NothingDropped ==
  ASSUME Timely PROVE Spec => []NoSilentDrop
<1>1. Spec => []HeldInv
  BY HeldInductive
<1>2. HeldInv => NoSilentDrop
  <2>1. ASSUME HeldInv, NEW t \in Tasks, NEW i, i \in 1..staged[t]
        PROVE  data[t] = i \/ <<t, i>> \in settled
    <3>1. Ledger /\ staged[t] \in Nat /\ data[t] \in Nat
      BY <2>1, FromHeld DEF Books, BrokerTypeOK
    <3>2. staged[t] <= MaxStaged /\ i \in 1..MaxStaged /\ i <= staged[t]
      BY <2>1, <3>1, BrokerAssumption DEF Ledger
    <3> QED
      BY <3>1, <3>2 DEF Ledger
  <2> QED
    BY <2>1, Zenon DEF NoSilentDrop
<1> QED
  BY <1>1, <1>2, PTL

\* result() never serves the outcome of an earlier incarnation of an id.
THEOREM LatestResult ==
  ASSUME Timely PROVE Spec => []ResultIsLatest
<1>1. Spec => []HeldInv
  BY HeldInductive
<1>2. HeldInv => ResultIsLatest
  BY DEF HeldInv
<1> QED
  BY <1>1, <1>2, PTL

\* An id without a payload keeps no retry count and no abort marker: the next
\* incarnation starts with its full retry budget and is not aborted at birth.
THEOREM CleanSlate ==
  ASSUME Timely PROVE Spec => []NoResidue
<1>1. Spec => []HeldInv
  BY HeldInductive
<1>2. HeldInv => NoResidue
  BY DEF HeldInv
<1> QED
  BY <1>1, <1>2, PTL

\* Unless its marker's TTL runs out first, an abort that returned True is there
\* for every pickup until the task ends: no retry, promotion or hand-back and no
\* lost publish loses it.
THEOREM AbortsAreKept ==
  ASSUME Timely, "expire_marker" \notin FaultKinds PROVE Spec => []AbortRemembered
<1>1. Spec => []HeldInv
  BY HeldInductive
<1>2. HeldInv => AbortRemembered
  BY DEF HeldInv, AbortsKept
<1> QED
  BY <1>1, <1>2, PTL
=============================================================================

--------------------------- MODULE CallersProofs ---------------------------
(***************************************************************************)
(* What the calls of Callers.tla answer, for any ids, lanes, workers and   *)
(* other callers.                                                          *)
(***************************************************************************)
EXTENDS Callers, HeldProofs, FiniteSetTheorems

\* The smallest upper bound of a bounded set of numbers is in it.
LEMMA BoundedHasMax ==
  ASSUME NEW S \in SUBSET Nat, S # {}, NEW n \in Nat, \A s \in S : s <= n
  PROVE  \E x \in S : \A y \in S : x >= y
<1> DEFINE U == {m \in Nat : \A y \in S : m >= y}
           T == {0..m : m \in U}
<1>1. IsWellFoundedOn(StrictSubsetOrdering(Nat), FiniteSubsetsOf(Nat))
  BY FS_StrictSubsetOrderingWellFounded
<1>2. T \subseteq FiniteSubsetsOf(Nat)
  <2>1. \A m \in U : 0..m \in SUBSET Nat /\ IsFiniteSet(0..m)
    BY FS_Interval
  <2> QED
    BY <2>1 DEF FiniteSubsetsOf
<1>3. T # {}
  <2>1. n \in U
    OBVIOUS
  <2> QED
    BY <2>1
<1>4. PICK x \in T : \A y \in T : <<y, x>> \notin StrictSubsetOrdering(Nat)
  BY <1>1, <1>2, <1>3, WFMin
<1>5. PICK m \in U : x = 0..m
  BY <1>4
<1>6. ASSUME NEW k \in U, k < m PROVE FALSE
  <2>0. k \in Nat /\ m \in Nat
    BY <1>5
  <2>1. 0..k \subseteq 0..m /\ m \in 0..m /\ m \notin 0..k
    BY <2>0, <1>6
  <2>2. 0..k \in SUBSET Nat /\ x \in SUBSET Nat
    BY <1>5
  <2>3. <<0..k, x>> \in StrictSubsetOrdering(Nat)
    BY <1>5, <2>1, <2>2 DEF StrictSubsetOrdering
  <2>4. 0..k \in T
    OBVIOUS
  <2> QED
    BY <1>4, <2>3, <2>4
<1>7. m \in S
  <2> SUFFICES ASSUME m \notin S PROVE FALSE
    OBVIOUS
  <2>1. PICK y \in S : TRUE
    OBVIOUS
  <2>2. m > y
    BY <1>5, <2>1
  <2>3. m - 1 \in U
    BY <1>5, <2>1, <2>2
  <2> QED
    BY <1>6, <2>3
<1> QED
  BY <1>5, <1>7
LEMMA MaxIs ==
  ASSUME NEW S \in SUBSET Nat, S # {}, NEW n \in Nat, \A s \in S : s <= n
  PROVE  Max(S) \in S /\ \A y \in S : Max(S) >= y
BY BoundedHasMax DEF Max

-----------------------------------------------------------------------------
(* Finite sets: what the calls count.                                      *)

\* Entries are told apart by number, task and lane, and the numbers are bounded.
LEMMA StreamFinite ==
  ASSUME BrokerTypeOK, StreamFresh
  PROVE  IsFiniteSet(stream)
<1> DEFINE Box == (0..nextId) \X (Tasks \X Lanes)
           f == [e \in stream |-> <<e.id, <<e.task, e.lane>>>>]
<1>1. IsFiniteSet(Box)
  <2>1. IsFiniteSet(0..nextId)
    BY FS_Interval DEF BrokerTypeOK
  <2> QED
    BY <2>1, CallersAssumption, FS_Product
<1>2. \A e \in stream : <<e.id, <<e.task, e.lane>>>> \in Box
  BY DEF BrokerTypeOK, StreamFresh, Entry
<1>3. f \in [stream -> Box]
  BY <1>2
<1>4. \A d, e \in stream : f[d] = f[e] => d = e
  BY DEF BrokerTypeOK, Entry
<1>5. f \in Injection(stream, Box)
  BY <1>3, <1>4 DEF Injection, IsInjective
<1> QED
  BY <1>1, <1>5, FS_Injection

LEMMA Finite ==
  ASSUME BrokerTypeOK, StreamFresh
  PROVE  /\ IsFiniteSet(stream) /\ IsFiniteSet(pending) /\ IsFiniteSet(delayed)
         /\ \A S \in SUBSET stream : IsFiniteSet(S) /\ Cardinality(S) \in Nat
         /\ \A S \in SUBSET pending : IsFiniteSet(S) /\ Cardinality(S) \in Nat
         /\ \A S \in SUBSET delayed : IsFiniteSet(S) /\ Cardinality(S) \in Nat
         /\ \A S \in SUBSET Tasks : IsFiniteSet(S) /\ Cardinality(S) \in Nat
<1>1. IsFiniteSet(stream) /\ IsFiniteSet(pending) /\ IsFiniteSet(delayed)
  BY StreamFinite, CallersAssumption, FS_Product, FS_Subset DEF BrokerTypeOK
<1> QED
  BY <1>1, CallersAssumption, FS_Subset, FS_CardinalityType

\* XREVRANGE: no entry of the lane is newer than the newest, and no later one is
\* as new.
LEMMA NewestIsLast ==
  ASSUME BrokerTypeOK, StreamFresh, NEW l
  PROVE  /\ Newest(l) \in Nat /\ Newest(l) <= nextId
         /\ \A e \in stream : e.lane = l => e.id <= Newest(l)
<1> DEFINE S == {e.id : e \in {f \in stream : f.lane = l}} \cup {0}
<1>1. S \in SUBSET Nat /\ S # {} /\ \A n \in S : n <= nextId
  BY DEF BrokerTypeOK, StreamFresh, Entry
<1>2. Max(S) \in S /\ \A n \in S : Max(S) >= n
  BY <1>1, MaxIs DEF BrokerTypeOK
<1>3. \A e \in stream : e.lane = l => e.id \in S
  OBVIOUS
<1> QED
  BY <1>1, <1>2, <1>3 DEF Newest

\* A chunk drops no more than was counted.
LEMMA ChunkSizes ==
  ASSUME BrokerTypeOK, StreamFresh, call \in Call
  PROVE  ScheduledSize \in Nat /\ call.number - ScheduledSize \in Nat
<1> DEFINE S == {call.number, PurgeChunk, LaneDelayed(call.lane)}
<1>1. S \in SUBSET Nat
  BY Finite, CallersAssumption DEF LaneDelayed, Call
<1>2. \E n \in S : \A m \in S : n <= m
  BY <1>1
<1>3. Min(S) \in S /\ \A m \in S : Min(S) <= m
  BY <1>2 DEF Min
<1> QED
  BY <1>1, <1>3 DEF ScheduledSize, Call

-----------------------------------------------------------------------------
(* Where a call is, and what it has in hand there.                         *)

Phase ==
  \/ call.op = "none" /\ call.at = "start"
  \/ call.op = "result" /\ call.at \in {"subscribed", "waiting", "woken", "done"}
  \/ call.op = "status" /\ call.at \in {"facts", "looking", "done"}
  \/ call.op = "replay" /\ call.at \in {"count", "list", "each", "got", "done"}
  \/ call.op = "delete" /\ call.at \in {"count", "list", "each", "done"}
  \/ call.op = "purge" /\ call.at \in {"first", "second", "bound", "left", "chunks", "done"}

InHand ==
  /\ call \in Call /\ Phase
  /\ call.op \in {"result", "status"} \/ call.at = "got" => call.ids # <<>>
  /\ call.at \in {"got", "second", "left", "chunks"} => call.lane \in Lanes

\* A sequence of some ids in any order is one of ids.
LEMMA SeqsOfTasks ==
  ASSUME NEW ts \in SUBSET Tasks, NEW s \in SetToSeqs(ts)
  PROVE  s \in Seq(Tasks)
<1>1. Cardinality(ts) \in Nat
  BY CallersAssumption, FS_Subset, FS_CardinalityType
<1>2. s \in [1..Cardinality(ts) -> Tasks]
  BY DEF SetToSeqs
<1> QED
  BY <1>1, <1>2

LEMMA TailOfTasks ==
  ASSUME call \in Call, call.ids # <<>>
  PROVE  Head(call.ids) \in Tasks /\ Tail(call.ids) \in Seq(Tasks)
<1>1. call.ids \in Seq(Tasks)
  BY DEF Call
<1> QED
  BY <1>1, HeadAndTail

LEMMA OneTask == ASSUME NEW t \in Tasks PROVE <<t>> \in Seq(Tasks) /\ <<t>> # <<>>
OBVIOUS

LEMMA ResultInHand ==
  ASSUME InHand, ResultStep
  PROVE  InHand'
<1> USE DEF InHand, Call, Phase, Statuses
<1>1. ASSUME NEW t \in Tasks, Subscribe(t) PROVE InHand'
  BY <1>1, OneTask DEF Subscribe
<1>2. CASE FirstRead
  BY <1>2 DEF FirstRead
<1>3. CASE WaitEnds
  BY <1>3 DEF WaitEnds
<1>4. CASE SecondRead
  BY <1>4 DEF SecondRead
<1> QED
  BY <1>1, <1>2, <1>3, <1>4 DEF ResultStep

LEMMA StatusInHand ==
  ASSUME InHand, StatusStep
  PROVE  InHand'
<1> USE DEF InHand, Call, Phase, Statuses
<1>1. ASSUME NEW t \in Tasks, AskStatus(t) PROVE InHand'
  BY <1>1, OneTask DEF AskStatus
<1>2. CASE Facts
  <2>1. TrueStatus(Head(call.ids)) \in Statuses
    BY DEF TrueStatus
  <2> HIDE DEF TrueStatus
  <2> QED
    BY <1>2, <2>1 DEF Facts
<1>3. ASSUME NEW l \in Lanes, LookInLane(l) PROVE InHand'
  BY <1>3 DEF LookInLane
<1> QED
  BY <1>1, <1>2, <1>3 DEF StatusStep

LEMMA DlqInHand ==
  ASSUME InHand, BrokerTypeOK, StreamFresh, DlqStep
  PROVE  InHand'
<1> USE DEF InHand, Call, Phase, Statuses
<1>1. ASSUME NEW action \in {"replay", "delete"}, AskDlq(action) PROVE InHand'
  <2>1. CASE call' = [call EXCEPT !.op = action, !.at = "count"]
    BY <1>1, <2>1 DEF AskDlq
  <2>2. ASSUME NEW ts \in SUBSET Tasks, NEW s \in SetToSeqs(ts),
               call' = [call EXCEPT !.op = action, !.at = "each", !.ids = s]
        PROVE  InHand'
    <3>1. s \in Seq(Tasks)
      BY <2>2, SeqsOfTasks
    <3> QED
      BY <1>1, <2>2, <3>1 DEF AskDlq
  <2>3. \/ call' = [call EXCEPT !.op = action, !.at = "count"]
        \/ \E ts \in SUBSET Tasks : \E s \in SetToSeqs(ts) :
             call' = [call EXCEPT !.op = action, !.at = "each", !.ids = s]
    <3>1. \/ call' = [call EXCEPT !.op = action, !.at = "count"]
          \/ \E s \in UNION {SetToSeqs(ts) : ts \in SUBSET Tasks \ {{}}} :
               call' = [call EXCEPT !.op = action, !.at = "each", !.ids = s]
      <4> HIDE DEF InHand, Call, Phase, Statuses
      <4> QED
        BY <1>1, Zenon DEF AskDlq
    <3>2. \A s \in UNION {SetToSeqs(ts) : ts \in SUBSET Tasks \ {{}}} :
            \E ts \in SUBSET Tasks : s \in SetToSeqs(ts)
      OBVIOUS
    <3> QED
      BY <3>1, <3>2
  <2> QED
    BY <2>1, <2>2, <2>3
<1>2. CASE CountDead
  <2>1. Cardinality(DeadIds) \in Nat
    BY Finite DEF DeadIds
  <2> QED
    BY <1>2, <2>1 DEF CountDead
<1>3. CASE ListDead
  <2>1. PICK ts \in SUBSET DeadIds :
          \E s \in SetToSeqs(ts) : call' = [call EXCEPT !.at = "each", !.ids = s]
    BY <1>3 DEF ListDead
  <2>2. PICK s \in SetToSeqs(ts) : call' = [call EXCEPT !.at = "each", !.ids = s]
    BY <2>1
  <2>3. s \in Seq(Tasks)
    BY <2>2, SeqsOfTasks DEF DeadIds
  <2> QED
    BY <1>3, <2>2, <2>3 DEF ListDead
<1>4. CASE DlqEnds
  BY <1>4 DEF DlqEnds
<1>5. CASE GetDead
  <2>1. /\ Head(call.ids) \in Tasks /\ Tail(call.ids) \in Seq(Tasks)
        /\ dead[Head(call.ids)] \in Lanes \cup {NoLane}
    BY <1>5, TailOfTasks DEF GetDead, BrokerTypeOK
  <2> QED
    BY <1>5, <2>1 DEF GetDead
<1>6. CASE Replay \/ Delete
  <2>1. Tail(call.ids) \in Seq(Tasks)
    BY <1>6, TailOfTasks DEF Replay, Delete
  <2> QED
    BY <1>6, <2>1 DEF Replay, Delete
<1> QED
  BY <1>1, <1>2, <1>3, <1>4, <1>5, <1>6 DEF DlqStep

\* The last run of the purge script, which drops nothing: the call is done with the lane.
ChunkEnds(at) ==
  [call EXCEPT !.at = at, !.lanes = @ \ {call.lane},
               !.lane = NoLane, !.number = 0, !.last = 0]

LEMMA PurgeInHand ==
  ASSUME InHand, BrokerTypeOK, StreamFresh, PurgeStep
  PROVE  InHand'
<1> USE DEF InHand, Call, Phase, Statuses
<1>1. ASSUME NEW ls \in SUBSET Lanes, NEW yes \in BOOLEAN, AskPurge(ls, yes) PROVE InHand'
  BY <1>1 DEF AskPurge
<1>2. ASSUME NEW l \in Lanes, CountFirst(l) PROVE InHand'
  <2>1. Count(CountOrder[1], l) \in Nat
    BY Finite DEF Count, LaneLength, LanePending
  <2> QED
    BY <1>2, <2>1 DEF CountFirst
<1>3. CASE CountSecond
  BY <1>3 DEF CountSecond
<1>4. CASE Confirm
  <2>1. \/ call' = [call EXCEPT !.at = "done", !.answer = "nothing"]
        \/ call' = [call EXCEPT !.at = "done"]
        \/ call' = [call EXCEPT !.at = "bound", !.lanes = call.chosen, !.chosen = {},
                                !.answer = "none"]
    BY <1>4 DEF Confirm
  <2> QED
    BY <1>4, <2>1 DEF Confirm
<1>5. ASSUME NEW l \in Lanes, NewestEntry(l) PROVE InHand'
  <2>1. Newest(l) \in Nat
    BY NewestIsLast
  <2> QED
    BY <1>5, <2>1 DEF NewestEntry
<1>6. CASE CountDelayed
  <2>1. LaneDelayed(call.lane) \in Nat
    BY Finite DEF LaneDelayed
  <2> QED
    BY <1>6, <2>1 DEF CountDelayed
<1>7. CASE Chunk
  <2>1. call.number - ScheduledSize \in Nat
    BY <1>7, ChunkSizes
  <2> HIDE DEF ScheduledSize
  <2>2. \/ call' = [call EXCEPT !.number = @ - ScheduledSize]
        \/ \E at \in {"done", "bound"} : call' = ChunkEnds(at)
    BY <1>7 DEF Chunk, ChunkEnds
  <2>3. call.op = "purge" /\ call.at = "chunks"
    BY <1>7 DEF Chunk
  <2>4. ASSUME NEW at \in {"done", "bound"}, call' = ChunkEnds(at) PROVE InHand'
    BY <2>3, <2>4 DEF ChunkEnds
  <2>5. CASE call' = [call EXCEPT !.number = @ - ScheduledSize]
    BY <2>1, <2>3, <2>5
  <2> QED
    BY <2>2, <2>4, <2>5
<1> QED
  BY <1>1, <1>2, <1>3, <1>4, <1>5, <1>6, <1>7 DEF PurgeStep

\* A step of one call does not turn it into another.
LEMMA OwnPhases ==
  ASSUME InHand
  PROVE  /\ StatusStep => call'.op = "status"
         /\ DlqStep => call'.op \in {"replay", "delete"}
         /\ PurgeStep => call'.op = "purge"
<1> USE DEF InHand, Call, Phase
<1>1. ASSUME StatusStep PROVE call'.op = "status"
  BY <1>1 DEF StatusStep, AskStatus, Facts, LookInLane
<1>2. ASSUME DlqStep PROVE call'.op \in {"replay", "delete"}
  <2>1. ASSUME NEW action \in {"replay", "delete"}, AskDlq(action) PROVE call'.op = action
    BY <2>1 DEF AskDlq
  <2>2. CASE CountDead \/ ListDead \/ GetDead \/ Replay \/ Delete \/ DlqEnds
    BY <2>2 DEF CountDead, ListDead, GetDead, Replay, Delete, DlqEnds
  <2> QED
    BY <1>2, <2>1, <2>2 DEF DlqStep
<1>3. ASSUME PurgeStep PROVE call'.op = "purge"
  <2>1. CASE Chunk
    BY <2>1 DEF Chunk
  <2>2. CASE Confirm
    BY <2>2 DEF Confirm
  <2> QED
    BY <1>3, <2>1, <2>2 DEF PurgeStep, AskPurge, CountFirst, CountSecond, NewestEntry, CountDelayed
<1> QED
  BY <1>1, <1>2, <1>3

-----------------------------------------------------------------------------
(* What the steps do to the queue.                                         *)

\* One run of the purge script that drops something.
ChunkDrops ==
  /\ call.op = "purge" /\ call.at = "chunks" /\ call.lane \in Lanes
  /\ \E scheduled \in SUBSET delayed, waiting \in SUBSET Purgeable :
       PurgeLane(call.lane, scheduled, waiting)
  /\ UNCHANGED <<workerVars, faults, books>>

LEMMA UnknownTasks == SUBSET (Lanes \X Unknown) \subseteq SUBSET (Lanes \X Tasks)
BY DEF Unknown

\* Everybody else takes steps of Delivery.
LEMMA OthersDeliver ==
  ASSUME QueueStep
  PROVE  Next /\ UNCHANGED call
<1>1. CASE QuietStep
  BY <1>1, UnknownTasks DEF QueueStep, QuietStep, Next, ConsumerStep, CallerStep
<1>2. ASSUME NEW c \in Consumers, FinishStep(c) PROVE Next
  BY <1>2 DEF FinishStep, Next, ConsumerStep
<1>3. ASSUME NEW t \in Tasks, AbortStep(t) \/ DeadLetterStep(t) PROVE Next
  BY <1>3 DEF AbortStep, DeadLetterStep, Next, CallerStep
<1> QED
  BY <1>1, <1>2, <1>3 DEF QueueStep

\* A dead letter is replayed or deleted by the call, or it was gone.
DeadLetterOf(t) ==
  /\ call.op \in {"replay", "delete"} /\ call.at \in {"each", "got"}
  /\ DeadLetter(t) /\ Counted(t, -1)

LEMMA CallSteps ==
  ASSUME InHand, ResultStep \/ StatusStep \/ DlqStep \/ PurgeStep
  PROVE  \/ UNCHANGED <<vars, books>>
         \/ \E t \in Tasks : DeadLetterOf(t)
         \/ ChunkDrops
<1>1. CASE ResultStep \/ StatusStep
  BY <1>1 DEF ResultStep, StatusStep, Subscribe, FirstRead, WaitEnds, SecondRead,
              AskStatus, Facts, LookInLane, Reads
<1>2. CASE Replay
  <2>1. Head(call.ids) \in Tasks /\ call.lane \in Lanes /\ call.op = "replay"
    BY <1>2, TailOfTasks DEF InHand, Replay, Phase
  <2>2. \/ UNCHANGED <<brokerVars, books>>
        \/ ReplayDead(Head(call.ids), call.lane) /\ Counted(Head(call.ids), -1)
    BY <1>2 DEF Replay
  <2>3. UNCHANGED <<workerVars, faults>> /\ call.at = "got"
    BY <1>2 DEF Replay, Writes
  <2> QED
    BY <2>1, <2>2, <2>3 DEF DeadLetterOf, DeadLetter, vars
<1>3. CASE Delete
  <2>1. Head(call.ids) \in Tasks /\ call.op = "delete"
    BY <1>3, TailOfTasks DEF InHand, Delete
  <2>2. \/ UNCHANGED <<brokerVars, books>>
        \/ DeadDelete(Head(call.ids)) /\ Counted(Head(call.ids), -1)
    BY <1>3 DEF Delete
  <2>3. UNCHANGED <<workerVars, faults>> /\ call.at = "each"
    BY <1>3 DEF Delete, Writes
  <2> QED
    BY <2>1, <2>2, <2>3 DEF DeadLetterOf, DeadLetter, vars
<1>4. CASE Chunk
  <2>1. call.at = "chunks" /\ call.op = "purge" /\ call.lane \in Lanes
    BY <1>4 DEF Chunk, InHand, Phase
  <2>2. UNCHANGED <<workerVars, faults, books>>
    BY <1>4 DEF Chunk, Writes
  <2>3. \/ UNCHANGED brokerVars
        \/ \E scheduled \in SUBSET delayed, waiting \in SUBSET Purgeable :
             PurgeLane(call.lane, scheduled, waiting)
    BY <1>4 DEF Chunk
  <2> QED
    BY <2>1, <2>2, <2>3 DEF ChunkDrops, vars
<1>5. CASE DlqStep
  BY <1>2, <1>3, <1>5 DEF DlqStep, AskDlq, CountDead, ListDead, GetDead, DlqEnds, Reads
<1>6. CASE PurgeStep
  BY <1>4, <1>6 DEF PurgeStep, AskPurge, CountFirst, CountSecond, Confirm, NewestEntry,
                    CountDelayed, Reads
<1> QED
  BY <1>1, <1>5, <1>6

\* The steps of a call, too, are those of some caller of Delivery, but for the
\* chunks of a purge, which are not counted as faults.
LEMMA EachStep ==
  ASSUME InHand, CallNext
  PROVE  [Next]_vars \/ ChunkDrops
<1>1. ASSUME NEW t \in Tasks, DeadLetterOf(t) PROVE Next
  BY <1>1 DEF DeadLetterOf, Next, CallerStep
<1> QED
  BY <1>1, OthersDeliver, CallSteps DEF CallNext

\* The queue's own invariant does not depend on who purges.
LEMMA QueueInv ==
  ASSUME IInv, InHand, [CallNext]_callVars
  PROVE  IInv'
<1>1. CASE [Next]_vars
  BY <1>1, NextIInv
<1>2. CASE ChunkDrops
  <2>1. PICK scheduled \in SUBSET delayed, waiting \in SUBSET Purgeable :
          PurgeLane(call.lane, scheduled, waiting)
    BY <1>2 DEF ChunkDrops
  <2>2. waiting \in SUBSET Waiting
    BY <2>1 DEF Purgeable
  <2>3. UNCHANGED workerVars /\ faults' \in Nat /\ call.lane \in Lanes
    BY <1>2 DEF ChunkDrops, IInv, TypeOK, WorkerTypeOK
  <2> QED
    BY <2>1, <2>2, <2>3, PurgeLaneStep
<1>3. CASE UNCHANGED callVars
  BY <1>3, NextIInv DEF callVars
<1> QED
  BY <1>1, <1>2, <1>3, EachStep

LEMMA StepInHand ==
  ASSUME IInv, InHand, [CallNext]_callVars
  PROVE  InHand'
<1>1. CASE QueueStep \/ UNCHANGED callVars
  <2>1. UNCHANGED call
    BY <1>1, OthersDeliver DEF callVars
  <2> QED
    BY <2>1 DEF InHand, Phase
<1> QED
  BY <1>1, ResultInHand, StatusInHand, DlqInHand, PurgeInHand DEF CallNext, IInv, TypeOK

-----------------------------------------------------------------------------
(* What is remembered.                                                     *)

\* How the books and the subscription follow a step of others.
LEMMA OthersTold ==
  ASSUME QueueStep
  PROVE  /\ \/ UNCHANGED books
            \/ \E t \in Tasks : DeadLetter(t) /\ Counted(t, -1)
            \/ \E c \in Consumers : /\ Finish(c) /\ outcome[c] = "dead"
                                    /\ dead[msg[c].task] = NoLane
                                    /\ Counted(msg[c].task, 1)
         /\ \E ts : Publishes(ts)
<1>1. CASE QuietStep
  BY <1>1 DEF QuietStep
<1>2. ASSUME NEW c \in Consumers, FinishStep(c)
      PROVE  /\ \/ UNCHANGED books
                \/ /\ Finish(c) /\ outcome[c] = "dead"
                   /\ dead[msg[c].task] = NoLane /\ Counted(msg[c].task, 1)
             /\ \E ts : Publishes(ts)
  BY <1>2 DEF FinishStep
<1>3. ASSUME NEW t \in Tasks, AbortStep(t) \/ DeadLetterStep(t)
      PROVE  /\ UNCHANGED books \/ (DeadLetter(t) /\ Counted(t, -1))
             /\ \E ts : Publishes(ts)
  BY <1>3 DEF AbortStep, DeadLetterStep
<1> QED
  BY <1>1, <1>2, <1>3 DEF QueueStep

LEMMA CountedType ==
  ASSUME books \in [Tasks -> Int], NEW t, NEW n \in Int, Counted(t, n)
  PROVE  books' \in [Tasks -> Int]
<1>1. books' = [books EXCEPT ![t] = @ + n]
  BY DEF Counted
<1>2. t \in Tasks => books[t] + n \in Int
  OBVIOUS
<1> QED
  BY <1>1, <1>2

\* Their types.
LEMMA TypesKept ==
  ASSUME IInv, IInv', InHand, InHand', CallTypeOK, [CallNext]_callVars
  PROVE  CallTypeOK'
<1>1. CASE CallNext
  <2>1. call' \in Call
    BY DEF InHand
  <2>2. heard' \in BOOLEAN
    <3>1. CASE QueueStep
      BY <3>1, OthersTold DEF Publishes, CallTypeOK
    <3>2. CASE ResultStep \/ StatusStep \/ DlqStep \/ PurgeStep
      <4>1. UNCHANGED heard
        BY <3>2 DEF ResultStep, StatusStep, Subscribe, FirstRead, WaitEnds, SecondRead,
              AskStatus, Facts, LookInLane, Reads, Writes, DlqStep, AskDlq, CountDead,
              ListDead, GetDead, DlqEnds, Replay, Delete, PurgeStep, AskPurge, CountFirst,
              CountSecond, Confirm, NewestEntry, CountDelayed, Chunk
      <4> QED
        BY <4>1 DEF CallTypeOK
    <3> QED
      BY <1>1, <3>1, <3>2 DEF CallNext
  <2>3. truths' \subseteq Statuses \cup {"dropped"}
    <3>1. Truths(Head(call.ids))' \subseteq Statuses
      BY DEF Truths, TrueStatus, Statuses
    <3>2. truths' \subseteq truths \cup Truths(Head(call.ids))' \cup {"dropped"}
      BY <1>1 DEF CallNext, Remember
    <3> QED
      BY <3>1, <3>2 DEF CallTypeOK
  <2>4. still' \subseteq Lanes \X Tasks \X Nat
    <3>1. Backlog(call.chosen)' \subseteq Lanes \X Tasks \X Nat
      BY DEF Backlog, Waiting, IInv, TypeOK, BrokerTypeOK, Entry
    <3>2. still' \subseteq still \cup Backlog(call.chosen)'
      BY <1>1 DEF CallNext, Remember
    <3> QED
      BY <3>1, <3>2 DEF CallTypeOK
  <2>5. begun' \in [Tasks -> Nat]
    BY <1>1 DEF CallNext, Remember, CallTypeOK, IInv, TypeOK, BrokerTypeOK
  <2>6. books' \in [Tasks -> Int]
    <3>1. \/ UNCHANGED books
          \/ \E t \in Tasks : Counted(t, -1)
          \/ \E t : Counted(t, 1)
      BY <1>1, OthersTold, CallSteps DEF CallNext, DeadLetterOf, ChunkDrops
    <3> QED
      BY <3>1, CountedType DEF CallTypeOK
  <2> QED
    BY <2>1, <2>2, <2>3, <2>4, <2>5, <2>6 DEF CallTypeOK
<1>2. CASE UNCHANGED callVars
  BY <1>2 DEF callVars, CallTypeOK
<1> QED
  BY <1>1, <1>2

-----------------------------------------------------------------------------
(* Dead letters and results.                                               *)

\* Steps that write no dead letter and store no result.
Settles(t) == result'[t] \notin {0, result[t]}
NothingEnds == dead' = dead /\ \A t \in Tasks : ~Settles(t)

LEMMA QuietEndsNothing ==
  ASSUME IInv, QuietStep
  PROVE  NothingEnds
<1>1. UNCHANGED <<dead, result>> => NothingEnds
  BY DEF NothingEnds, Settles
<1>2. ASSUME NEW w \in Workers, ProducerStep(w) PROVE UNCHANGED <<dead, result>>
  BY <1>2 DEF ProducerStep, Read, Claim, Overread, Promote, ReadNew, ReadAndHandBack,
              PublishDelayed, keys, brokerVars
<1>3. ASSUME NEW w \in Workers, NEW t \in Tasks, Watch(w, t) PROVE UNCHANGED <<dead, result>>
  BY <1>3 DEF Watch, brokerVars
<1>4. ASSUME NEW c \in Consumers, Take(c) \/ Mark(c) \/ Fetch(c) \/ Begin(c) \/ DropExpired(c)
      PROVE  UNCHANGED <<dead, result>>
  BY <1>4 DEF Take, Mark, Fetch, Begin, DropExpired, IncrRetry, MarkRunning, Discard, brokerVars
<1>5. ASSUME NEW c \in Consumers, NEW o \in Outcomes, End(c, o) PROVE UNCHANGED <<dead, result>>
  BY <1>5 DEF End, brokerVars
<1>6. ASSUME NEW now, NEW later, Enqueue(now, later) PROVE NothingEnds
  BY <1>6 DEF Enqueue, PublishTasks, Reset, NothingEnds, Settles
<1>7. ASSUME NEW t \in Tasks, Expire(t) PROVE NothingEnds
  BY <1>7 DEF Expire, ExpireData, ExpireResult, ExpireMarker, NothingEnds, Settles,
              IInv, TypeOK, BrokerTypeOK
<1>8. ASSUME NEW w \in Workers, WorkerFault(w) PROVE UNCHANGED <<dead, result>>
  BY <1>8 DEF WorkerFault, ProducerError, Crash, Stop, ReadNew, ReadAndHandBack, keys, brokerVars
<1>9. ASSUME NEW w \in Workers, ProducerExit(w) \/ Leave(w) \/ Start(w)
      PROVE  UNCHANGED <<dead, result>>
  BY <1>9 DEF ProducerExit, Leave, Start, Release, keys, brokerVars
<1>10. ASSUME NEW w \in Workers, NEW t \in Tasks, LoseAbort(w, t)
       PROVE  UNCHANGED <<dead, result>>
  BY <1>10 DEF LoseAbort, brokerVars
<1>11. ASSUME NEW c \in Consumers, ConsumerFault(c) PROVE UNCHANGED <<dead, result>>
  BY <1>11 DEF ConsumerFault, TakeError, Abandon, IncrRetry, brokerVars
<1>12. ASSUME NEW l \in Lanes, Purge(l) PROVE UNCHANGED <<dead, result>>
  BY <1>12 DEF Purge, PurgeLane
<1> QED
  BY <1>1, <1>2, <1>3, <1>4, <1>5, <1>6, <1>7, <1>8, <1>9, <1>10, <1>11, <1>12 DEF QuietStep

\* A replay or a deletion takes the letter, and no one else's.
LEMMA LetterTaken ==
  ASSUME IInv, NEW t \in Tasks, DeadLetter(t)
  PROVE  /\ dead[t] # NoLane /\ dead' = [dead EXCEPT ![t] = NoLane]
         /\ \A u \in Tasks : ~Settles(u)
<1>1. CASE DeadDelete(t)
  BY <1>1 DEF DeadDelete, Settles
<1>2. ASSUME NEW l \in Lanes, ReplayDead(t, l)
      PROVE  /\ dead[t] # NoLane /\ dead' = [dead EXCEPT ![t] = NoLane]
             /\ result' = result \/ result' = Reset({t})
  BY <1>2 DEF ReplayDead
<1>3. result' = result \/ result' = Reset({t}) => \A u \in Tasks : ~Settles(u)
  BY DEF Reset, Settles
<1> QED
  BY <1>1, <1>2, <1>3 DEF DeadLetter

\* The letters and the books move together.
LEMMA LettersBooked ==
  ASSUME IInv, InHand, books \in [Tasks -> Int], EachLetterOnce, [CallNext]_callVars
  PROVE  EachLetterOnce'
<1>1. ASSUME NEW t \in Tasks, DeadLetter(t), Counted(t, -1) PROVE EachLetterOnce'
  <2>1. dead[t] # NoLane /\ dead' = [dead EXCEPT ![t] = NoLane]
    BY <1>1, LetterTaken
  <2> QED
    BY <1>1, <2>1 DEF EachLetterOnce, Counted, IInv, TypeOK, BrokerTypeOK
<1>2. ASSUME dead' = dead, books' = books PROVE EachLetterOnce'
  BY <1>2 DEF EachLetterOnce
<1>3. ASSUME NEW c \in Consumers, FinishStep(c) PROVE EachLetterOnce'
  <2> DEFINE t == msg[c].task
  <2>1. t \in Tasks /\ msg[c].lane \in Lanes
    BY <1>3, Holding DEF FinishStep, Finish, Entry
  <2>2. CASE outcome[c] = "retry" \/ outcome[c] # "dead"
    <3>1. dead' = dead /\ books' = books
      BY <1>3, <2>2 DEF FinishStep, Finish, RetryLater, Complete
    <3> QED
      BY <1>2, <3>1
  <2>3. CASE outcome[c] = "dead"
    <3>1. dead' = [dead EXCEPT ![t] = msg[c].lane]
      BY <1>3, <2>3 DEF FinishStep, Finish, Complete
    <3>2. IF dead[t] = NoLane THEN books' = [books EXCEPT ![t] = @ + 1] ELSE books' = books
      BY <1>3, <2>3 DEF FinishStep, Counted
    <3> QED
      BY <2>1, <3>1, <3>2, BrokerAssumption DEF EachLetterOnce, IInv, TypeOK, BrokerTypeOK
  <2> QED
    BY <2>2, <2>3
<1>4. CASE QuietStep
  BY <1>2, <1>4, QuietEndsNothing DEF QuietStep, NothingEnds
<1>5. ASSUME NEW t \in Tasks, AbortStep(t) PROVE EachLetterOnce'
  BY <1>2, <1>5 DEF AbortStep, Abort, AbortTask
<1>6. CASE QueueStep
  BY <1>1, <1>3, <1>4, <1>5, <1>6 DEF QueueStep, DeadLetterStep
<1>7. CASE ResultStep \/ StatusStep \/ DlqStep \/ PurgeStep
  <2>1. CASE ChunkDrops
    BY <1>2, <2>1 DEF ChunkDrops, PurgeLane
  <2>2. CASE UNCHANGED <<vars, books>>
    BY <1>2, <2>2 DEF vars, brokerVars
  <2> QED
    BY <1>1, <1>7, <2>1, <2>2, CallSteps DEF DeadLetterOf
<1>8. CASE UNCHANGED callVars
  BY <1>2, <1>8 DEF callVars, vars, brokerVars
<1> QED
  BY <1>6, <1>7, <1>8, Zenon DEF CallNext

\* Whoever stores a result publishes it, and the call that waits hears it.
LEMMA HeardOfIt ==
  ASSUME IInv, InHand, InHand', NoLostWakeup, heard \in BOOLEAN, [CallNext]_callVars
  PROVE  NoLostWakeup'
<1> SUFFICES ASSUME call'.at = "waiting", result'[Head(call'.ids)] # 0 PROVE heard'
  BY DEF NoLostWakeup
<1>1. CASE QueueStep
  <2> DEFINE t == Head(call.ids)
  <2>1. call' = call
    BY <1>1, OthersDeliver
  <2>2. t \in Tasks /\ Listening
    BY <2>1, TailOfTasks DEF InHand, Phase, Listening
  <2>3. ~Settles(t) => heard
    BY <2>1 DEF NoLostWakeup, Settles
  <2>4. ASSUME NEW ts, Publishes(ts), heard \/ t \in ts PROVE heard'
    BY <2>2, <2>4 DEF Publishes
  <2>5. CASE QuietStep
    BY <2>2, <2>3, <2>4, <2>5, QuietEndsNothing DEF QuietStep, NothingEnds
  <2>6. ASSUME NEW c \in Consumers, FinishStep(c) PROVE heard'
    <3>1. CASE outcome[c] = "retry"
      <4>1. result' = result
        BY <2>6, <3>1 DEF FinishStep, Finish, RetryLater
      <4> QED
        BY <2>3, <2>4, <2>6, <4>1 DEF FinishStep, Settles
    <3>2. CASE outcome[c] # "retry"
      <4>1. msg[c].task = t \/ result'[t] = result[t]
        BY <2>2, <2>6, <3>2 DEF FinishStep, Finish, Complete, IInv, TypeOK, BrokerTypeOK
      <4>2. Publishes({msg[c].task})
        BY <2>6, <3>2 DEF FinishStep
      <4> QED
        BY <2>3, <2>4, <4>1, <4>2 DEF Settles
    <3> QED
      BY <3>1, <3>2
  <2>7. ASSUME NEW u \in Tasks, AbortStep(u) PROVE heard'
    <3>1. Settles(t) => t = u /\ KeepResults /\ u \notin running /\ IsDelayed(u)
      BY <2>2, <2>7 DEF AbortStep, Abort, AbortTask, Settles, IInv, TypeOK, BrokerTypeOK
    <3> QED
      BY <2>3, <2>4, <2>7, <3>1 DEF AbortStep
  <2>8. ASSUME NEW u \in Tasks, DeadLetterStep(u) PROVE heard'
    BY <2>2, <2>3, <2>4, <2>8, LetterTaken DEF DeadLetterStep
  <2> QED
    BY <1>1, <2>5, <2>6, <2>7, <2>8 DEF QueueStep
<1>2. CASE ResultStep
  <2>1. ASSUME NEW t \in Tasks, Subscribe(t) PROVE FALSE
    BY <2>1 DEF Subscribe, InHand, Call
  <2>2. CASE FirstRead
    <3>1. result[Head(call.ids)] = 0 /\ call' = [call EXCEPT !.at = "waiting"]
      BY <2>2 DEF FirstRead, InHand, Call
    <3>2. result' = result /\ call'.ids = call.ids
      BY <2>2, <3>1 DEF FirstRead, Reads, vars, brokerVars, InHand, Call
    <3> QED
      BY <3>1, <3>2
  <2>3. CASE WaitEnds \/ SecondRead
    BY <2>3 DEF WaitEnds, SecondRead, InHand, Call
  <2> QED
    BY <1>2, <2>1, <2>2, <2>3 DEF ResultStep
<1>3. CASE StatusStep \/ DlqStep \/ PurgeStep
  <2>1. call'.op # "result"
    BY <1>3, OwnPhases
  <2> QED
    BY <2>1 DEF InHand, Phase
<1>4. CASE UNCHANGED callVars
  BY <1>4 DEF callVars, vars, brokerVars, NoLostWakeup
<1> QED
  BY <1>1, <1>2, <1>3, <1>4, Zenon DEF CallNext

-----------------------------------------------------------------------------
(* The theorems about calls in any circumstances.                          *)

CallsInv == IInv /\ InHand /\ CallTypeOK /\ EachLetterOnce /\ NoLostWakeup

LEMMA InitCalls == CallInit => CallsInv
<1> SUFFICES ASSUME CallInit PROVE CallsInv
  OBVIOUS
<1>1. IInv
  BY InitIInv DEF CallInit
<1>2. <<>> \in Seq(Tasks)
  OBVIOUS
<1>3. call \in Call
  BY <1>2 DEF CallInit, Call, Statuses
<1>5. InHand
  BY <1>3 DEF CallInit, InHand, Phase
<1>6. CallTypeOK
  <2>1. heard = FALSE /\ truths = {} /\ still = {}
    BY DEF CallInit
  <2>2. begun \in [Tasks -> Nat] /\ books \in [Tasks -> Int]
    BY DEF CallInit
  <2> QED
    BY <1>3, <2>1, <2>2 DEF CallTypeOK
<1>4. EachLetterOnce /\ NoLostWakeup
  BY DEF CallInit, Init, BrokerInit, EachLetterOnce, NoLostWakeup
<1> QED
  BY <1>1, <1>4, <1>5, <1>6 DEF CallsInv

LEMMA NextCalls == CallsInv /\ [CallNext]_callVars => CallsInv'
<1> SUFFICES ASSUME CallsInv, [CallNext]_callVars PROVE CallsInv'
  OBVIOUS
<1>1. IInv' /\ InHand'
  BY QueueInv, StepInHand DEF CallsInv
<1>2. CallTypeOK'
  BY <1>1, TypesKept DEF CallsInv
<1>3. EachLetterOnce' /\ NoLostWakeup'
  BY <1>1, LettersBooked, HeardOfIt DEF CallsInv, CallTypeOK
<1> QED
  BY <1>1, <1>2, <1>3 DEF CallsInv

THEOREM CallsInductive == CallSpec => []CallsInv
BY InitCalls, NextCalls, PTL DEF CallSpec

\* A call holds what its next command needs, and its history has its types.
THEOREM CallTypesHold == CallSpec => []CallTypeOK
<1>1. CallsInv => CallTypeOK
  BY DEF CallsInv
<1> QED
  BY <1>1, CallsInductive, PTL

\* Of all that race for a dead letter - replays, deletions, by id or with --all -
\* one reports it, and only when it has left the dead letters.
THEOREM LettersLeaveOnce == CallSpec => []EachLetterOnce
<1>1. CallsInv => EachLetterOnce
  BY DEF CallsInv
<1> QED
  BY <1>1, CallsInductive, PTL

\* await_result never waits for a result that is stored without having been told.
THEOREM NobodySleepsThrough == CallSpec => []NoLostWakeup
<1>1. CallsInv => NoLostWakeup
  BY DEF CallsInv
<1> QED
  BY <1>1, CallsInductive, PTL

-----------------------------------------------------------------------------
(* The commands others send between two of a call's, one or none a step.   *)

Staging ==
  \/ \E now, later \in SUBSET (Lanes \X Tasks) : PublishTasks(now, later)
  \/ \E t \in Tasks, l \in Lanes : ReplayDead(t, l)

Reading ==
  \/ \E es : ReadNew(es)
  \/ \E e, extra : ReadAndHandBack(e, extra)

Releasing ==
  \E w \in Workers : mode'[w] = "down" /\ channel[w] # <<>> /\ Release(channel[w])

Purging ==
  \E l \in Lanes, scheduled \in SUBSET delayed, waiting \in SUBSET Waiting :
    PurgeLane(l, scheduled, waiting)

Promoting == \E l \in Lanes, due \in SUBSET delayed : PublishDelayed(l, due)

Ending ==
  \E c \in Consumers :
    /\ pc[c] # "idle" /\ pc'[c] = "idle"
    /\ \/ RetryLater(msg[c]) \/ Complete(msg[c], load[c], outcome[c] = "dead")
       \/ pc[c] = "discarding" /\ Discard(msg[c])

Minor ==
  \/ UNCHANGED brokerVars
  \/ \E t \in Tasks : DeadDelete(t) \/ IncrRetry(t) \/ ExpireResult(t) \/ ExpireMarker(t)

Marking == \E c \in Consumers : pc[c] = "counted" /\ pc'[c] = "marked" /\ MarkRunning(msg[c].task)
Aborting == \E t \in Tasks : AbortTask(t)
Expiring == "expire" \in FaultKinds /\ \E t \in Tasks : ExpireData(t)

LEMMA OneCommand ==
  ASSUME IInv, QueueStep
  PROVE  \/ Staging \/ Reading \/ Releasing \/ Promoting \/ Ending \/ Minor
         \/ Marking \/ Aborting \/ Purging \/ Expiring
<1>1. ASSUME NEW w \in Workers, ProducerStep(w) PROVE Reading \/ Promoting \/ Minor
  BY <1>1 DEF ProducerStep, Read, Overread, Claim, Promote, Reading, Promoting, Minor
<1>2. ASSUME NEW w \in Workers, NEW t \in Tasks, Watch(w, t) \/ LoseAbort(w, t) PROVE Minor
  BY <1>2 DEF Watch, LoseAbort, Minor
<1>3. ASSUME NEW c \in Consumers, Take(c) \/ TakeError(c) PROVE Minor
  <2>1. c[1] \in Workers /\ channel[c[1]] \in Seq(Entry) /\ channel[c[1]] # <<>>
    BY <1>3 DEF Take, TakeError, CanTake, WorkerOf, Consumers, IInv, TypeOK, WorkerTypeOK
  <2>3. Head(channel[c[1]]) \in Entry
    BY <2>1, HeadAndTail
  <2>2. Head(channel[c[1]]).task \in Tasks
    BY <2>3 DEF Entry
  <2> QED
    BY <1>3, <2>2 DEF Take, TakeError, WorkerOf, Minor
<1>4. ASSUME NEW c \in Consumers, Mark(c) PROVE Marking \/ Minor
  <2>1. pc[c] = "counted" /\ pc'[c] = "marked"
    BY <1>4 DEF Mark, IInv, TypeOK, WorkerTypeOK
  <2> QED
    BY <1>4, <2>1 DEF Mark, Marking, Minor
<1>5. ASSUME NEW c \in Consumers,
             Fetch(c) \/ Begin(c) \/ Abandon(c) \/ \E o \in Outcomes : End(c, o)
      PROVE  Minor
  BY <1>5 DEF Fetch, Begin, Abandon, End, Minor
<1>6. ASSUME NEW c \in Consumers, Finish(c) \/ DropExpired(c) PROVE Ending
  <2>1. pc[c] # "idle" /\ pc'[c] = "idle"
    BY <1>6 DEF Finish, DropExpired, Free, IInv, TypeOK, WorkerTypeOK
  <2>2. \/ RetryLater(msg[c]) \/ Complete(msg[c], load[c], outcome[c] = "dead")
        \/ pc[c] = "discarding" /\ Discard(msg[c])
    BY <1>6 DEF Finish, DropExpired
  <2> QED
    BY <2>1, <2>2 DEF Ending
<1>7. ASSUME NEW now \in SUBSET (Lanes \X Unknown), NEW later \in SUBSET (Lanes \X Unknown),
             Enqueue(now, later)
      PROVE  Staging
  BY <1>7, UnknownTasks DEF Enqueue, Staging
<1>8. ASSUME NEW t \in Tasks, Expire(t) PROVE Minor \/ Expiring
  BY <1>8 DEF Expire, Fault, Minor, Expiring
<1>9. ASSUME NEW t \in Tasks, Abort(t) PROVE Aborting
  BY <1>9 DEF Abort, Aborting
<1>10. ASSUME NEW t \in Tasks, DeadLetter(t) PROVE Staging \/ Minor
  BY <1>10 DEF DeadLetter, Staging, Minor
<1>11. ASSUME NEW w \in Workers, WorkerFault(w) PROVE Reading \/ Minor
  BY <1>11 DEF WorkerFault, ProducerError, Crash, Stop, Reading, Minor
<1>12. ASSUME NEW w \in Workers, ProducerExit(w) \/ Leave(w) \/ Start(w) PROVE Releasing \/ Minor
  <2>1. CASE Leave(w)
    <3>1. mode'[w] = "down"
      BY <2>1 DEF Leave, Vanish, IInv, TypeOK, WorkerTypeOK
    <3> QED
      BY <2>1, <3>1 DEF Leave, Releasing, Minor
  <2> QED
    BY <1>12, <2>1 DEF ProducerExit, Start, Minor
<1>13. ASSUME NEW l \in Lanes, Purge(l) PROVE Purging
  BY <1>13 DEF Purge, Purging
<1>14. CASE QuietStep
  BY <1>1, <1>2, <1>3, <1>4, <1>5, <1>6, <1>7, <1>8, <1>11, <1>12, <1>13, <1>14
     DEF QuietStep, ConsumerFault
<1> QED
  BY <1>6, <1>9, <1>10, <1>14 DEF QueueStep, FinishStep, AbortStep, DeadLetterStep

-----------------------------------------------------------------------------
(* "nothing to purge".                                                     *)

Numbered == nextId > 0 /\ \A e \in stream : e.id > 0

\* Nobody has been given an entry before an older one of the lane.
ReadInOrder == \A f \in pending, e \in Waiting : f.lane = e.lane => f.id <= e.id

\* New entries are numbered on, what is delivered stays so, and what gets
\* delivered is the oldest.
StreamStep ==
  /\ nextId' >= nextId
  /\ \A e \in stream' \ stream : e.id >= nextId
  /\ pending \cap stream' \subseteq pending'
  /\ \A f \in pending' \ pending :
       /\ f \in Waiting
       /\ \A e \in Waiting \ pending' : e.lane = f.lane => f.id <= e.id

LEMMA OrderKept ==
  ASSUME IInv, IInv', StreamStep, Numbered, ReadInOrder
  PROVE  Numbered' /\ ReadInOrder'
<1>1. nextId \in Nat /\ nextId' \in Nat /\ \A e \in stream \cup stream' : e.id \in Nat
  BY DEF IInv, TypeOK, BrokerTypeOK, Entry
<1>2. Numbered'
  BY <1>1 DEF Numbered, StreamStep
<1>3. ASSUME NEW f \in pending', NEW e \in Waiting', f.lane = e.lane PROVE f.id <= e.id
  <2>1. pending \subseteq stream /\ e \in stream' /\ e \notin pending' /\ f \in stream'
    BY DEF Waiting, IInv, TypeOK, BrokerTypeOK
  <2>2. f \in stream /\ f.id < nextId
    BY <2>1 DEF StreamStep, Waiting, IInv, StreamFresh
  <2>3. CASE e \notin stream
    BY <1>1, <2>1, <2>2, <2>3 DEF StreamStep
  <2>4. CASE e \in stream
    <3>1. e \in Waiting \ pending'
      BY <2>1, <2>4 DEF StreamStep, Waiting
    <3> QED
      BY <1>3, <3>1 DEF StreamStep, ReadInOrder
  <2> QED
    BY <2>3, <2>4
<1> QED
  BY <1>2, <1>3 DEF ReadInOrder

LEMMA StreamSteps ==
  ASSUME IInv, InHand, [CallNext]_callVars
  PROVE  StreamStep
<1> USE DEF IInv, TypeOK, BrokerTypeOK
<1>1. CASE Staging
  <2>1. \/ UNCHANGED queues
        \/ /\ nextId' = nextId + 1 /\ pending' = pending
           /\ \E items : stream' = stream \cup NewEntries(items)
    BY <1>1 DEF Staging, PublishTasks, ReplayDead, queues
  <2> QED
    BY <2>1 DEF StreamStep, NewEntries, queues
<1>2. CASE Reading
  <2>1. ASSUME NEW es, ReadNew(es) PROVE StreamStep
    BY <2>1 DEF ReadNew, Oldest, StreamStep, Waiting
  <2>2. ASSUME NEW e, NEW extra, ReadAndHandBack(e, extra) PROVE StreamStep
    <3>1. \A f \in extra : f \in Waiting
      BY <2>2 DEF ReadAndHandBack, Oldest
    <3>2. \A f \in {[g EXCEPT !.id = nextId] : g \in extra} : f.id = nextId
      BY <3>1 DEF Waiting, Entry
    <3>3. Oldest({e}) /\ pending' = pending \cup {e} /\ nextId' = nextId + 1
      BY <2>2 DEF ReadAndHandBack
    <3>4. stream' = (stream \ extra) \cup {[g EXCEPT !.id = nextId] : g \in extra}
      BY <2>2 DEF ReadAndHandBack
    <3>5. nextId' >= nextId /\ \A f \in stream' \ stream : f.id >= nextId
      BY <3>2, <3>3, <3>4
    <3>6. \A f \in pending' \ pending :
            /\ f \in Waiting
            /\ \A g \in Waiting \ pending' : g.lane = f.lane => f.id <= g.id
      BY <3>3 DEF Oldest
    <3> QED
      BY <3>3, <3>5, <3>6 DEF StreamStep
  <2> QED
    BY <1>2, <2>1, <2>2 DEF Reading
<1>3. CASE Promoting
  BY <1>3 DEF Promoting, PublishDelayed, NewEntries, StreamStep
<1>4. CASE Ending
  <2>1. nextId' = nextId /\ \E es : Acknowledge(es)
    BY <1>4 DEF Ending, RetryLater, Complete, Discard
  <2> QED
    BY <2>1 DEF Acknowledge, StreamStep
<1>5. CASE UNCHANGED queues \/ UNCHANGED <<stream, pending, nextId>>
  BY <1>5 DEF queues, StreamStep
<1>6. CASE Minor \/ Marking \/ Aborting \/ Expiring
  BY <1>5, <1>6 DEF Minor, Marking, Aborting, Expiring, DeadDelete, IncrRetry, ExpireResult,
      ExpireMarker, MarkRunning, AbortTask, ExpireData, queues, brokerVars
<1>7. CASE ChunkDrops \/ Purging
  <2>1. nextId' = nextId /\ pending' = pending /\ stream' \subseteq stream
    BY <1>7 DEF ChunkDrops, Purging, PurgeLane
  <2> QED
    BY <2>1 DEF StreamStep
<1>8. ASSUME NEW t \in Tasks, DeadLetterOf(t) PROVE Staging \/ Minor
  BY <1>8 DEF DeadLetterOf, DeadLetter, Staging, Minor
<1>9. CASE UNCHANGED callVars \/ UNCHANGED <<vars, books>>
  BY <1>5, <1>9 DEF callVars, vars, brokerVars
<1>10. CASE Releasing
  <2>1. PICK w \in Workers : Release(channel[w])
    BY <1>10 DEF Releasing
  <2> DEFINE msgs == channel[w]
             renumbered == {[msgs[i] EXCEPT !.id = nextId + i] : i \in DOMAIN msgs}
  <2>2. /\ Len(msgs) \in Nat /\ DOMAIN msgs = 1..Len(msgs)
        /\ \A i \in DOMAIN msgs : msgs[i] \in Entry
    BY DEF WorkerTypeOK
  <2>3. \A f \in renumbered : f.id >= nextId
    BY <2>2 DEF Entry
  <2>4. /\ nextId' = nextId + Len(msgs) + 1
        /\ stream' = (stream \ {msgs[i] : i \in DOMAIN msgs}) \cup renumbered
        /\ pending' = pending \ {msgs[i] : i \in DOMAIN msgs}
    BY <2>1 DEF Release
  <2>5. nextId' >= nextId /\ \A f \in stream' \ stream : f.id >= nextId
    <3> HIDE DEF renumbered
    <3> QED
      BY <2>2, <2>3, <2>4
  <2>6. \A f \in pending : f \notin renumbered
    BY <2>3 DEF StreamFresh, Entry
  <2>7. pending \cap stream' \subseteq pending' /\ pending' \ pending = {}
    BY <2>4, <2>6
  <2> QED
    BY <2>5, <2>7 DEF StreamStep
<1> QED
  BY <1>1, <1>2, <1>3, <1>4, <1>6, <1>7, <1>8, <1>9, <1>10, OneCommand, CallSteps DEF CallNext

UpTo(l, n) == {f \in stream : f.lane = l /\ f.id <= n}

\* What it has seen so far: a lane that is done with had something that left, and
\* of the one whose entries it has counted, those up to a waiting one were counted.
PurgeAsks ==
  /\ call.op = "none" => call.answer = "none"
  /\ call.answer = "nothing" => call.at = "done" /\ still = {}
  /\ call.at \in {"first", "second"} =>
       /\ call.answer \in {"none", "some"}
       /\ still \subseteq Backlog(call.chosen)
       /\ call.answer = "none" => \A b \in still : b[1] \in call.lanes
  /\ call.at = "second" /\ call.answer = "none" =>
       \A b \in still : b[1] = call.lane =>
         /\ b[3] > 0 /\ b[3] < nextId
         /\ Cardinality(UpTo(call.lane, b[3])) <= call.number

LEMMA InBacklog ==
  ASSUME BrokerTypeOK, NEW ls, NEW b \in Backlog(ls)
  PROVE  /\ b[1] \in ls
         /\ \/ \E e \in Waiting : b[1] = e.lane /\ b[3] = e.id
            \/ b[3] = 0 /\ \E p \in delayed : p[1] = b[1]
BY DEF Backlog

\* Nothing is added up to a number that was given out.
LEMMA NoneComeBefore ==
  ASSUME IInv, IInv', StreamStep, NEW l, NEW n \in Nat, n < nextId
  PROVE  /\ Cardinality(UpTo(l, n)) \in Nat /\ Cardinality(UpTo(l, n))' \in Nat
         /\ Cardinality(UpTo(l, n))' <= Cardinality(UpTo(l, n))
<1>1. UpTo(l, n)' \subseteq UpTo(l, n)
  <2>1. \A e \in stream' : e.id <= n => e \in stream
    BY DEF StreamStep, IInv, TypeOK, BrokerTypeOK, Entry
  <2> QED
    BY <2>1 DEF UpTo
<1>2. IsFiniteSet(UpTo(l, n)) /\ IsFiniteSet(UpTo(l, n)')
  <2>1. IsFiniteSet(UpTo(l, n))
    BY Finite DEF UpTo, IInv, TypeOK
  <2> QED
    BY <1>1, <2>1, FS_Subset
<1>3. Cardinality(UpTo(l, n)') <= Cardinality(UpTo(l, n))
  BY <1>1, <1>2, FS_Subset
<1> QED
  BY <1>2, <1>3, FS_CardinalityType

LEMMA OthersLetItAsk ==
  ASSUME IInv, IInv', InHand, CallTypeOK, PurgeAsks, QueueStep, StreamStep, Remember
  PROVE  PurgeAsks'
<1>1. call' = call /\ call.at # "done"
  BY OthersDeliver DEF QueueStep
<1>2. ASSUME call.at \in {"first", "second"}
      PROVE  still' \subseteq still /\ still' \subseteq Backlog(call.chosen)'
  BY <1>1, <1>2 DEF Remember, InHand, Phase
<1>3. ASSUME call.at = "second", call.answer = "none", NEW b \in still, b[1] = call.lane
      PROVE  /\ b[3] > 0 /\ b[3] < nextId'
             /\ Cardinality(UpTo(call.lane, b[3]))' <= call.number
  <2>1. b[3] \in Nat /\ b[3] < nextId
    BY <1>3 DEF PurgeAsks, CallTypeOK
  <2>2. /\ Cardinality(UpTo(call.lane, b[3])) \in Nat /\ Cardinality(UpTo(call.lane, b[3]))' \in Nat
        /\ Cardinality(UpTo(call.lane, b[3]))' <= Cardinality(UpTo(call.lane, b[3]))
    BY <1>1, <2>1, NoneComeBefore
  <2>3. nextId' >= nextId /\ nextId \in Nat /\ nextId' \in Nat /\ call.number \in Nat
    BY DEF StreamStep, IInv, TypeOK, BrokerTypeOK, InHand, Call
  <2> QED
    BY <1>3, <2>1, <2>2, <2>3 DEF PurgeAsks
<1>4. call.answer # "nothing"
  BY <1>1 DEF PurgeAsks
<1> QED
  BY <1>1, <1>2, <1>3, <1>4 DEF PurgeAsks

Elsewhere ==
  call'.op # "none" /\ call'.at \notin {"first", "second"} /\ call'.answer # "nothing"

LEMMA OthersAskNothing ==
  ASSUME InHand, PurgeAsks, ResultStep \/ StatusStep \/ DlqStep
  PROVE  Elsewhere
<1>1. /\ call.at # "done" => call.answer # "nothing"
      /\ call.op = "none" => call.answer = "none"
  BY DEF PurgeAsks
<1> USE DEF InHand, Call, Phase, Elsewhere
<1>2. ASSUME NEW t \in Tasks, Subscribe(t) \/ AskStatus(t) PROVE Elsewhere
  BY <1>1, <1>2 DEF Subscribe, AskStatus
<1>3. CASE FirstRead \/ WaitEnds \/ SecondRead
  BY <1>1, <1>3 DEF FirstRead, WaitEnds, SecondRead
<1>4. CASE Facts
  <2>1. TrueStatus(Head(call.ids)) # "nothing"
    BY DEF TrueStatus
  <2> QED
    BY <1>1, <1>4, <2>1 DEF Facts
<1>5. ASSUME NEW l \in Lanes, LookInLane(l) PROVE Elsewhere
  BY <1>1, <1>5 DEF LookInLane
<1>6. ASSUME NEW action \in {"replay", "delete"}, AskDlq(action) PROVE Elsewhere
  <2>1. \/ call' = [call EXCEPT !.op = action, !.at = "count"]
        \/ \E s : call' = [call EXCEPT !.op = action, !.at = "each", !.ids = s]
    <3> HIDE DEF InHand, Call, Phase, Elsewhere
    <3> QED
      BY <1>6 DEF AskDlq
  <2>2. call.at = "start"
    BY <1>6, Zenon DEF AskDlq
  <2>3. CASE call' = [call EXCEPT !.op = action, !.at = "count"]
    BY <1>1, <2>2, <2>3
  <2>4. ASSUME NEW s, call' = [call EXCEPT !.op = action, !.at = "each", !.ids = s]
        PROVE  Elsewhere
    BY <1>1, <2>2, <2>4
  <2> HIDE DEF InHand, Call, Phase, Elsewhere
  <2> QED
    BY <2>1, <2>3, <2>4, Zenon
<1>7. CASE ListDead
  BY <1>1, <1>7 DEF ListDead
<1>8. CASE CountDead \/ GetDead \/ Replay \/ Delete \/ DlqEnds
  BY <1>1, <1>8 DEF CountDead, GetDead, Replay, Delete, DlqEnds
<1> HIDE DEF InHand, Call, Phase, Elsewhere
<1>9. CASE ResultStep \/ StatusStep
  BY <1>2, <1>3, <1>4, <1>5, <1>9 DEF ResultStep, StatusStep
<1>10. CASE DlqStep
  BY <1>6, <1>7, <1>8, <1>10 DEF DlqStep
<1> QED
  BY <1>9, <1>10

\* A first look finds what waits in the lane among the entries, or delayed tasks.
LEMMA LaneCounted ==
  ASSUME IInv, Numbered, NEW l \in Lanes, LaneDelayed(l) = 0, NEW ls, NEW b \in Backlog(ls),
         b[1] = l
  PROVE  /\ b[3] > 0 /\ b[3] < nextId
         /\ Cardinality(UpTo(l, b[3])) <= LaneLength(l)
<1>1. {p \in delayed : p[1] = l} = {}
  <2>1. IsFiniteSet({p \in delayed : p[1] = l})
    BY Finite DEF IInv, TypeOK
  <2> QED
    BY <2>1, FS_EmptySet DEF LaneDelayed
<1>2. PICK e \in Waiting : b[1] = e.lane /\ b[3] = e.id
  BY <1>1, InBacklog DEF IInv, TypeOK
<1>3. b[3] > 0 /\ b[3] < nextId
  BY <1>2 DEF Waiting, Numbered, IInv, StreamFresh
<1>4. UpTo(l, b[3]) \subseteq {f \in stream : f.lane = l}
  BY DEF UpTo
<1>5. IsFiniteSet({f \in stream : f.lane = l})
  BY Finite DEF IInv, TypeOK
<1> QED
  BY <1>3, <1>4, <1>5, FS_Subset DEF LaneLength

\* Of the entries up to a waiting one, it is itself not pending, and all the lane's
\* pending ones are among the others.
LEMMA FewerPending ==
  ASSUME IInv, ReadInOrder, NEW l, NEW e \in Waiting, e.lane = l
  PROVE  LanePending(l) < Cardinality(UpTo(l, e.id))
<1> DEFINE U == UpTo(l, e.id)
           P == {f \in pending : f.lane = l}
<1>1. e \in U /\ P \subseteq U /\ e \notin P
  BY DEF UpTo, Waiting, ReadInOrder, IInv, TypeOK, BrokerTypeOK, Entry
<1>2. IsFiniteSet(U)
  BY Finite DEF UpTo, IInv, TypeOK
<1>3. Cardinality(P) <= Cardinality(U) /\ (Cardinality(P) = Cardinality(U) => P = U)
  BY <1>1, <1>2, FS_Subset
<1>4. Cardinality(P) \in Nat /\ Cardinality(U) \in Nat
  BY <1>1, <1>2, FS_Subset, FS_CardinalityType
<1> QED
  BY <1>1, <1>3, <1>4 DEF LanePending

LEMMA PurgeAsksOn ==
  ASSUME IInv, InHand, CallTypeOK, Numbered, ReadInOrder, PurgeAsks, PurgeStep, Remember
  PROVE  PurgeAsks'
<1>0. /\ call.at # "done" => call.answer # "nothing"
      /\ call \in Call /\ Phase
  BY DEF PurgeAsks, InHand
<1>1. ASSUME NEW ls \in SUBSET Lanes, NEW yes \in BOOLEAN, AskPurge(ls, yes) PROVE PurgeAsks'
  <2>1. /\ call.op = "none" /\ call.answer = "none"
        /\ call' = [call EXCEPT !.op = "purge", !.at = IF yes THEN "bound" ELSE "first",
                               !.chosen = IF yes THEN {} ELSE ls, !.lanes = ls]
    BY <1>0, <1>1 DEF AskPurge, Phase, PurgeAsks
  <2>2. /\ call'.op = "purge" /\ call'.answer = "none" /\ call'.at \in {"bound", "first"}
        /\ call'.at = "first" => call'.lanes = call'.chosen
    BY <1>0, <2>1 DEF Call
  <2>3. call'.at = "first" => still' = Backlog(call.chosen)'
    BY <2>1 DEF Remember
  <2>4. \A b \in Backlog(call.chosen)' : b[1] \in call'.chosen
    BY DEF Backlog
  <2> QED
    BY <2>2, <2>3, <2>4 DEF PurgeAsks
<1>2. ASSUME NEW l \in Lanes, CountFirst(l) PROVE PurgeAsks'
  <2>1. /\ call.at = "first" /\ UNCHANGED vars /\ call.op = "purge"
        /\ call' = [call EXCEPT !.at = "second", !.lane = l, !.number = LaneLength(l),
                               !.answer = IF LaneDelayed(l) > 0 THEN "some" ELSE @]
    BY <1>0, <1>2 DEF CountFirst, Reads, Phase, CountOrder, Count
  <2>2. LaneLength(l) \in Nat /\ LaneDelayed(l) \in Nat
    BY Finite DEF LaneLength, LaneDelayed, IInv, TypeOK
  <2>3. /\ call'.op = "purge" /\ call'.at = "second" /\ call'.lane = l
        /\ call'.number = LaneLength(l) /\ call'.lanes = call.lanes
        /\ call'.answer = (IF LaneDelayed(l) > 0 THEN "some" ELSE call.answer)
    BY <1>0, <2>1 DEF Call
  <2>4. still' \subseteq still /\ still' \subseteq Backlog(call.chosen)'
    BY <2>1, <2>3 DEF Remember
  <2>5. call'.answer = "none" => call.answer = "none" /\ LaneDelayed(l) = 0
    BY <2>2, <2>3
  <2>6. ASSUME call'.answer = "none", NEW b \in still', b[1] = l
        PROVE  /\ b[3] > 0 /\ b[3] < nextId'
               /\ Cardinality(UpTo(l, b[3]))' <= call'.number
    <3>1. b \in Backlog(call.chosen)
      BY <2>1, <2>4 DEF PurgeAsks
    <3>2. b[3] > 0 /\ b[3] < nextId /\ Cardinality(UpTo(l, b[3])) <= LaneLength(l)
      BY <2>5, <2>6, <3>1, LaneCounted
    <3>3. nextId' = nextId /\ stream' = stream
      BY <2>1 DEF vars, brokerVars
    <3> QED
      BY <2>3, <3>2, <3>3 DEF UpTo
  <2>7. call'.answer \in {"none", "some"}
    BY <2>1, <2>3 DEF PurgeAsks
  <2> QED
    BY <2>1, <2>3, <2>4, <2>5, <2>6, <2>7 DEF PurgeAsks
<1>3. CASE CountSecond
  <2> DEFINE l == call.lane
             waiting == call.number > LanePending(l)
  <2>1. /\ call.at = "second" /\ UNCHANGED vars /\ call.op = "purge"
        /\ call' = [call EXCEPT !.at = "first", !.lanes = @ \ {l}, !.lane = NoLane,
                               !.number = 0, !.answer = IF waiting THEN "some" ELSE @]
    BY <1>0, <1>3 DEF CountSecond, Reads, Phase, CountOrder, Count
  <2>2. /\ call'.op = "purge" /\ call'.at = "first" /\ call'.lanes = call.lanes \ {l}
        /\ call'.answer = (IF waiting THEN "some" ELSE call.answer)
    BY <1>0, <2>1 DEF Call
  <2>3. still' \subseteq still /\ still' \subseteq Backlog(call.chosen)'
    BY <2>1, <2>2 DEF Remember
  <2>4. call'.answer = "none" => call.answer = "none" /\ ~waiting
    BY <2>2
  <2>5. ASSUME call'.answer = "none", NEW b \in still' PROVE b[1] # l
    <3> SUFFICES ASSUME b[1] = l PROVE FALSE
      OBVIOUS
    <3>1. /\ b \in Backlog(call.chosen) /\ b[3] > 0 /\ b[3] < nextId
          /\ Cardinality(UpTo(l, b[3])) <= call.number
      BY <2>1, <2>3, <2>4, <2>5 DEF PurgeAsks
    <3>2. PICK e \in Waiting : l = e.lane /\ b[3] = e.id
      BY <3>1, InBacklog DEF IInv, TypeOK
    <3>3. LanePending(l) < Cardinality(UpTo(l, b[3]))
      BY <3>2, FewerPending
    <3>4. call.number \in Nat /\ LanePending(l) \in Nat /\ Cardinality(UpTo(l, b[3])) \in Nat
      BY <1>0, Finite DEF Call, LanePending, UpTo, IInv, TypeOK
    <3> QED
      BY <2>4, <2>5, <3>1, <3>3, <3>4
  <2>6. call'.answer \in {"none", "some"}
    BY <2>1, <2>2 DEF PurgeAsks
  <2> HIDE DEF waiting
  <2>7. call'.answer = "none" => \A b \in still' : b[1] \in call'.lanes
    BY <2>1, <2>2, <2>3, <2>4, <2>5 DEF PurgeAsks
  <2> QED
    BY <2>2, <2>3, <2>6, <2>7 DEF PurgeAsks
<1>4. CASE Confirm
  <2>1. /\ call.at = "first" /\ call.lanes = {} /\ call.op = "purge"
        /\ \/ call' = [call EXCEPT !.at = "done", !.answer = "nothing"] /\ call.answer = "none"
           \/ call' = [call EXCEPT !.at = "done"]
           \/ call' = [call EXCEPT !.at = "bound", !.lanes = call.chosen, !.chosen = {},
                                !.answer = "none"]
    BY <1>0, <1>4 DEF Confirm, Phase
  <2>2. /\ call'.op = "purge" /\ call'.at \in {"done", "bound"}
        /\ \/ call'.answer \in {"none", call.answer}
           \/ call'.answer = "nothing" /\ call.answer = "none" /\ call'.at = "done"
    BY <1>0, <2>1 DEF Call
  <2>3. call.answer = "none" => still = {}
    BY <2>1 DEF PurgeAsks
  <2>4. call'.at = "done" => still' = still
    BY <2>2 DEF Remember
  <2> QED
    BY <1>0, <2>1, <2>2, <2>3, <2>4 DEF PurgeAsks
<1>5. ASSUME \/ \E l \in Lanes : NewestEntry(l)
             \/ CountDelayed \/ Chunk
      PROVE  PurgeAsks'
  <2>1. /\ call'.op = "purge" /\ call'.answer = call.answer
        /\ call'.at \in {"left", "chunks", "bound", "done"} /\ call.at # "done"
    <3> USE DEF Call, Phase
    <3>1. ASSUME NEW l \in Lanes, NewestEntry(l)
          PROVE  /\ call'.op = "purge" /\ call'.answer = call.answer
                 /\ call'.at = "left" /\ call.at # "done"
      BY <1>0, <3>1 DEF NewestEntry
    <3>2. CASE CountDelayed
      BY <1>0, <3>2 DEF CountDelayed
    <3>3. CASE Chunk
      <4>1. \/ call' = [call EXCEPT !.number = @ - ScheduledSize]
            \/ \E at \in {"done", "bound"} : call' = ChunkEnds(at)
        BY <3>3 DEF Chunk, ChunkEnds
      <4> QED
        BY <1>0, <3>3, <4>1 DEF Chunk, ChunkEnds
    <3> QED
      BY <1>5, <3>1, <3>2, <3>3
  <2> QED
    BY <1>0, <2>1 DEF PurgeAsks
<1> QED
  BY <1>1, <1>2, <1>3, <1>4, <1>5 DEF PurgeStep

AskInv == Numbered /\ ReadInOrder /\ PurgeAsks

LEMMA InitAsk == CallInit => AskInv
BY DEF CallInit, Init, BrokerInit, AskInv, Numbered, ReadInOrder, PurgeAsks

LEMMA NextAsk == CallsInv /\ CallsInv' /\ AskInv /\ [CallNext]_callVars => AskInv'
<1> SUFFICES ASSUME CallsInv, CallsInv', AskInv, [CallNext]_callVars PROVE AskInv'
  OBVIOUS
<1> USE DEF CallsInv, AskInv
<1>1. StreamStep /\ Numbered' /\ ReadInOrder'
  BY StreamSteps, OrderKept
<1>2. CASE UNCHANGED callVars
  BY <1>1, <1>2 DEF callVars, vars, brokerVars, PurgeAsks, Backlog, UpTo, Waiting
<1>3. CASE QueueStep /\ Remember
  BY <1>1, <1>3, OthersLetItAsk
<1>4. CASE ResultStep \/ StatusStep \/ DlqStep
  BY <1>1, <1>4, OthersAskNothing DEF Elsewhere, PurgeAsks
<1>5. CASE PurgeStep /\ Remember
  BY <1>1, <1>5, PurgeAsksOn
<1> QED
  BY <1>2, <1>3, <1>4, <1>5 DEF CallNext

\* `ardiq purge` says "nothing to purge" only of lanes where nothing waited all
\* along, in any circumstances: the stream is counted before what is pending of
\* it, and nobody is given an entry before an older one of its lane.
THEOREM NothingIsOverlooked == CallSpec => []NothingToPurge
<1>1. AskInv => NothingToPurge
  BY DEF AskInv, PurgeAsks, NothingToPurge
<1> QED
  BY <1>1, InitAsk, NextAsk, CallsInductive, PTL DEF CallSpec

-----------------------------------------------------------------------------
(* With leases held and no payload expiring: the queue next to a call.     *)

\* The chunks of a call's own purge are as good as another caller's.
Named == call.op = "purge" => "purge" \in FaultKinds

LEMMA ChunkHeld ==
  ASSUME HeldInv, Named, IInv', ChunkDrops
  PROVE  HeldInv'
<1>1. PICK scheduled \in SUBSET delayed, waiting \in SUBSET Purgeable :
        PurgeLane(call.lane, scheduled, waiting)
  BY DEF ChunkDrops
<1>2. waiting \in SUBSET Waiting /\ call.lane \in Lanes /\ "purge" \in FaultKinds
  BY <1>1 DEF Purgeable, ChunkDrops, Named
<1>3. UNCHANGED <<mode, channel, slotVars>>
  BY DEF ChunkDrops, workerVars, slotVars
<1>4. Spares({})
  BY <1>1, <1>2, FromHeld, PurgeLaneSpares
<1>5. NoResidue'
  BY <1>1, <1>2, FromHeld, PurgeLaneResidue DEF Books
<1>6. Books'
  BY <1>1, <1>2, <1>5, FromHeld, PurgeLaneBooks
<1>7. OneOwner' /\ LoadIsStored'
  BY <1>3, <1>4, QuietOwners
<1> QED
  BY <1>6, <1>7 DEF HeldInv, Books

LEMMA StillTimely ==
  ASSUME Timely, HeldInv, Named, InHand, [CallNext]_callVars
  PROVE  HeldInv'
<1>1. IInv /\ IInv'
  BY FromHeld, QueueInv
<1>2. UNCHANGED callVars => [Next]_vars
  BY DEF callVars
<1> QED
  BY <1>1, <1>2, EachStep, NextHeld, ChunkHeld

-----------------------------------------------------------------------------
(* What a purge drops.                                                     *)

\* Up to the entry it found to be the newest, it knows of every entry.
BegunInv ==
  call.at \in {"left", "chunks"} =>
    /\ call.last < nextId
    /\ \A e \in stream : e.lane = call.lane /\ e.id <= call.last => data[e.task] <= begun[e.task]

\* A payload is not staged over.
PayloadStep == \A t \in Tasks : data[t] # 0 => data'[t] \in {0, data[t]}

LEMMA OthersSteps ==
  ASSUME HeldInv, QueueStep
  PROVE  PayloadStep
<1>1. BrokerTypeOK
  BY FromHeld
<1>2. CASE Staging
  <2>1. ASSUME NEW now, NEW later, PublishTasks(now, later)
        PROVE  \A t \in Tasks : data[t] # 0 => data'[t] = data[t]
    BY <2>1 DEF PublishTasks, Fresh
  <2>2. ASSUME NEW u \in Tasks, NEW l, ReplayDead(u, l)
        PROVE  \A t \in Tasks : data[t] # 0 => data'[t] = data[t]
    BY <1>1, <2>2 DEF ReplayDead, BrokerTypeOK
  <2> QED
    BY <1>2, <2>1, <2>2 DEF Staging, PayloadStep
<1>3. CASE Reading \/ Releasing \/ Promoting \/ Minor \/ Marking
  <2>1. CASE data' = data
    BY <1>1, <2>1 DEF PayloadStep
  <2>2. ASSUME NEW t \in Tasks, DeadDelete(t) \/ IncrRetry(t) \/ ExpireResult(t) \/ ExpireMarker(t)
        PROVE  data' = data
    BY <2>2 DEF DeadDelete, IncrRetry, ExpireResult, ExpireMarker
  <2> QED
    BY <1>3, <2>1, <2>2 DEF Reading, ReadNew, ReadAndHandBack, Releasing, Release, Promoting,
       PublishDelayed, Minor, Marking, MarkRunning, keys, brokerVars
<1>4. CASE Ending \/ Aborting \/ Expiring
  <2>1. data' = data \/ \E t : data' = [data EXCEPT ![t] = 0]
    BY <1>4 DEF Ending, Aborting, Expiring, RetryLater, Complete, Discard, AbortTask, ExpireData
  <2> QED
    BY <1>1, <2>1 DEF PayloadStep, BrokerTypeOK
<1>5. CASE Purging
  BY <1>1, <1>5 DEF Purging, PurgeLane, PayloadStep, BrokerTypeOK
<1> QED
  BY <1>2, <1>3, <1>4, <1>5, OneCommand, FromHeld

\* The entries known stay below what was staged when they were looked at.
LEMMA StillBegun ==
  ASSUME HeldInv, IInv', StreamStep, PayloadStep, BegunInv, CallTypeOK,
         call.at \in {"left", "chunks"}, begun' = begun,
         call'.lane = call.lane, call'.last = call.last
  PROVE  BegunInv'
<1>1. nextId \in Nat /\ nextId' \in Nat /\ call.last \in Nat /\ nextId' >= nextId
  BY FromHeld DEF StreamStep, IInv, TypeOK, BrokerTypeOK, CallTypeOK, Call
<1>2. ASSUME NEW e \in stream', e.lane = call.lane, e.id <= call.last
      PROVE  data'[e.task] <= begun[e.task]
  <2>1. e \in Entry /\ e.id \in Nat /\ e.task \in Tasks
    BY DEF IInv, TypeOK, BrokerTypeOK, Entry
  <2>2. e \in stream
    BY <1>1, <1>2, <2>1 DEF StreamStep, BegunInv
  <2>3. data[e.task] # 0 /\ data[e.task] \in Nat /\ begun[e.task] \in Nat
    BY <2>1, <2>2, FromHeld DEF Copies, BrokerTypeOK, CallTypeOK
  <2>4. data'[e.task] \in {0, data[e.task]}
    BY <2>1, <2>3 DEF PayloadStep
  <2> QED
    BY <1>2, <2>2, <2>3, <2>4 DEF BegunInv
<1> QED
  BY <1>1, <1>2 DEF BegunInv

LEMMA OwnPayloads ==
  ASSUME HeldInv, InHand, ResultStep \/ StatusStep \/ DlqStep \/ PurgeStep
  PROVE  PayloadStep
<1>1. BrokerTypeOK
  BY FromHeld
<1>2. CASE ChunkDrops
  BY <1>1, <1>2 DEF ChunkDrops, PurgeLane, PayloadStep, BrokerTypeOK
<1>3. ASSUME NEW t \in Tasks, DeadLetterOf(t) PROVE PayloadStep
  BY <1>1, <1>3 DEF DeadLetterOf, DeadLetter, DeadDelete, ReplayDead, PayloadStep, BrokerTypeOK
<1>4. CASE UNCHANGED <<vars, books>>
  BY <1>1, <1>4 DEF vars, brokerVars, PayloadStep
<1> QED
  BY <1>2, <1>3, <1>4, CallSteps

LEMMA NewestBelow ==
  ASSUME BrokerTypeOK, StreamFresh, Numbered, NEW l
  PROVE  Newest(l) < nextId
<1> DEFINE S == {e.id : e \in {f \in stream : f.lane = l}} \cup {0}
<1>1. S \in SUBSET Nat /\ S # {} /\ \A n \in S : n < nextId
  BY DEF BrokerTypeOK, StreamFresh, Entry, Numbered
<1> HIDE DEF S
<1>2. \A n \in S : n <= nextId
  <2>1. nextId \in Nat /\ \A n \in S : n \in Nat
    BY <1>1 DEF BrokerTypeOK
  <2> QED
    BY <1>1, <2>1
<1>3. Max(S) \in S
  BY <1>1, <1>2, MaxIs DEF BrokerTypeOK
<1> QED
  BY <1>1, <1>3 DEF Newest, S

LEMMA ResultStays ==
  ASSUME InHand, ResultStep
  PROVE  call'.op = "result"
<1> USE DEF InHand, Call, Phase
<1>1. ASSUME NEW t \in Tasks, Subscribe(t) PROVE call'.op = "result"
  BY <1>1 DEF Subscribe
<1>2. CASE FirstRead \/ WaitEnds \/ SecondRead
  BY <1>2 DEF FirstRead, WaitEnds, SecondRead
<1> QED
  BY <1>1, <1>2 DEF ResultStep

LEMMA BegunStep ==
  ASSUME HeldInv, HeldInv', InHand, CallTypeOK, Numbered, BegunInv, [CallNext]_callVars
  PROVE  BegunInv'
<1>1. IInv /\ IInv' /\ StreamStep
  BY StreamSteps DEF HeldInv
<1>2. CASE UNCHANGED callVars
  BY <1>2 DEF callVars, vars, brokerVars, BegunInv
<1>3. CASE QueueStep /\ Remember
  <2>1. call' = call /\ PayloadStep
    BY <1>3, OthersDeliver, OthersSteps
  <2>2. call.at \in {"left", "chunks"} => begun' = begun
    BY <1>3, <2>1 DEF Remember
  <2> QED
    BY <1>1, <2>1, <2>2, StillBegun DEF BegunInv
<1>4. CASE (ResultStep \/ StatusStep \/ DlqStep) /\ CallNext
  <2>1. call'.at \notin {"left", "chunks"}
    <3>1. InHand'
      BY <1>1, <1>4, StepInHand
    <3>2. call'.op # "purge"
      BY <1>4, OwnPhases, ResultStays
    <3> QED
      BY <3>1, <3>2 DEF InHand, Phase
  <2> QED
    BY <2>1 DEF BegunInv
<1>5. ASSUME NEW l \in Lanes, NewestEntry(l), Remember PROVE BegunInv'
  <2>1. /\ call' = [call EXCEPT !.at = "left", !.lane = l, !.last = Newest(l)]
        /\ call.at = "bound" /\ UNCHANGED vars
    BY <1>5 DEF NewestEntry, Reads
  <2>2. call'.lane = l /\ call'.last = Newest(l) /\ begun' = staged
    BY <1>5, <2>1 DEF Remember, InHand, Call
  <2>3. Newest(l) < nextId
    BY <1>1, NewestBelow DEF IInv, TypeOK
  <2>4. \A e \in stream : data[e.task] <= staged[e.task]
    <3>1. \A t \in Tasks : data[t] \in {0, staged[t]} /\ staged[t] \in Nat
      BY FromHeld DEF HeldInv, Ledger, BrokerTypeOK
    <3>2. \A e \in stream : e.task \in Tasks
      BY FromHeld DEF BrokerTypeOK, Entry
    <3>3. \A t \in Tasks : data[t] <= staged[t]
      BY <3>1
    <3> QED
      BY <3>2, <3>3
  <2> QED
    BY <2>1, <2>2, <2>3, <2>4 DEF BegunInv, vars, brokerVars
<1>6. CASE (CountDelayed \/ Chunk) /\ Remember
  <2>1. PayloadStep /\ call.at \in {"left", "chunks"}
    BY <1>6, OwnPayloads DEF PurgeStep, CountDelayed, Chunk
  <2>2. begun' = begun \/ call'.at \notin {"left", "chunks"}
    BY <1>6, <2>1 DEF Remember
  <2>3. (call'.lane = call.lane /\ call'.last = call.last) \/ call'.at \notin {"left", "chunks"}
    <3> USE DEF InHand, Call
    <3>1. CASE CountDelayed
      BY <3>1 DEF CountDelayed
    <3>2. CASE Chunk
      <4>1. \/ call' = [call EXCEPT !.number = @ - ScheduledSize]
            \/ \E at \in {"done", "bound"} : call' = ChunkEnds(at)
        BY <3>2 DEF Chunk, ChunkEnds
      <4> QED
        BY <4>1 DEF ChunkEnds
    <3> QED
      BY <1>6, <3>1, <3>2
  <2> QED
    BY <1>1, <2>1, <2>2, <2>3, StillBegun DEF BegunInv
<1>7. ASSUME \/ \E ls \in SUBSET Lanes \ {{}}, yes \in BOOLEAN : AskPurge(ls, yes)
             \/ \E l \in Lanes : CountFirst(l)
             \/ CountSecond \/ Confirm
      PROVE  BegunInv'
  <2>1. call'.at \notin {"left", "chunks"}
    <3> USE DEF InHand, Call
    <3>1. ASSUME NEW ls \in SUBSET Lanes, NEW yes \in BOOLEAN, AskPurge(ls, yes)
          PROVE  call'.at \notin {"left", "chunks"}
      BY <3>1 DEF AskPurge
    <3>2. ASSUME NEW l \in Lanes, CountFirst(l) PROVE call'.at \notin {"left", "chunks"}
      BY <3>2 DEF CountFirst
    <3>3. CASE CountSecond
      BY <3>3 DEF CountSecond
    <3>4. CASE Confirm
      <4>1. \/ call' = [call EXCEPT !.at = "done", !.answer = "nothing"]
            \/ call' = [call EXCEPT !.at = "done"]
            \/ call' = [call EXCEPT !.at = "bound", !.lanes = call.chosen, !.chosen = {},
                                !.answer = "none"]
        BY <3>4 DEF Confirm
      <4> QED
        BY <4>1
    <3> QED
      BY <1>7, <3>1, <3>2, <3>3, <3>4
  <2> QED
    BY <2>1 DEF BegunInv
<1>8. CASE PurgeStep /\ Remember
  BY <1>5, <1>6, <1>7, <1>8 DEF PurgeStep
<1> QED
  BY <1>2, <1>3, <1>4, <1>8 DEF CallNext

SparesNewWork == Chunk => \A e \in Waiting \ stream' : data[e.task] <= begun[e.task]

\* The script takes nothing beyond that entry.
LEMMA SparesStep == BegunInv => SparesNewWork
<1> SUFFICES ASSUME BegunInv, Chunk PROVE \A e \in Waiting \ stream' : data[e.task] <= begun[e.task]
  BY DEF SparesNewWork
<1>1. call.at = "chunks" /\ (UNCHANGED brokerVars \/ \E waiting \in SUBSET Purgeable : stream' = stream \ waiting)
  BY DEF Chunk, PurgeLane
<1> QED
  BY <1>1 DEF BegunInv, Waiting, Purgeable, brokerVars

-----------------------------------------------------------------------------
(* What status() answers.                                                  *)

\* What is scheduled is promoted, or taken away, or stays where it is; no worker
\* marks it running, as none has it.
LEMMA ScheduledStep ==
  ASSUME HeldInv, NEW t \in Tasks, NEW l \in Lanes, <<l, t>> \in delayed,
         t \notin running, QueueStep
  PROVE  \/ <<l, t>> \in delayed' /\ t \notin running'
         \/ data'[t] = 0
         \/ t \notin running' /\ ~IsDelayed(t)' /\ data' = data /\ result' = result
<1>1. BrokerTypeOK /\ Copies
  BY FromHeld
<1>2. CASE Staging \/ Reading \/ Releasing \/ Minor
  BY <1>2 DEF Staging, PublishTasks, ReplayDead, Reading, ReadNew, ReadAndHandBack, Releasing,
     Release, Minor, DeadDelete, IncrRetry, ExpireResult, ExpireMarker, keys, queues, brokerVars
<1>3. CASE Marking
  <2>1. PICK c \in Consumers : pc[c] # "idle" /\ MarkRunning(msg[c].task)
    BY <1>3 DEF Marking
  <2>2. msg[c] \in stream
    BY <2>1, HoldsStored
  <2>3. msg[c].task # t
    BY <1>1, <2>2 DEF Copies
  <2> QED
    BY <2>1, <2>3 DEF MarkRunning, queues
<1>4. CASE Promoting
  <2>1. PICK m \in Lanes, due \in SUBSET delayed : PublishDelayed(m, due)
    BY <1>4 DEF Promoting
  <2>2. UNCHANGED <<running, data, result>> /\ delayed' = delayed \ due
    BY <2>1 DEF PublishDelayed, keys
  <2>3. <<l, t>> \notin delayed' => ~IsDelayed(t)'
    BY <1>1, <2>2 DEF Copies, IsDelayed
  <2> QED
    BY <2>2, <2>3
<1>5. CASE Ending
  BY <1>5 DEF Ending, RetryLater, Complete, Discard
<1>6. CASE Aborting
  <2>1. PICK u \in Tasks : AbortTask(u)
    BY <1>6 DEF Aborting
  <2>2. running' = running
    BY <2>1 DEF AbortTask
  <2>3. \/ delayed' = delayed
        \/ delayed' = {p \in delayed : p[2] # u} /\ data' = [data EXCEPT ![u] = 0]
    BY <2>1 DEF AbortTask
  <2> QED
    BY <1>1, <2>2, <2>3 DEF BrokerTypeOK
<1>7. CASE Purging
  <2>1. PICK m \in Lanes, scheduled \in SUBSET delayed, waiting \in SUBSET Waiting :
          PurgeLane(m, scheduled, waiting)
    BY <1>7 DEF Purging
  <2> QED
    BY <2>1 DEF PurgeLane
<1>8. CASE Expiring
  BY <1>1, <1>8 DEF Expiring, ExpireData, queues, BrokerTypeOK
<1> QED
  BY <1>2, <1>3, <1>4, <1>5, <1>6, <1>7, <1>8, OneCommand, FromHeld

\* What it will answer was true, or the exception has happened, or the id is still
\* scheduled in a lane that it is going to look at.
StatusInv ==
  call.op = "status" =>
    LET t == Head(call.ids) IN
    /\ call.at # "done" => Truths(t) \subseteq truths
    /\ call.at = "facts" => call.lanes = Lanes
    /\ call.at = "looking" =>
         \/ {"queued", "dropped"} \cap truths # {}
         \/ t \notin running /\ \E l \in call.lanes : <<l, t>> \in delayed
    /\ call.at = "done" =>
         \/ call.answer \in truths
         \/ call.answer = "queued" /\ "dropped" \in truths

LEMMA TruthsGrow ==
  ASSUME Remember
  PROVE  /\ truths \subseteq truths'
         /\ call'.op = "status" /\ call.at # "done" =>
              /\ Truths(Head(call.ids))' \subseteq truths'
              /\ Drops(Head(call'.ids)) => "dropped" \in truths'
BY DEF Remember

LEMMA OthersChangeStatus ==
  ASSUME HeldInv, HeldInv', InHand, StatusInv, QueueStep, Remember, call.op = "status"
  PROVE  StatusInv'
<1> DEFINE t == Head(call.ids)
<1>1. call' = call /\ call.at \in {"facts", "looking"} /\ t \in Tasks /\ call.lanes \subseteq Lanes
  BY OthersDeliver, TailOfTasks DEF QueueStep, InHand, Phase, Call
<1>2. truths \subseteq truths' /\ Truths(t)' \subseteq truths' /\ (Drops(t) => "dropped" \in truths')
  BY <1>1, TruthsGrow
<1>3. ASSUME call.at = "looking", NEW l \in call.lanes, <<l, t>> \in delayed, t \notin running
      PROVE  \/ {"queued", "dropped"} \cap truths' # {}
             \/ <<l, t>> \in delayed' /\ t \notin running'
  <2>1. l \in Lanes /\ IsDelayed(t)
    BY <1>1, <1>3 DEF IsDelayed
  <2>2. data[t] # 0 /\ result[t] = 0
    BY <1>1, <1>3, <2>1, FromHeld DEF Copies, IInv, NotCompleteWhileQueued
  <2>3. \/ <<l, t>> \in delayed' /\ t \notin running'
        \/ data'[t] = 0
        \/ t \notin running' /\ ~IsDelayed(t)' /\ data' = data /\ result' = result
    BY <1>1, <1>3, <2>1, ScheduledStep
  <2>4. CASE data'[t] = 0
    BY <1>2, <2>1, <2>2, <2>4 DEF Drops
  <2>5. CASE t \notin running' /\ ~IsDelayed(t)' /\ data' = data /\ result' = result
    <3>1. TrueStatus(t)' = "queued"
      BY <1>1, <2>2, <2>5 DEF TrueStatus
    <3> QED
      BY <1>2, <3>1 DEF Truths
  <2> QED
    BY <2>3, <2>4, <2>5
<1> QED
  BY <1>1, <1>2, <1>3 DEF StatusInv

LEMMA StatusGoesOn ==
  ASSUME HeldInv, InHand, StatusInv, StatusStep, Remember
  PROVE  StatusInv'
<1> DEFINE t == Head(call.ids)
<1>0. truths \subseteq truths' /\ call \in Call /\ Phase
  BY TruthsGrow DEF InHand
<1>1. ASSUME NEW u \in Tasks, AskStatus(u) PROVE StatusInv'
  <2>1. /\ call.at = "start"
        /\ call'.op = "status" /\ call'.at = "facts" /\ call'.lanes = Lanes
    BY <1>0, <1>1 DEF AskStatus, Call
  <2>2. Truths(Head(call.ids))' \subseteq truths'
    BY <2>1, TruthsGrow
  <2> QED
    BY <2>1, <2>2 DEF StatusInv
<1>2. ASSUME call.op = "status", call'.op = "status", call'.ids = call.ids, UNCHANGED vars
      PROVE  Truths(t)' = Truths(t)
  BY <1>2 DEF vars, brokerVars, Truths, TrueStatus, IsDelayed
<1>3. CASE Facts
  <2> DEFINE looks == result[t] = 0 /\ t \notin running /\ data[t] # 0
  <2>1. /\ call.op = "status" /\ call.at = "facts" /\ UNCHANGED vars
        /\ call' = IF looks THEN [call EXCEPT !.at = "looking"]
                   ELSE [call EXCEPT !.at = "done", !.answer = TrueStatus(t)]
    BY <1>0, <1>3 DEF Facts, Phase, Reads
  <2>2. Truths(t) \subseteq truths /\ TrueStatus(t) \in truths /\ call.lanes = Lanes
    BY <2>1 DEF StatusInv, Truths
  <2>3. CASE looks
    <3>1. /\ call'.op = "status" /\ call'.at = "looking" /\ call'.lanes = Lanes
          /\ call'.ids = call.ids
      BY <1>0, <2>1, <2>2, <2>3 DEF Call
    <3>2. Truths(t)' = Truths(t) /\ delayed' = delayed /\ running' = running
      BY <1>2, <2>1, <3>1 DEF vars, brokerVars
    <3>3. TrueStatus(t) = IF IsDelayed(t) THEN "scheduled" ELSE "queued"
      BY <2>3 DEF TrueStatus
    <3>4. \/ "queued" \in truths'
          \/ t \notin running' /\ \E l \in Lanes : <<l, t>> \in delayed'
      BY <1>0, <2>2, <2>3, <3>2, <3>3 DEF IsDelayed
    <3>5. Truths(t)' \subseteq truths'
      BY <1>0, <2>2, <3>2
    <3> QED
      BY <3>1, <3>4, <3>5 DEF StatusInv
  <2>4. CASE ~looks
    <3>1. /\ call'.op = "status" /\ call'.at = "done" /\ call'.answer = TrueStatus(t)
      BY <1>0, <2>1, <2>4 DEF Call
    <3> QED
      BY <1>0, <2>2, <3>1 DEF StatusInv
  <2> QED
    BY <2>3, <2>4
<1>4. ASSUME NEW l \in Lanes, LookInLane(l) PROVE StatusInv'
  <2>1. /\ call.op = "status" /\ call.at = "looking" /\ l \in call.lanes /\ UNCHANGED vars
        /\ call' = IF <<l, t>> \in delayed
                   THEN [call EXCEPT !.at = "done", !.answer = "scheduled"]
                   ELSE IF call.lanes = {l} THEN [call EXCEPT !.at = "done", !.answer = "queued"]
                   ELSE [call EXCEPT !.lanes = @ \ {l}]
    BY <1>0, <1>4 DEF LookInLane, Phase, Reads
  <2>2. /\ Truths(t) \subseteq truths
        /\ \/ {"queued", "dropped"} \cap truths # {}
           \/ t \notin running /\ \E m \in call.lanes : <<m, t>> \in delayed
    BY <2>1 DEF StatusInv
  <2>3. CASE <<l, t>> \in delayed
    <3>1. "scheduled" \in Truths(t)
      BY <2>3 DEF IsDelayed, Truths
    <3>2. call'.op = "status" /\ call'.at = "done" /\ call'.answer = "scheduled"
      BY <1>0, <2>1, <2>3 DEF Call
    <3> QED
      BY <1>0, <2>2, <3>1, <3>2 DEF StatusInv
  <2>4. CASE <<l, t>> \notin delayed /\ call.lanes = {l}
    <3>1. call'.op = "status" /\ call'.at = "done" /\ call'.answer = "queued"
      BY <1>0, <2>1, <2>4 DEF Call
    <3> QED
      BY <1>0, <2>2, <2>4, <3>1 DEF StatusInv
  <2>5. CASE <<l, t>> \notin delayed /\ call.lanes # {l}
    <3>1. /\ call'.op = "status" /\ call'.at = "looking" /\ call'.ids = call.ids
          /\ call'.lanes = call.lanes \ {l}
      BY <1>0, <2>1, <2>5 DEF Call
    <3>2. Truths(t)' = Truths(t) /\ delayed' = delayed /\ running' = running
      BY <1>2, <2>1, <3>1 DEF vars, brokerVars
    <3>3. Truths(t)' \subseteq truths'
      BY <1>0, <2>2, <3>2
    <3>4. \/ {"queued", "dropped"} \cap truths' # {}
          \/ t \notin running' /\ \E m \in call'.lanes : <<m, t>> \in delayed'
      BY <1>0, <2>2, <2>5, <3>1, <3>2
    <3> QED
      BY <3>1, <3>3, <3>4 DEF StatusInv
  <2> QED
    BY <2>3, <2>4, <2>5
<1> QED
  BY <1>1, <1>3, <1>4 DEF StatusStep

LEMMA StatusInvStep ==
  ASSUME HeldInv, HeldInv', InHand, StatusInv, [CallNext]_callVars
  PROVE  StatusInv'
<1>1. CASE UNCHANGED callVars
  BY <1>1 DEF callVars, vars, brokerVars, StatusInv, Truths, TrueStatus, IsDelayed
<1>2. CASE QueueStep /\ Remember
  <2>1. CASE call.op = "status"
    BY <1>2, <2>1, OthersChangeStatus
  <2>2. CASE call.op # "status"
    BY <1>2, <2>2, OthersDeliver DEF StatusInv
  <2> QED
    BY <2>1, <2>2
<1>3. CASE ResultStep \/ DlqStep \/ PurgeStep
  <2>1. call'.op # "status"
    BY <1>3, OwnPhases, ResultStays
  <2> QED
    BY <2>1 DEF StatusInv
<1>4. CASE StatusStep /\ Remember
  BY <1>4, StatusGoesOn
<1> QED
  BY <1>1, <1>2, <1>3, <1>4 DEF CallNext

-----------------------------------------------------------------------------
(* The theorems about calls while leases are held and no payload expires.  *)

\* A call's own purge leaves the queue's invariant to hold where purges are named
\* among the faults; before it, and next to any other call, it always holds.
CallsHeldInv == (Named => HeldInv /\ BegunInv) /\ StatusInv

LEMMA NamedBefore == InHand /\ [CallNext]_callVars /\ Named' => Named
<1> SUFFICES ASSUME InHand, [CallNext]_callVars, Named', call.op = "purge"
             PROVE  call'.op = "purge"
  BY DEF Named
<1>1. CASE QueueStep \/ UNCHANGED callVars
  BY <1>1, OthersDeliver DEF callVars
<1>2. CASE PurgeStep
  BY <1>2, OwnPhases
<1>3. ~ResultStep
  BY DEF ResultStep, Subscribe, FirstRead, WaitEnds, SecondRead, InHand, Phase
<1>4. ~StatusStep
  BY DEF StatusStep, AskStatus, Facts, LookInLane, InHand, Phase
<1>5. ~DlqStep
  BY DEF DlqStep, AskDlq, CountDead, ListDead, GetDead, Replay, Delete, DlqEnds, InHand, Phase
<1> QED
  BY <1>1, <1>2, <1>3, <1>4, <1>5 DEF CallNext

LEMMA InitCallsHeld == CallInit => CallsHeldInv
<1> SUFFICES ASSUME CallInit PROVE CallsHeldInv
  OBVIOUS
<1>1. HeldInv
  BY InitHeld DEF CallInit
<1>2. BegunInv /\ StatusInv
  BY DEF CallInit, BegunInv, StatusInv
<1> QED
  BY <1>1, <1>2 DEF CallsHeldInv

LEMMA NextCallsHeld ==
  ASSUME Timely
  PROVE  CallsInv /\ AskInv /\ CallsHeldInv /\ [CallNext]_callVars => CallsHeldInv'
<1> SUFFICES ASSUME CallsInv, AskInv, CallsHeldInv, [CallNext]_callVars
             PROVE  CallsHeldInv'
  OBVIOUS
<1> USE DEF CallsInv, AskInv
<1>1. CASE Named'
  <2>1. Named /\ HeldInv /\ BegunInv /\ StatusInv
    BY <1>1, NamedBefore DEF CallsHeldInv
  <2>2. HeldInv'
    BY <2>1, StillTimely
  <2>3. BegunInv' /\ StatusInv'
    BY <2>1, <2>2, BegunStep, StatusInvStep
  <2> QED
    BY <2>2, <2>3 DEF CallsHeldInv
<1>2. CASE ~Named'
  BY <1>2 DEF CallsHeldInv, Named, StatusInv
<1> QED
  BY <1>1, <1>2

\* status() answers something that was true at some moment of the call, or
\* `queued` of a scheduled task that an abort or a purge took away meanwhile:
\* next to crashes, stops, failed commands, other callers and their purges, over
\* any number of lanes, as long as leases are held and no payload expires.
THEOREM StatusAnswersTruly == ASSUME Timely PROVE CallSpec => []StatusWasTrue
<1>1. CallsHeldInv => StatusWasTrue
  BY DEF CallsHeldInv, StatusInv, StatusWasTrue
<1>2. CallsInv /\ AskInv /\ CallsHeldInv /\ [CallNext]_callVars => CallsHeldInv'
  BY NextCallsHeld
<1> QED
  BY <1>1, <1>2, InitCallsHeld, CallsInductive, InitAsk, NextAsk, PTL DEF CallSpec

\* A purge drops no entry of what was staged after it had begun with the lane,
\* next to any other purges.  (They have to be named among the faults: what is
\* shown of the queue when none is - no id without payload in the running set -
\* does not hold next to a purge, and this call is one.)
THEOREM NewWorkIsSpared ==
  ASSUME Timely, "purge" \in FaultKinds
  PROVE  CallSpec => PurgeSparesNewWork
<1>1. CallsInv /\ AskInv /\ CallsHeldInv /\ [CallNext]_callVars => CallsHeldInv'
  BY NextCallsHeld
<1>2. CallsHeldInv => [Chunk => \A e \in Waiting \ stream' : data[e.task] <= begun[e.task]]_callVars
  BY SparesStep DEF CallsHeldInv, Named, SparesNewWork
<1> QED
  BY <1>1, <1>2, InitCallsHeld, CallsInductive, InitAsk, NextAsk, PTL DEF CallSpec, PurgeSparesNewWork
=============================================================================

--------------------------- MODULE DeliveryProofs ---------------------------
(***************************************************************************)
(* IInv of Delivery.tla is inductive, for any tasks, lanes, workers, slots *)
(* and bounds, any Lease and any faults: no assumption on timing is made.  *)
(***************************************************************************)
EXTENDS Delivery, BrokerProofs

\* What remains to be shown of a step, besides what Redis does.
LEMMA StepInv ==
  ASSUME BrokerInv', WorkerTypeOK', HeldFresh', CancelsItsOwn', DataHasEntry'
  PROVE  IInv'
BY DEF IInv, BrokerInv, TypeOK

LEMMA BrokerPart == IInv => BrokerInv /\ WorkerTypeOK /\ Below(Doomed)
BY DEF IInv, BrokerInv, TypeOK, WorkerTypeOK, HeldFresh, Doomed, Below

LEMMA SameRegistered == IInv /\ UNCHANGED <<pc, msg, registered>> => CancelsItsOwn'
BY DEF IInv, CancelsItsOwn

LEMMA FewerDoomed ==
  ASSUME NEW D, HasEntry(D)', Doomed' \subseteq D
  PROVE  DataHasEntry'
BY DEF HasEntry, DataHasEntry

LEMMA SameDoomed == UNCHANGED slotVars => Doomed' = Doomed
BY DEF slotVars, Doomed

LEMMA FaultsNat == WorkerTypeOK /\ (UNCHANGED faults \/ \E k \in AllFaults : Fault(k))
                     => faults' \in Nat
BY DEF WorkerTypeOK, Fault

\* An id held by a consumer stays below the ids still to be given.
LEMMA SlotsStayFresh ==
  ASSUME IInv, BrokerInv', Grows, UNCHANGED <<pc, msg>>
  PROVE  \A c \in Consumers : pc'[c] # "idle" => msg'[c].id < nextId'
BY DEF IInv, TypeOK, WorkerTypeOK, HeldFresh, BrokerInv, BrokerTypeOK, Grows, Entry

LEMMA ChannelStaysFresh ==
  ASSUME IInv, BrokerInv', Grows, NEW w \in Workers, NEW e \in InChannel(w)
  PROVE  e.id < nextId'
<1>1. e \in Entry /\ e.id < nextId
  <2>1. channel[w] \in Seq(Entry)
    BY DEF IInv, TypeOK, WorkerTypeOK
  <2>2. e \in Entry
    BY <2>1 DEF InChannel
  <2> QED
    BY <2>2 DEF IInv, HeldFresh
<1> QED
  BY <1>1 DEF BrokerInv, BrokerTypeOK, Grows, IInv, TypeOK, Entry

\* Callers, the clock and anything else that leaves the consumers and channels.
LEMMA QuietWorkers ==
  ASSUME IInv, BrokerInv', Grows, NEW D, D = Doomed, HasEntry(D)',
         UNCHANGED <<channel, slotVars, inFlight, registered>>,
         mode' \in [Workers -> Modes],
         inbox' \in [Workers -> SUBSET Tasks], faults' \in Nat
  PROVE  IInv'
<1>1. WorkerTypeOK'
  BY DEF IInv, TypeOK, WorkerTypeOK, slotVars
<1>2. HeldFresh'
  BY SlotsStayFresh, ChannelStaysFresh DEF HeldFresh, InChannel, slotVars
<1>3. DataHasEntry'
  BY FewerDoomed, SameDoomed DEF DataHasEntry
<1> QED
  BY <1>1, <1>2, <1>3, StepInv, SameRegistered DEF slotVars

-----------------------------------------------------------------------------
(* The producer.                                                           *)

LEMMA ReceiveInv ==
  ASSUME IInv, BrokerInv', Grows, NEW D, D = Doomed, HasEntry(D)',
         NEW w \in Workers, NEW e \in stream, Receive(w, e),
         UNCHANGED <<mode, slotVars, inFlight, registered, inbox, faults>>
  PROVE  IInv'
<1>1. e \in Entry /\ channel \in [Workers -> Seq(Entry)]
  BY DEF IInv, TypeOK, BrokerTypeOK, WorkerTypeOK
<1>2. channel' \in [Workers -> Seq(Entry)]
  BY <1>1 DEF Receive
<1>3. WorkerTypeOK'
  BY <1>2 DEF IInv, TypeOK, WorkerTypeOK, slotVars
<1>4. e.id < nextId'
  BY BrokerPart, StillFresh DEF BrokerInv, BrokerTypeOK, Grows
<1>5. \A v \in Workers : InChannel(v)' \subseteq InChannel(v) \cup {e}
  <2> SUFFICES ASSUME NEW v \in Workers, NEW i \in DOMAIN channel'[v]
               PROVE  channel'[v][i] \in InChannel(v) \cup {e}
    BY DEF InChannel
  <2>1. CASE v = w
    <3>1. channel'[v] = Append(channel[v], e) /\ channel[v] \in Seq(Entry)
      BY <1>1, <2>1 DEF Receive
    <3>2. i \in 1..(Len(channel[v]) + 1)
      BY <1>1, <3>1
    <3>3. CASE i = Len(channel[v]) + 1
      BY <1>1, <3>1, <3>3
    <3>4. CASE i \in 1..Len(channel[v])
      BY <1>1, <3>1, <3>4 DEF InChannel
    <3> QED
      BY <3>1, <3>2, <3>3, <3>4
  <2>2. CASE v # w
    BY <1>1, <2>2 DEF Receive, InChannel
  <2> QED
    BY <2>1, <2>2
<1>6. HeldFresh'
  BY <1>4, <1>5, SlotsStayFresh, ChannelStaysFresh DEF HeldFresh, slotVars
<1>7. DataHasEntry'
  BY FewerDoomed, SameDoomed
<1> QED
  BY <1>3, <1>6, <1>7, StepInv, SameRegistered DEF slotVars

LEMMA ReadInv ==
  ASSUME IInv, NEW w \in Workers, NEW e \in stream, Read(w, e)
  PROVE  IInv'
<1>1. BrokerInv /\ ReadNew({e})
  BY BrokerPart DEF Read
<1>2. BrokerInv' /\ Grows
  BY <1>1, ReadNewInv
<1>3. PICK D : D = Doomed /\ HasEntry(D)
  BY DEF IInv, DataHasEntry
<1>4. HasEntry(D)'
  BY <1>1, <1>3, QuietEntry DEF ReadNew, keys
<1> QED
  BY <1>2, <1>3, <1>4, ReceiveInv DEF Read

LEMMA OverreadInv ==
  ASSUME IInv, NEW w \in Workers, NEW e \in stream, NEW extra \in SUBSET stream,
         Overread(w, e, extra)
  PROVE  IInv'
<1>1. BrokerInv /\ ReadAndHandBack(e, extra)
  BY BrokerPart DEF Overread
<1>2. BrokerInv' /\ Grows
  BY <1>1, ReadAndHandBackInv
<1>3. PICK D : D = Doomed /\ HasEntry(D) /\ Below(D)
  BY BrokerPart DEF IInv, DataHasEntry
<1>4. HasEntry(D)'
  BY <1>1, <1>3, ReadAndHandBackEntry
<1> QED
  BY <1>2, <1>3, <1>4, ReceiveInv DEF Overread

LEMMA ClaimInv ==
  ASSUME IInv, NEW w \in Workers, NEW e \in stream, Claim(w, e)
  PROVE  IInv'
<1>1. BrokerInv' /\ Grows
  BY BrokerPart, StutterBroker DEF Claim
<1>2. PICK D : D = Doomed /\ HasEntry(D)
  BY DEF IInv, DataHasEntry
<1>3. HasEntry(D)'
  BY <1>2, BrokerPart, QuietEntry DEF Claim, brokerVars
<1> QED
  BY <1>1, <1>2, <1>3, ReceiveInv DEF Claim

LEMMA PromoteInv ==
  ASSUME IInv, NEW w \in Workers, NEW l \in Lanes, NEW due \in SUBSET delayed,
         Promote(w, l, due)
  PROVE  IInv'
<1>1. BrokerInv' /\ Grows
  BY BrokerPart, PublishDelayedInv DEF Promote
<1>2. PICK D : D = Doomed /\ HasEntry(D) /\ Below(D)
  BY BrokerPart DEF IInv, DataHasEntry
<1>3. HasEntry(D)'
  BY <1>2, BrokerPart, PublishDelayedEntry DEF Promote
<1>4. UNCHANGED <<channel, slotVars, inFlight, registered, mode, inbox, faults>>
  BY DEF Promote, workerVars, slotVars
<1> QED
  BY <1>1, <1>2, <1>3, <1>4, QuietWorkers DEF IInv, TypeOK, WorkerTypeOK

LEMMA ProducerErrorInv ==
  ASSUME IInv, NEW w \in Workers, ProducerError(w)
  PROVE  IInv'
<1>1. PICK D : D = Doomed /\ HasEntry(D) /\ Below(D)
  BY BrokerPart DEF IInv, DataHasEntry
<1>2. BrokerInv' /\ Grows /\ HasEntry(D)'
  <2>1. CASE UNCHANGED brokerVars
    <3>1. stream' = stream /\ delayed' = delayed /\ data' = data
      BY <2>1 DEF brokerVars
    <3> QED
      BY <1>1, <2>1, <3>1, BrokerPart, StutterBroker, QuietEntry
  <2>2. ASSUME NEW es \in SUBSET stream, ReadNew(es)
        PROVE  BrokerInv' /\ Grows /\ HasEntry(D)'
    <3>1. stream' = stream /\ delayed' = delayed /\ data' = data
      BY <2>2 DEF ReadNew, keys
    <3> QED
      BY <1>1, <2>2, <3>1, BrokerPart, ReadNewInv, QuietEntry
  <2>3. ASSUME NEW e \in stream, NEW extra \in SUBSET stream, ReadAndHandBack(e, extra)
        PROVE  BrokerInv' /\ Grows /\ HasEntry(D)'
    BY <1>1, <2>3, BrokerPart, ReadAndHandBackInv, ReadAndHandBackEntry
  <2> QED
    BY <2>1, <2>2, <2>3 DEF ProducerError
<1>3. /\ UNCHANGED <<channel, slotVars, inFlight, registered, inbox>>
      /\ mode' = [mode EXCEPT ![w] = IF mode[w] = "up" THEN "closing" ELSE "stopping"]
  BY DEF ProducerError
<1>4. faults' \in Nat
  BY DEF ProducerError, Fault, IInv, TypeOK, WorkerTypeOK
<1>5. mode' \in [Workers -> Modes] /\ inbox' \in [Workers -> SUBSET Tasks]
  BY <1>3 DEF IInv, TypeOK, WorkerTypeOK, Modes
<1> QED
  BY <1>1, <1>2, <1>3, <1>4, <1>5, QuietWorkers

-----------------------------------------------------------------------------
(* Consumers: each step moves one of them.                                 *)

\* The slots of every consumer but c stay as they are.
OnlyMoves(c) ==
  \A d \in Consumers \ {c} : pc'[d] = pc[d] /\ msg'[d] = msg[d]

LEMMA MoveStaysFresh ==
  ASSUME IInv, BrokerInv', Grows, NEW c \in Consumers, OnlyMoves(c),
         \A w \in Workers : InChannel(w)' \subseteq InChannel(w),
         pc'[c] # "idle" => msg'[c].id < nextId'
  PROVE  HeldFresh'
<1>1. \A w \in Workers : \A e \in InChannel(w)' : e.id < nextId'
  BY ChannelStaysFresh
<1>2. \A d \in Consumers : pc'[d] # "idle" => msg'[d].id < nextId'
  <2> SUFFICES ASSUME NEW d \in Consumers \ {c}, pc'[d] # "idle"
               PROVE  msg'[d].id < nextId'
    OBVIOUS
  <2>1. pc[d] # "idle" /\ msg'[d] = msg[d]
    BY DEF OnlyMoves
  <2>2. msg[d] \in Entry /\ msg[d].id < nextId
    BY <2>1 DEF IInv, TypeOK, WorkerTypeOK, HeldFresh
  <2> QED
    BY <2>1, <2>2 DEF BrokerInv, BrokerTypeOK, Grows, IInv, TypeOK, Entry
<1> QED
  BY <1>1, <1>2 DEF HeldFresh

\* A consumer that goes anywhere but to a discard.
LEMMA SlotMoves ==
  ASSUME IInv, BrokerInv', Grows, NEW D, D = Doomed, HasEntry(D)',
         NEW c \in Consumers, OnlyMoves(c), WorkerTypeOK', CancelsItsOwn',
         \A w \in Workers : InChannel(w)' \subseteq InChannel(w),
         pc'[c] # "discarding", pc'[c] # "idle" => msg'[c].id < nextId'
  PROVE  IInv'
<1>1. Doomed' \subseteq D
  BY DEF Doomed, OnlyMoves
<1> QED
  BY <1>1, MoveStaysFresh, FewerDoomed, StepInv

\* What a consumer holds keeps its typing and freshness.
LEMMA StillHeld ==
  ASSUME IInv, BrokerInv', Grows, NEW c \in Consumers, pc[c] # "idle"
  PROVE  msg[c] \in Entry /\ msg[c].id < nextId'
<1>1. msg[c] \in Entry /\ msg[c].id < nextId
  BY DEF IInv, TypeOK, WorkerTypeOK, HeldFresh
<1> QED
  BY <1>1 DEF BrokerInv, BrokerTypeOK, Grows, IInv, TypeOK, Entry

\* A consumer outside the user's code is not the one an abort would cancel.
LEMMA NotRegistered ==
  ASSUME IInv, NEW c \in Consumers, pc[c] # "running", OnlyMoves(c),
         UNCHANGED registered
  PROVE  CancelsItsOwn'
<1> SUFFICES ASSUME NEW w \in Workers, NEW t \in Tasks, registered[w][t] # NoSlot
             PROVE  /\ pc'[<<w, registered[w][t]>>] = "running"
                    /\ msg'[<<w, registered[w][t]>>].task = t
  BY DEF CancelsItsOwn
<1>1. registered[w][t] \in Slots
  BY DEF IInv, TypeOK, WorkerTypeOK
<1>2. /\ <<w, registered[w][t]>> \in Consumers
      /\ pc[<<w, registered[w][t]>>] = "running"
      /\ msg[<<w, registered[w][t]>>].task = t
  BY <1>1 DEF Consumers, IInv, CancelsItsOwn
<1> QED
  BY <1>2 DEF OnlyMoves

\* Leaving the user's code, in whatever way, deregisters the run.
LEMMA EndWithMoves ==
  ASSUME IInv, NEW c \in Consumers, pc[c] # "idle", NEW o \in Outcomes, EndWith(c, o),
         UNCHANGED <<mode, channel, msg, tries, load, inFlight>>,
         inbox' \in [Workers -> SUBSET Tasks], faults' \in Nat
  PROVE  WorkerTypeOK' /\ CancelsItsOwn' /\ OnlyMoves(c) /\ pc'[c] = "ended"
<1>1. msg[c] \in Entry /\ msg[c].task \in Tasks
  BY DEF IInv, TypeOK, WorkerTypeOK, Entry
<1>2. c[1] \in Workers /\ c = <<c[1], c[2]>>
  BY DEF Consumers
<1>3. /\ pc' = [pc EXCEPT ![c] = "ended"] /\ outcome' = [outcome EXCEPT ![c] = o]
      /\ registered' = [registered EXCEPT ![c[1]][msg[c].task] = NoSlot]
  BY DEF EndWith, WorkerOf
<1>4. registered' \in [Workers -> [Tasks -> Slots \cup {NoSlot}]]
  BY <1>1, <1>2, <1>3 DEF IInv, TypeOK, WorkerTypeOK
<1>5. /\ pc' \in [Consumers -> Steps] /\ outcome' \in [Consumers -> Outcomes]
      /\ pc'[c] = "ended" /\ OnlyMoves(c)
  BY <1>3 DEF IInv, TypeOK, WorkerTypeOK, Steps, OnlyMoves
<1>6. \A d \in Consumers : pc'[d] # "idle" => msg'[d] \in Entry
  BY <1>1, <1>5 DEF OnlyMoves, IInv, TypeOK, WorkerTypeOK
<1>7. WorkerTypeOK'
  BY <1>4, <1>5, <1>6 DEF IInv, TypeOK, WorkerTypeOK
<1>8. CancelsItsOwn'
  <2> SUFFICES ASSUME NEW w \in Workers, NEW t \in Tasks, registered'[w][t] # NoSlot
               PROVE  /\ pc'[<<w, registered'[w][t]>>] = "running"
                      /\ msg'[<<w, registered'[w][t]>>].task = t
    BY DEF CancelsItsOwn
  <2>1. registered'[w][t] = registered[w][t] /\ (w # c[1] \/ t # msg[c].task)
    BY <1>1, <1>2, <1>3 DEF IInv, TypeOK, WorkerTypeOK
  <2> DEFINE d == <<w, registered[w][t]>>
  <2>2. d \in Consumers /\ pc[d] = "running" /\ msg[d].task = t
    BY <2>1 DEF IInv, TypeOK, WorkerTypeOK, CancelsItsOwn, Consumers
  <2>3. d # c
    BY <1>2, <2>1, <2>2
  <2> QED
    BY <2>1, <2>2, <2>3, <1>5 DEF OnlyMoves
<1> QED
  BY <1>5, <1>7, <1>8

\* What every consumer step starts from.
LEMMA Holding ==
  ASSUME IInv, NEW c \in Consumers, pc[c] # "idle"
  PROVE  /\ msg[c] \in Entry /\ msg[c].task \in Tasks
         /\ c[1] \in Workers /\ c[2] \in Slots /\ c = <<c[1], c[2]>>
BY DEF IInv, TypeOK, WorkerTypeOK, Entry, Consumers

\* A consumer step that leaves Redis, the channels and its message alone.
LEMMA LocalStep ==
  ASSUME IInv, NEW c \in Consumers, UNCHANGED <<brokerVars, channel, msg>>,
         pc[c] # "idle", pc'[c] # "discarding", OnlyMoves(c),
         WorkerTypeOK', CancelsItsOwn'
  PROVE  IInv'
<1>1. BrokerInv' /\ Grows
  BY BrokerPart, StutterBroker
<1>2. PICK D : D = Doomed /\ HasEntry(D)
  BY DEF IInv, DataHasEntry
<1>3. stream' = stream /\ delayed' = delayed /\ data' = data
  BY DEF brokerVars
<1>4. HasEntry(D)'
  BY <1>2, <1>3, BrokerPart, QuietEntry
<1>5. msg'[c].id < nextId'
  BY <1>1, StillHeld
<1>6. \A w \in Workers : InChannel(w)' \subseteq InChannel(w)
  BY DEF InChannel
<1> QED
  BY <1>1, <1>2, <1>4, <1>5, <1>6, SlotMoves

\* What taking the head of a channel gives, and leaves.
LEMMA HeadAndTail ==
  ASSUME NEW S, NEW s \in Seq(S), s # <<>>
  PROVE  /\ Head(s) \in S /\ Tail(s) \in Seq(S)
         /\ 1 \in DOMAIN s /\ Head(s) = s[1]
         /\ \A i \in DOMAIN Tail(s) : i + 1 \in DOMAIN s /\ Tail(s)[i] = s[i + 1]
<1>1. Len(s) \in Nat \ {0} /\ DOMAIN s = 1..Len(s)
  OBVIOUS
<1>2. Head(s) = s[1] /\ 1 \in DOMAIN s /\ s[1] \in S
  BY <1>1
<1>3. Tail(s) \in Seq(S) /\ Len(Tail(s)) = Len(s) - 1
  OBVIOUS
<1>4. \A i \in 1..(Len(s) - 1) : Tail(s)[i] = s[i + 1]
  OBVIOUS
<1> QED
  BY <1>1, <1>2, <1>3, <1>4

LEMMA TailOnly ==
  ASSUME IInv, NEW w \in Workers, channel[w] # <<>>,
         channel' = [channel EXCEPT ![w] = Tail(@)]
  PROVE  /\ channel' \in [Workers -> Seq(Entry)]
         /\ \A v \in Workers : InChannel(v)' \subseteq InChannel(v)
<1>1. channel \in [Workers -> Seq(Entry)]
  BY DEF IInv, TypeOK, WorkerTypeOK
<1>2. /\ Tail(channel[w]) \in Seq(Entry)
      /\ \A i \in DOMAIN Tail(channel[w]) :
           i + 1 \in DOMAIN channel[w] /\ Tail(channel[w])[i] = channel[w][i + 1]
  BY <1>1, HeadAndTail
<1> HIDE DEF Entry
<1>3. channel' \in [Workers -> Seq(Entry)]
  BY <1>1, <1>2
<1>4. ASSUME NEW v \in Workers, NEW i \in DOMAIN channel'[v]
      PROVE  channel'[v][i] \in InChannel(v)
  <2>1. CASE v = w
    BY <1>1, <1>2, <1>4, <2>1 DEF InChannel
  <2>2. CASE v # w
    BY <1>1, <1>4, <2>2 DEF InChannel
  <2> QED
    BY <2>1, <2>2
<1> QED
  BY <1>3, <1>4 DEF InChannel

LEMMA TakeInv ==
  ASSUME IInv, NEW c \in Consumers, Take(c)
  PROVE  IInv'
<1> DEFINE w == c[1]
           e == Head(channel[w])
<1>1. w \in Workers /\ channel[w] \in Seq(Entry) /\ channel[w] # <<>>
  BY DEF Take, CanTake, WorkerOf, Consumers, IInv, TypeOK, WorkerTypeOK
<1>2. e \in Entry /\ e \in InChannel(w) /\ e.task \in Tasks
  <2>1. e \in Entry /\ e = channel[w][1] /\ 1 \in DOMAIN channel[w]
    BY <1>1, HeadAndTail
  <2> QED
    BY <2>1 DEF InChannel, Entry
<1>3. BrokerInv' /\ Grows /\ UNCHANGED <<stream, delayed, data>>
  BY <1>2, BrokerPart, IncrRetryInv DEF Take, WorkerOf, IncrRetry, queues
<1>4. PICK D : D = Doomed /\ HasEntry(D)
  BY DEF IInv, DataHasEntry
<1>5. HasEntry(D)'
  BY <1>3, <1>4, BrokerPart, QuietEntry
<1>6. /\ channel' = [channel EXCEPT ![w] = Tail(@)]
      /\ pc' = [pc EXCEPT ![c] = "counted"]
      /\ msg' = [msg EXCEPT ![c] = e]
      /\ tries' = [tries EXCEPT ![c] = retry[e.task] + 1]
      /\ UNCHANGED <<mode, load, outcome, inFlight, registered, inbox, faults>>
  BY DEF Take, WorkerOf
<1>7. OnlyMoves(c) /\ pc'[c] = "counted" /\ msg'[c] = e
  BY <1>6 DEF OnlyMoves, IInv, TypeOK, WorkerTypeOK
<1>8. channel' \in [Workers -> Seq(Entry)] /\ tries' \in [Consumers -> Nat]
  <2>1. channel' \in [Workers -> Seq(Entry)]
    BY <1>1, <1>6, TailOnly
  <2>2. tries' \in [Consumers -> Nat]
    <3>1. retry[e.task] + 1 \in Nat
      BY <1>2 DEF IInv, TypeOK, BrokerTypeOK
    <3>2. tries \in [Consumers -> Nat]
      BY DEF IInv, TypeOK, WorkerTypeOK
    <3> QED
      BY <1>6, <3>1, <3>2
  <2> QED
    BY <2>1, <2>2
<1>9. pc' \in [Consumers -> Steps] /\ msg' \in [Consumers -> Entry \cup {NoEntry}]
  BY <1>2, <1>6 DEF IInv, TypeOK, WorkerTypeOK, Steps
<1>10. \A d \in Consumers : pc'[d] # "idle" => msg'[d] \in Entry
  BY <1>2, <1>7 DEF OnlyMoves, IInv, TypeOK, WorkerTypeOK
<1>11. WorkerTypeOK'
  BY <1>6, <1>8, <1>9, <1>10 DEF IInv, TypeOK, WorkerTypeOK
<1>12. CancelsItsOwn'
  BY <1>6, <1>7, NotRegistered DEF Take, CanTake
<1>13. \A v \in Workers : InChannel(v)' \subseteq InChannel(v)
  BY <1>1, <1>6, TailOnly
<1>14. e.id < nextId'
  BY <1>1, <1>2, <1>3, ChannelStaysFresh
<1> QED
  BY <1>3, <1>4, <1>5, <1>7, <1>11, <1>12, <1>13, <1>14, SlotMoves

LEMMA TakeErrorInv ==
  ASSUME IInv, NEW c \in Consumers, TakeError(c)
  PROVE  IInv'
<1> DEFINE w == c[1]
           e == Head(channel[w])
<1>1. w \in Workers /\ channel[w] \in Seq(Entry) /\ channel[w] # <<>>
  BY DEF TakeError, CanTake, WorkerOf, Consumers, IInv, TypeOK, WorkerTypeOK
<1>2. e \in Entry /\ e.task \in Tasks
  <2>1. e \in Entry
    BY <1>1, HeadAndTail
  <2> QED
    BY <2>1 DEF Entry
<1>3. BrokerInv' /\ Grows /\ UNCHANGED <<stream, delayed, data>>
  <2>1. CASE UNCHANGED brokerVars
    BY <2>1, BrokerPart, StutterBroker DEF brokerVars
  <2>2. CASE IncrRetry(e.task)
    BY <2>2, <1>2, BrokerPart, IncrRetryInv DEF IncrRetry, queues
  <2> QED
    BY <2>1, <2>2 DEF TakeError, WorkerOf
<1>4. PICK D : D = Doomed /\ HasEntry(D)
  BY DEF IInv, DataHasEntry
<1>5. HasEntry(D)'
  BY <1>3, <1>4, BrokerPart, QuietEntry
<1>6. /\ channel' = [channel EXCEPT ![w] = Tail(@)]
      /\ UNCHANGED <<mode, slotVars, inFlight, registered, inbox>>
      /\ faults' = faults + 1 /\ pc[c] = "idle"
  BY DEF TakeError, WorkerOf, CanTake, Fault
<1>7. WorkerTypeOK'
  BY <1>1, <1>6, TailOnly DEF IInv, TypeOK, WorkerTypeOK, slotVars
<1>8. \A v \in Workers : InChannel(v)' \subseteq InChannel(v)
  BY <1>1, <1>6, TailOnly
<1>9. OnlyMoves(c) /\ pc'[c] = "idle"
  BY <1>6 DEF OnlyMoves, slotVars
<1>10. CancelsItsOwn'
  BY <1>6, SameRegistered DEF slotVars
<1> QED
  BY <1>3, <1>4, <1>5, <1>7, <1>8, <1>9, <1>10, SlotMoves

LEMMA MarkInv ==
  ASSUME IInv, NEW c \in Consumers, Mark(c)
  PROVE  IInv'
<1>1. /\ pc[c] = "counted" /\ pc' = [pc EXCEPT ![c] = "marked"]
      /\ inFlight' = [inFlight EXCEPT ![c[1]][msg[c].task] = msg[c]]
      /\ UNCHANGED <<mode, channel, msg, tries, load, outcome, registered, inbox>>
  BY DEF Mark, WorkerOf
<1>2. /\ msg[c] \in Entry /\ msg[c].task \in Tasks
      /\ c[1] \in Workers
  BY <1>1, Holding
<1>3. BrokerInv' /\ Grows /\ UNCHANGED <<stream, delayed, data>>
  <2>1. CASE UNCHANGED brokerVars
    BY <2>1, BrokerPart, StutterBroker DEF brokerVars
  <2>2. CASE MarkRunning(msg[c].task)
    BY <2>2, <1>2, BrokerPart, MarkRunningInv DEF MarkRunning, queues
  <2> QED
    BY <2>1, <2>2 DEF Mark
<1>4. PICK D : D = Doomed /\ HasEntry(D)
  BY DEF IInv, DataHasEntry
<1>5. HasEntry(D)'
  BY <1>3, <1>4, BrokerPart, QuietEntry
<1>6. OnlyMoves(c) /\ pc'[c] = "marked" /\ pc' \in [Consumers -> Steps]
  BY <1>1 DEF OnlyMoves, IInv, TypeOK, WorkerTypeOK, Steps
<1>7. inFlight' \in [Workers -> [Tasks -> Entry \cup {NoEntry}]]
  BY <1>1, <1>2 DEF IInv, TypeOK, WorkerTypeOK
<1>8. faults' \in Nat
  BY DEF Mark, Fault, IInv, TypeOK, WorkerTypeOK
<1>9. WorkerTypeOK'
  BY <1>1, <1>2, <1>6, <1>7, <1>8 DEF IInv, TypeOK, WorkerTypeOK, OnlyMoves
<1>10. CancelsItsOwn'
  BY <1>1, <1>6, NotRegistered
<1>11. msg'[c].id < nextId'
  BY <1>1, <1>3, StillHeld
<1>12. \A w \in Workers : InChannel(w)' \subseteq InChannel(w)
  BY <1>1 DEF InChannel
<1> QED
  BY <1>3, <1>4, <1>5, <1>6, <1>9, <1>10, <1>11, <1>12, SlotMoves

LEMMA FetchInv ==
  ASSUME IInv, NEW c \in Consumers, Fetch(c)
  PROVE  IInv'
<1> DEFINE t == msg[c].task
<1>1. /\ pc[c] = "marked" /\ load' = [load EXCEPT ![c] = data[t]]
      /\ UNCHANGED <<brokerVars, mode, channel, msg, tries, inFlight, registered,
                     inbox, faults>>
  BY DEF Fetch
<1>2. t \in Tasks /\ msg[c] \in Entry
  BY <1>1, Holding
<1>3. load' \in [Consumers -> Nat]
  BY <1>1, <1>2 DEF IInv, TypeOK, BrokerTypeOK, WorkerTypeOK
<1>4. /\ OnlyMoves(c) /\ pc' \in [Consumers -> Steps]
      /\ outcome' \in [Consumers -> Outcomes]
  BY DEF Fetch, OnlyMoves, IInv, TypeOK, WorkerTypeOK, Steps, Outcomes
<1>5. WorkerTypeOK'
  BY <1>1, <1>2, <1>3, <1>4 DEF IInv, TypeOK, WorkerTypeOK, OnlyMoves
<1>6. CancelsItsOwn'
  BY <1>1, <1>4, NotRegistered
<1>7. CASE data[t] # 0
  <2>1. pc'[c] # "discarding"
    BY <1>7 DEF Fetch, IInv, TypeOK, WorkerTypeOK
  <2> QED
    BY <1>1, <1>4, <1>5, <1>6, <2>1, LocalStep
<1>8. CASE data[t] = 0
  <2>1. BrokerInv' /\ Grows
    BY <1>1, BrokerPart, StutterBroker
  <2>2. HeldFresh'
    <3>1. msg'[c].id < nextId'
      BY <1>1, <2>1, StillHeld
    <3>2. \A w \in Workers : InChannel(w)' \subseteq InChannel(w)
      BY <1>1 DEF InChannel
    <3> QED
      BY <1>4, <2>1, <3>1, <3>2, MoveStaysFresh
  <2>3. PICK D : D = Doomed \cup {msg[c]}
    OBVIOUS
  <2>4. HasEntry(D)
    BY <1>2, <1>8, <2>3 DEF IInv, DataHasEntry, HasEntry, EntriesOf
  <2>5. stream' = stream /\ delayed' = delayed /\ data' = data
    BY <1>1 DEF brokerVars
  <2>6. HasEntry(D)'
    BY <2>4, <2>5, BrokerPart, QuietEntry
  <2>7. Doomed' \subseteq D
    BY <1>1, <1>4, <2>3 DEF Doomed, OnlyMoves
  <2>8. DataHasEntry'
    BY <2>6, <2>7, FewerDoomed
  <2> QED
    BY <1>5, <1>6, <2>1, <2>2, <2>8, StepInv
<1> QED
  BY <1>7, <1>8

LEMMA BeginInv ==
  ASSUME IInv, NEW c \in Consumers, Begin(c)
  PROVE  IInv'
<1>1. /\ pc[c] = "fetched"
      /\ UNCHANGED <<brokerVars, mode, channel, msg, tries, load, inFlight, inbox, faults>>
  BY DEF Begin
<1>2. /\ msg[c] \in Entry /\ msg[c].task \in Tasks
      /\ c[1] \in Workers /\ c[2] \in Slots /\ c = <<c[1], c[2]>>
  BY <1>1, Holding
<1>3. /\ OnlyMoves(c) /\ pc' \in [Consumers -> Steps]
      /\ outcome' \in [Consumers -> Outcomes] /\ pc'[c] # "discarding"
  BY DEF Begin, OnlyMoves, IInv, TypeOK, WorkerTypeOK, Steps, Outcomes
<1>4. /\ registered' \in [Workers -> [Tasks -> Slots \cup {NoSlot}]]
      /\ CancelsItsOwn'
  <2>1. CASE UNCHANGED registered
    BY <1>1, <1>3, <2>1, NotRegistered DEF IInv, TypeOK, WorkerTypeOK
  <2>2. CASE /\ pc' = [pc EXCEPT ![c] = "running"]
             /\ registered' = [registered EXCEPT ![c[1]][msg[c].task] = c[2]]
    <3>1. registered' \in [Workers -> [Tasks -> Slots \cup {NoSlot}]]
      BY <1>2, <2>2 DEF IInv, TypeOK, WorkerTypeOK
    <3>2. ASSUME NEW w \in Workers, NEW t \in Tasks, registered'[w][t] # NoSlot
          PROVE  /\ pc'[<<w, registered'[w][t]>>] = "running"
                 /\ msg'[<<w, registered'[w][t]>>].task = t
      <4>1. CASE w = c[1] /\ t = msg[c].task
        BY <1>1, <1>2, <2>2, <4>1 DEF IInv, TypeOK, WorkerTypeOK
      <4>2. CASE ~(w = c[1] /\ t = msg[c].task)
        <5>1. registered'[w][t] = registered[w][t]
          BY <1>2, <2>2, <4>2 DEF IInv, TypeOK, WorkerTypeOK
        <5>2. /\ <<w, registered[w][t]>> \in Consumers
              /\ pc[<<w, registered[w][t]>>] = "running"
              /\ msg[<<w, registered[w][t]>>].task = t
          BY <3>2, <5>1 DEF IInv, TypeOK, WorkerTypeOK, CancelsItsOwn, Consumers
        <5> QED
          BY <1>1, <1>3, <5>1, <5>2 DEF OnlyMoves
      <4> QED
        BY <4>1, <4>2
    <3> QED
      BY <3>1, <3>2 DEF CancelsItsOwn
  <2> QED
    BY <2>1, <2>2 DEF Begin, WorkerOf
<1>5. WorkerTypeOK'
  BY <1>1, <1>2, <1>3, <1>4 DEF IInv, TypeOK, WorkerTypeOK, OnlyMoves
<1> QED
  BY <1>1, <1>3, <1>4, <1>5, LocalStep

LEMMA EndInv ==
  ASSUME IInv, NEW c \in Consumers, NEW o \in Outcomes, End(c, o)
  PROVE  IInv'
<1>1. /\ pc[c] = "running" /\ EndWith(c, o)
      /\ UNCHANGED <<brokerVars, mode, channel, msg, tries, load, inFlight, inbox, faults>>
  BY DEF End
<1>2. inbox' \in [Workers -> SUBSET Tasks] /\ faults' \in Nat
  BY <1>1 DEF IInv, TypeOK, WorkerTypeOK
<1>3. WorkerTypeOK' /\ CancelsItsOwn' /\ OnlyMoves(c) /\ pc'[c] = "ended"
  BY <1>1, <1>2, EndWithMoves
<1> QED
  BY <1>1, <1>3, LocalStep

\* Forgetting a message disturbs nothing else of the worker.
LEMMA FreeMoves ==
  ASSUME IInv, NEW c \in Consumers, pc[c] # "idle", Free(c),
         UNCHANGED <<mode, channel, registered, inbox>>, faults' \in Nat
  PROVE  /\ WorkerTypeOK' /\ OnlyMoves(c) /\ pc'[c] = "idle"
         /\ \A w \in Workers : InChannel(w)' \subseteq InChannel(w)
<1>1. msg[c].task \in Tasks /\ c[1] \in Workers
  BY Holding
<1>2. /\ pc' = [pc EXCEPT ![c] = "idle"] /\ msg' = [msg EXCEPT ![c] = NoEntry]
      /\ tries' = [tries EXCEPT ![c] = 0] /\ load' = [load EXCEPT ![c] = 0]
      /\ outcome' = [outcome EXCEPT ![c] = "none"]
      /\ inFlight' = [inFlight EXCEPT ![c[1]][msg[c].task] = NoEntry]
  BY DEF Free, WorkerOf
<1>3. OnlyMoves(c) /\ pc'[c] = "idle"
  BY <1>2 DEF OnlyMoves, IInv, TypeOK, WorkerTypeOK
<1>4. inFlight' \in [Workers -> [Tasks -> Entry \cup {NoEntry}]]
  BY <1>1, <1>2 DEF IInv, TypeOK, WorkerTypeOK
<1>5. /\ pc' \in [Consumers -> Steps] /\ outcome' \in [Consumers -> Outcomes]
      /\ msg' \in [Consumers -> Entry \cup {NoEntry}]
      /\ tries' \in [Consumers -> Nat] /\ load' \in [Consumers -> Nat]
  BY <1>2 DEF IInv, TypeOK, WorkerTypeOK, Steps, Outcomes
<1>6. WorkerTypeOK'
  BY <1>3, <1>4, <1>5 DEF IInv, TypeOK, WorkerTypeOK, OnlyMoves
<1> QED
  BY <1>3, <1>6 DEF InChannel

LEMMA FinishInv ==
  ASSUME IInv, NEW c \in Consumers, Finish(c)
  PROVE  IInv'
<1>1. /\ pc[c] = "ended" /\ Free(c)
      /\ UNCHANGED <<mode, channel, registered, inbox, faults>>
  BY DEF Finish
<1>2. msg[c] \in Entry /\ load[c] \in Nat /\ (outcome[c] = "dead") \in BOOLEAN
  BY <1>1, Holding DEF IInv, TypeOK, WorkerTypeOK
<1>3. faults' \in Nat
  BY <1>1 DEF IInv, TypeOK, WorkerTypeOK
<1>4. PICK D : D = Doomed /\ HasEntry(D)
  BY DEF IInv, DataHasEntry
<1>5. BrokerInv' /\ Grows /\ HasEntry(D)'
  <2>1. CASE RetryLater(msg[c])
    BY <1>2, <1>4, <2>1, BrokerPart, RetryLaterInv, RetryLaterEntry
  <2>2. CASE Complete(msg[c], load[c], outcome[c] = "dead")
    BY <1>2, <1>4, <2>2, BrokerPart, CompleteInv, CompleteEntry
  <2> QED
    BY <2>1, <2>2 DEF Finish
<1>6. /\ WorkerTypeOK' /\ OnlyMoves(c) /\ pc'[c] = "idle"
      /\ \A w \in Workers : InChannel(w)' \subseteq InChannel(w)
  BY <1>1, <1>3, FreeMoves
<1>7. CancelsItsOwn'
  BY <1>1, <1>6, NotRegistered
<1> QED
  BY <1>4, <1>5, <1>6, <1>7, SlotMoves

LEMMA DropExpiredInv ==
  ASSUME IInv, NEW c \in Consumers, DropExpired(c)
  PROVE  IInv'
<1>1. /\ pc[c] = "discarding" /\ Discard(msg[c]) /\ Free(c)
      /\ UNCHANGED <<mode, channel, registered, inbox, faults>>
  BY DEF DropExpired
<1>2. msg[c] \in Entry
  BY <1>1, Holding
<1>3. faults' \in Nat
  BY <1>1 DEF IInv, TypeOK, WorkerTypeOK
<1>4. PICK D : D = Doomed /\ HasEntry(D)
  BY DEF IInv, DataHasEntry
<1>5. msg[c] \in D
  BY <1>1, <1>4 DEF Doomed
<1>6. BrokerInv' /\ Grows
  BY <1>1, <1>2, BrokerPart, DiscardInv
<1>7. HasEntry(D)'
  BY <1>1, <1>2, <1>4, <1>5, BrokerPart, DiscardEntry
<1>8. /\ WorkerTypeOK' /\ OnlyMoves(c) /\ pc'[c] = "idle"
      /\ \A w \in Workers : InChannel(w)' \subseteq InChannel(w)
  BY <1>1, <1>3, FreeMoves
<1>9. CancelsItsOwn'
  BY <1>1, <1>8, NotRegistered
<1> QED
  BY <1>4, <1>6, <1>7, <1>8, <1>9, SlotMoves

LEMMA AbandonInv ==
  ASSUME IInv, NEW c \in Consumers, Abandon(c)
  PROVE  IInv'
<1>1. /\ pc[c] \in {"marked", "discarding", "ended"} /\ Free(c)
      /\ UNCHANGED <<brokerVars, mode, channel, registered, inbox>>
      /\ faults' \in Nat
  BY DEF Abandon, Fault, IInv, TypeOK, WorkerTypeOK
<1>2. PICK D : D = Doomed /\ HasEntry(D)
  BY DEF IInv, DataHasEntry
<1>3. BrokerInv' /\ Grows
  BY <1>1, BrokerPart, StutterBroker
<1>4. stream' = stream /\ delayed' = delayed /\ data' = data
  BY <1>1 DEF brokerVars
<1>5. HasEntry(D)'
  BY <1>2, <1>4, BrokerPart, QuietEntry
<1>6. /\ WorkerTypeOK' /\ OnlyMoves(c) /\ pc'[c] = "idle"
      /\ \A w \in Workers : InChannel(w)' \subseteq InChannel(w)
  BY <1>1, FreeMoves
<1>7. CancelsItsOwn'
  BY <1>1, <1>6, NotRegistered
<1> QED
  BY <1>2, <1>3, <1>5, <1>6, <1>7, SlotMoves

LEMMA WatchInv ==
  ASSUME IInv, NEW w \in Workers, NEW t \in Tasks, Watch(w, t)
  PROVE  IInv'
<1>1. /\ inbox' = [inbox EXCEPT ![w] = @ \ {t}]
      /\ UNCHANGED <<brokerVars, mode, channel, msg, tries, load, inFlight, faults>>
  BY DEF Watch
<1>2. inbox' \in [Workers -> SUBSET Tasks] /\ faults' \in Nat
  BY <1>1 DEF IInv, TypeOK, WorkerTypeOK
<1>3. CASE UNCHANGED <<pc, outcome, registered>>
  <2>2. BrokerInv' /\ Grows /\ stream' = stream /\ delayed' = delayed /\ data' = data
    BY <1>1, BrokerPart, StutterBroker DEF brokerVars
  <2>3. PICK D : D = Doomed /\ HasEntry(D)
    BY DEF IInv, DataHasEntry
  <2>4. HasEntry(D)'
    BY <2>2, <2>3, BrokerPart, QuietEntry
  <2>5. /\ UNCHANGED <<channel, slotVars, inFlight, registered>>
        /\ mode' \in [Workers -> Modes]
    BY <1>1, <1>3 DEF slotVars, IInv, TypeOK, WorkerTypeOK
  <2> QED
    BY <1>2, <2>2, <2>3, <2>4, <2>5, QuietWorkers
<1>4. CASE registered[w][t] # NoSlot /\ EndWith(<<w, registered[w][t]>>, "aborted")
  <2> DEFINE c == <<w, registered[w][t]>>
  <2>1. c \in Consumers /\ pc[c] = "running"
    <3>1. registered[w][t] \in Slots
      BY <1>4 DEF IInv, TypeOK, WorkerTypeOK
    <3> QED
      BY <1>4, <3>1 DEF IInv, CancelsItsOwn, Consumers
  <2>2. EndWith(c, "aborted") /\ "aborted" \in Outcomes
    BY <1>4 DEF Outcomes
  <2>3. WorkerTypeOK' /\ CancelsItsOwn' /\ OnlyMoves(c) /\ pc'[c] = "ended"
    BY <1>1, <1>2, <2>1, <2>2, EndWithMoves
  <2> QED
    BY <1>1, <2>1, <2>3, LocalStep
<1> QED
  BY <1>3, <1>4 DEF Watch

-----------------------------------------------------------------------------
(* A worker's life.                                                        *)

\* Losing a worker's memory dooms nothing and registers nothing.
LEMMA VanishInv ==
  ASSUME IInv, BrokerInv', Grows, NEW D, D = Doomed, HasEntry(D)',
         NEW w \in Workers, Vanish(w), faults' \in Nat
  PROVE  IInv'
<1>1. \A v \in Workers : channel'[v] = IF v = w THEN <<>> ELSE channel[v]
  BY DEF Vanish, IInv, TypeOK, WorkerTypeOK
<1>2. \A c \in Consumers :
        IF c[1] = w THEN pc'[c] = "idle" ELSE pc'[c] = pc[c] /\ msg'[c] = msg[c]
  BY DEF Vanish, WorkerOf
<1>3. WorkerTypeOK'
  <2>1. channel' \in [Workers -> Seq(Entry)]
    <3> HIDE DEF Entry
    <3> QED
      BY DEF Vanish, IInv, TypeOK, WorkerTypeOK
  <2>2. /\ mode' \in [Workers -> Modes]
        /\ inbox' \in [Workers -> SUBSET Tasks]
        /\ inFlight' \in [Workers -> [Tasks -> Entry \cup {NoEntry}]]
        /\ registered' \in [Workers -> [Tasks -> Slots \cup {NoSlot}]]
    BY DEF Vanish, IInv, TypeOK, WorkerTypeOK, Modes
  <2>3. /\ pc' \in [Consumers -> Steps] /\ outcome' \in [Consumers -> Outcomes]
        /\ msg' \in [Consumers -> Entry \cup {NoEntry}]
        /\ tries' \in [Consumers -> Nat] /\ load' \in [Consumers -> Nat]
    BY DEF Vanish, IInv, TypeOK, WorkerTypeOK, Steps, Outcomes
  <2>4. \A c \in Consumers : pc'[c] # "idle" => msg'[c] \in Entry
    BY <1>2 DEF IInv, TypeOK, WorkerTypeOK
  <2> QED
    BY <2>1, <2>2, <2>3, <2>4 DEF WorkerTypeOK
<1>4. HeldFresh'
  <2>1. \A v \in Workers : InChannel(v)' \subseteq InChannel(v)
    BY <1>1 DEF InChannel
  <2>2. \A c \in Consumers : pc'[c] # "idle" => msg'[c].id < nextId'
    BY <1>2, StillHeld
  <2> QED
    BY <2>1, <2>2, ChannelStaysFresh DEF HeldFresh
<1>5. CancelsItsOwn'
  <2> SUFFICES ASSUME NEW v \in Workers, NEW t \in Tasks, registered'[v][t] # NoSlot
               PROVE  /\ pc'[<<v, registered'[v][t]>>] = "running"
                      /\ msg'[<<v, registered'[v][t]>>].task = t
    BY DEF CancelsItsOwn
  <2>1. v # w /\ registered'[v][t] = registered[v][t]
    BY DEF Vanish, IInv, TypeOK, WorkerTypeOK
  <2> DEFINE c == <<v, registered[v][t]>>
  <2>2. c \in Consumers /\ c[1] = v /\ pc[c] = "running" /\ msg[c].task = t
    BY <2>1 DEF IInv, TypeOK, WorkerTypeOK, CancelsItsOwn, Consumers
  <2> QED
    BY <1>2, <2>1, <2>2
<1>6. Doomed' \subseteq D
  BY <1>2 DEF Doomed
<1> QED
  BY <1>3, <1>4, <1>5, <1>6, FewerDoomed, StepInv

LEMMA CrashInv ==
  ASSUME IInv, NEW w \in Workers, Crash(w)
  PROVE  IInv'
<1>1. Vanish(w) /\ UNCHANGED brokerVars /\ faults' \in Nat
  BY DEF Crash, Fault, IInv, TypeOK, WorkerTypeOK
<1>2. BrokerInv' /\ Grows /\ stream' = stream /\ delayed' = delayed /\ data' = data
  BY <1>1, BrokerPart, StutterBroker DEF brokerVars
<1>3. PICK D : D = Doomed /\ HasEntry(D)
  BY DEF IInv, DataHasEntry
<1>4. HasEntry(D)'
  BY <1>2, <1>3, BrokerPart, QuietEntry
<1> QED
  BY <1>1, <1>2, <1>3, <1>4, VanishInv

LEMMA LeaveInv ==
  ASSUME IInv, NEW w \in Workers, Leave(w)
  PROVE  IInv'
<1>1. Vanish(w) /\ faults' \in Nat
  BY DEF Leave, Fault, IInv, TypeOK, WorkerTypeOK
<1>2. PICK D : D = Doomed /\ HasEntry(D) /\ Below(D)
  BY BrokerPart DEF IInv, DataHasEntry
<1>3. channel[w] \in Seq(Entry)
  BY DEF IInv, TypeOK, WorkerTypeOK
<1>4. BrokerInv' /\ Grows /\ HasEntry(D)'
  <2>1. CASE Release(channel[w])
    BY <1>2, <1>3, <2>1, BrokerPart, ReleaseInv, ReleaseEntry
  <2>2. CASE UNCHANGED brokerVars
    <3>1. BrokerInv' /\ Grows /\ stream' = stream /\ delayed' = delayed /\ data' = data
      BY <2>2, BrokerPart, StutterBroker DEF brokerVars
    <3> QED
      BY <1>2, <3>1, BrokerPart, QuietEntry
  <2> QED
    BY <2>1, <2>2 DEF Leave
<1> QED
  BY <1>1, <1>2, <1>4, VanishInv

\* Steps that touch neither Redis nor what the workers hold.
LEMMA OutsideRedis ==
  ASSUME IInv, UNCHANGED <<brokerVars, channel, slotVars, inFlight, registered>>,
         mode' \in [Workers -> Modes],
         inbox' \in [Workers -> SUBSET Tasks], faults' \in Nat
  PROVE  IInv'
<1>1. BrokerInv' /\ Grows /\ stream' = stream /\ delayed' = delayed /\ data' = data
  BY BrokerPart, StutterBroker DEF brokerVars
<1>2. PICK D : D = Doomed /\ HasEntry(D)
  BY DEF IInv, DataHasEntry
<1>3. HasEntry(D)'
  BY <1>1, <1>2, BrokerPart, QuietEntry
<1> QED
  BY <1>1, <1>2, <1>3, QuietWorkers

LEMMA StopInv ==
  ASSUME IInv, NEW w \in Workers, Stop(w) \/ Start(w) \/ ProducerExit(w)
  PROVE  IInv'
<1>1. /\ UNCHANGED <<brokerVars, channel, slotVars, inFlight, registered, inbox>>
      /\ faults' \in Nat
  BY DEF Stop, Start, ProducerExit, Fault, IInv, TypeOK, WorkerTypeOK
<1>2. /\ mode' \in [Workers -> Modes]
      /\ inbox' \in [Workers -> SUBSET Tasks]
  BY <1>1 DEF Stop, Start, ProducerExit, Modes, IInv, TypeOK, WorkerTypeOK
<1> QED
  BY <1>1, <1>2, OutsideRedis

-----------------------------------------------------------------------------
(* Callers, and time.                                                      *)

\* A step of a caller that leaves the workers as they are.
LEMMA CallerOnly ==
  ASSUME IInv, BrokerInv', Grows, NEW D, D = Doomed, HasEntry(D)',
         UNCHANGED workerVars, faults' \in Nat
  PROVE  IInv'
<1>1. UNCHANGED <<channel, slotVars, inFlight, registered, mode, inbox>>
  BY DEF workerVars, slotVars
<1> QED
  BY <1>1, QuietWorkers DEF IInv, TypeOK, WorkerTypeOK

LEMMA EnqueueInv ==
  ASSUME IInv, NEW now \in SUBSET (Lanes \X Tasks), NEW later \in SUBSET (Lanes \X Tasks),
         Enqueue(now, later)
  PROVE  IInv'
<1>1. PublishTasks(now, later) /\ UNCHANGED workerVars /\ faults' \in Nat
  BY DEF Enqueue, IInv, TypeOK, WorkerTypeOK
<1>2. PICK D : D = Doomed /\ HasEntry(D) /\ Below(D)
  BY BrokerPart DEF IInv, DataHasEntry
<1>3. BrokerInv' /\ Grows /\ HasEntry(D)'
  BY <1>1, <1>2, BrokerPart, PublishTasksInv, PublishTasksEntry
<1> QED
  BY <1>1, <1>2, <1>3, CallerOnly

LEMMA AbortInv ==
  ASSUME IInv, NEW t \in Tasks, Abort(t)
  PROVE  IInv'
<1>1. /\ AbortTask(t)
      /\ inbox' = [w \in Workers |-> IF mode[w] = "down" THEN {} ELSE inbox[w] \cup {t}]
      /\ UNCHANGED <<mode, channel, slotVars, inFlight, registered, faults>>
  BY DEF Abort
<1>2. PICK D : D = Doomed /\ HasEntry(D)
  BY DEF IInv, DataHasEntry
<1>3. BrokerInv' /\ Grows /\ HasEntry(D)'
  BY <1>1, <1>2, BrokerPart, AbortTaskInv, AbortTaskEntry
<1>4. /\ mode' \in [Workers -> Modes]
      /\ inbox' \in [Workers -> SUBSET Tasks] /\ faults' \in Nat
  BY <1>1 DEF IInv, TypeOK, WorkerTypeOK
<1> QED
  BY <1>1, <1>2, <1>3, <1>4, QuietWorkers

LEMMA LoseAbortInv ==
  ASSUME IInv, NEW w \in Workers, NEW t \in Tasks, LoseAbort(w, t)
  PROVE  IInv'
BY OutsideRedis DEF LoseAbort, Fault, IInv, TypeOK, WorkerTypeOK

LEMMA DeadLetterInv ==
  ASSUME IInv, NEW t \in Tasks, DeadLetter(t)
  PROVE  IInv'
<1>1. UNCHANGED workerVars /\ faults' \in Nat
  BY DEF DeadLetter, IInv, TypeOK, WorkerTypeOK
<1>2. PICK D : D = Doomed /\ HasEntry(D) /\ Below(D)
  BY BrokerPart DEF IInv, DataHasEntry
<1>3. BrokerInv' /\ Grows /\ HasEntry(D)'
  <2>1. CASE \E l \in Lanes : ReplayDead(t, l)
    BY <1>2, <2>1, BrokerPart, ReplayDeadInv, ReplayDeadEntry
  <2>2. CASE DeadDelete(t)
    <3>1. stream' = stream /\ delayed' = delayed /\ data' = data
      BY <2>2 DEF DeadDelete, queues
    <3> QED
      BY <1>2, <2>2, <3>1, BrokerPart, DeadDeleteInv, QuietEntry
  <2> QED
    BY <2>1, <2>2 DEF DeadLetter
<1> QED
  BY <1>1, <1>2, <1>3, CallerOnly

LEMMA PurgeLaneStep ==
  ASSUME IInv, NEW l \in Lanes, NEW scheduled \in SUBSET delayed,
         NEW waiting \in SUBSET Waiting, PurgeLane(l, scheduled, waiting),
         UNCHANGED workerVars, faults' \in Nat
  PROVE  IInv'
<1>1. PICK D : D = Doomed /\ HasEntry(D)
  BY DEF IInv, DataHasEntry
<1>2. BrokerInv' /\ Grows /\ HasEntry(D)'
  BY <1>1, BrokerPart, PurgeLaneInv, PurgeLaneEntry
<1> QED
  BY <1>1, <1>2, CallerOnly

LEMMA PurgeInv ==
  ASSUME IInv, NEW l \in Lanes, Purge(l)
  PROVE  IInv'
<1>1. UNCHANGED workerVars /\ faults' \in Nat
  BY DEF Purge, Fault, IInv, TypeOK, WorkerTypeOK
<1>2. PICK scheduled \in SUBSET delayed, waiting \in SUBSET Waiting :
        PurgeLane(l, scheduled, waiting)
  BY DEF Purge
<1> QED
  BY <1>1, <1>2, PurgeLaneStep

LEMMA ExpireStepInv ==
  ASSUME IInv, NEW t \in Tasks, Expire(t)
  PROVE  IInv'
<1>1. UNCHANGED workerVars /\ faults' \in Nat
  BY DEF Expire, Fault, IInv, TypeOK, WorkerTypeOK
<1>2. PICK D : D = Doomed /\ HasEntry(D)
  BY DEF IInv, DataHasEntry
<1>3. ExpireData(t) \/ ExpireResult(t) \/ ExpireMarker(t)
  BY DEF Expire
<1>4. BrokerInv' /\ Grows
  BY <1>3, BrokerPart, ExpireInv
<1>5. /\ stream' = stream /\ delayed' = delayed
      /\ \A u \in Tasks : data'[u] # 0 => data[u] # 0
  BY <1>3 DEF ExpireData, ExpireResult, ExpireMarker, queues, IInv, TypeOK, BrokerTypeOK
<1>6. HasEntry(D)'
  BY <1>2, <1>5, BrokerPart, QuietEntry
<1> QED
  BY <1>1, <1>2, <1>4, <1>6, CallerOnly

-----------------------------------------------------------------------------
(* The theorems.                                                           *)

\* The initial state: an empty queue, idle workers.
THEOREM InitIInv == Init => IInv
<1> SUFFICES ASSUME Init PROVE IInv
  OBVIOUS
<1>1. BrokerInv
  BY InitBroker DEF Init
<1>2. WorkerTypeOK
  BY DEF Init, WorkerTypeOK, Modes, Steps, Outcomes
<1>3. HeldFresh
  BY DEF Init, HeldFresh, InChannel
<1>4. CancelsItsOwn
  BY DEF Init, CancelsItsOwn
<1>5. DataHasEntry
  BY DEF Init, BrokerInit, DataHasEntry, HasEntry
<1> QED
  BY <1>1, <1>2, <1>3, <1>4, <1>5 DEF IInv, TypeOK, BrokerInv

\* Every step of a worker, a caller or the clock keeps the invariant.
THEOREM NextIInv == IInv /\ [Next]_vars => IInv'
<1> SUFFICES ASSUME IInv, [Next]_vars PROVE IInv'
  OBVIOUS
<1>1. CASE UNCHANGED vars
  <2>1. UNCHANGED <<brokerVars, channel, slotVars, inFlight, registered, mode, inbox, faults>>
    BY <1>1 DEF vars, workerVars, slotVars
  <2> QED
    BY <2>1, OutsideRedis DEF IInv, TypeOK, WorkerTypeOK
<1>2. ASSUME NEW w \in Workers, ProducerStep(w) PROVE IInv'
  BY <1>2, ReadInv, ClaimInv, OverreadInv, PromoteInv DEF ProducerStep
<1>3. ASSUME NEW w \in Workers, WorkerFault(w) PROVE IInv'
  BY <1>3, ProducerErrorInv, CrashInv, StopInv DEF WorkerFault
<1>4. ASSUME NEW w \in Workers, Leave(w) \/ Start(w) \/ ProducerExit(w) PROVE IInv'
  BY <1>4, LeaveInv, StopInv
<1>5. ASSUME NEW w \in Workers, NEW t \in Tasks, Watch(w, t) PROVE IInv'
  BY <1>5, WatchInv
<1>6. ASSUME NEW c \in Consumers, ConsumerStep(c) PROVE IInv'
  BY <1>6, TakeInv, MarkInv, FetchInv, BeginInv, EndInv, FinishInv, DropExpiredInv
     DEF ConsumerStep
<1>7. ASSUME NEW c \in Consumers, ConsumerFault(c) PROVE IInv'
  BY <1>7, TakeErrorInv, AbandonInv DEF ConsumerFault
<1>8. CASE CallerStep
  BY <1>8, EnqueueInv, AbortInv, DeadLetterInv, ExpireStepInv, LoseAbortInv, PurgeInv
     DEF CallerStep
<1> QED
  BY <1>1, <1>2, <1>3, <1>4, <1>5, <1>6, <1>7, <1>8 DEF Next

THEOREM Inductive == Spec => []IInv
BY InitIInv, NextIInv, PTL DEF Spec

\* Every variable keeps its type: above all, a consumer past the pickup always
\* holds an entry, and no counter goes below zero.
THEOREM TypesHold == Spec => []TypeOK
<1>1. IInv => TypeOK
  BY DEF IInv
<1> QED
  BY <1>1, Inductive, PTL

\* No accepted task is stranded, whatever crashes, expires, is purged, is lost or
\* is claimed early: while its payload is stored, a delayed set or a stream
\* entry still leads a worker to it.
THEOREM NothingStranded == Spec => []DataHasEntry
<1>1. IInv => DataHasEntry
  BY DEF IInv
<1> QED
  BY <1>1, Inductive, PTL

\* No id has a stored payload and a stored result at once, so status() never
\* answers `complete` for a task that is still to run.
THEOREM NeverCompleteWhileQueued == Spec => []NotCompleteWhileQueued
<1>1. IInv => NotCompleteWhileQueued
  BY DEF IInv
<1> QED
  BY <1>1, Inductive, PTL

\* The run an abort cancels is a run of the aborted task, in the user's code.
THEOREM AbortsCancelTheirOwn == Spec => []CancelsItsOwn
<1>1. IInv => CancelsItsOwn
  BY DEF IInv
<1> QED
  BY <1>1, Inductive, PTL
=============================================================================

----------------------------- MODULE WorkerLoop -----------------------------
(***************************************************************************)
(* One worker's producer loop, command by command: permits, lane limits,   *)
(* the strict or weighted read of several lanes, the blocking read, the    *)
(* bounded channel to the consumers, promotion and the burst exit.  Tasks  *)
(* are anonymous here, a lane's stream is the number of its entries: what  *)
(* happens to one task is Delivery.tla's business.                         *)
(***************************************************************************)
EXTENDS Integers, Sequences, FiniteSets, SequencesExt

CONSTANTS
  NumLanes,   \* lane 1 is the highest
  Prefetch,
  Slots,      \* consumers
  Configs,    \* how the worker may be configured, see config
  MaxReady,   \* bound: entries waiting in one lane, the delayed ones included
  MaxIdle     \* bound: entries of other workers that can be claimed, in all lanes

Lanes == 1..NumLanes

ASSUME LoopAssumption ==
  /\ NumLanes \in Nat \ {0} /\ Prefetch \in Nat \ {0} /\ IsFiniteSet(Slots)
  /\ \A c \in Configs :
       /\ c.limits \in [Lanes -> Nat \ {0}]
       /\ c.weights # << >> => c.weights \in [Lanes -> Nat \ {0}]
       /\ c.slots \subseteq Slots /\ {c.burst, c.stops} \subseteq BOOLEAN
  /\ MaxReady \in Nat /\ MaxIdle \in Nat

VARIABLES
  config,    \* the worker's options, and whether stop() is ever called
  waiting,   \* per lane: entries in the stream and not delivered
  idle,      \* per lane: delivered to others and idle long enough to be claimed
  due,       \* per lane: delayed tasks whose time has come
  permits, held, channel,   \* RunState and the channel of run()
  slot,      \* per consumer: the lane of the task it runs, 0 if none
  freed,     \* consumers between held - 1 and permits + 1
  cancel,    \* the cancel token
  step,      \* where the producer is
  lane,      \* the lane its next command is about
  count,     \* permits it saw at the top of this iteration
  left,      \* how many read_batch may still read: its count, then its spare
  room, picks, open,
  credit,    \* of the weighted round robin, kept from one read to the next
  batch,     \* messages read and not yet sent to the channel
  everyLane, \* read_every_lane
  none,      \* messages.is_empty(), as the burst check sees it
  promoted,
  \* History, for the properties only.
  dry,       \* lanes whose last read came back with less than was asked
  quiet      \* nothing became ready since the iteration began

redis    == <<waiting, idle, due>>
consumer == <<slot, freed>>
reader   == <<count, left, room, picks, open, credit, batch, lane, dry>>
flags    == <<everyLane, none, promoted>>
vars == <<config, redis, permits, held, channel, consumer, cancel, step, reader, flags, quiet>>

Weights  == config.weights  \* one per lane, or << >> when lanes are drained strictly
Weighted == Weights # << >>
Limits   == config.limits   \* one per lane: the most the worker holds of it
Burst    == config.burst
CanStop  == config.stops

Zero == [l \in Lanes |-> 0]
Count(msgs, l) == Cardinality({i \in DOMAIN msgs : msgs[i] = l})
Least(a, b) == IF a < b THEN a ELSE b
AtLeastZero(n) == IF n < 0 THEN 0 ELSE n

Steps == {"top", "wait", "claim", "pick", "new", "spare", "block", "send", "promote",
          "check", "left", "gone"}

TypeOK ==
  /\ config \in Configs
  /\ waiting \in [Lanes -> Nat] /\ idle \in [Lanes -> Nat] /\ due \in [Lanes -> Nat]
  /\ permits \in 0..Prefetch /\ held \in [Lanes -> 0..Prefetch]
  /\ channel \in Seq(Lanes) /\ batch \in Seq(Lanes)
  /\ slot \in [Slots -> Lanes \cup {0}] /\ freed \subseteq Slots
  /\ step \in Steps /\ lane \in Lanes
  /\ count \in 0..Prefetch /\ left \in 0..Prefetch
  /\ room \in [Lanes -> Nat] /\ picks \in Seq(Lanes)
  /\ open \in Seq(Lanes) /\ credit \in [Lanes -> Int] /\ dry \subseteq Lanes
  /\ {cancel, everyLane, none, quiet} \subseteq BOOLEAN /\ promoted \in Nat

Init ==
  /\ config \in Configs
  /\ waiting = Zero /\ idle = Zero /\ due = Zero
  /\ permits = Prefetch /\ held = Zero /\ channel = << >>
  /\ slot = [s \in Slots |-> 0] /\ freed = {}
  /\ cancel = FALSE /\ step = "top"
  /\ lane = 1 /\ count = 0 /\ left = 0 /\ room = Zero /\ picks = << >> /\ open = << >>
  /\ credit = Zero /\ batch = << >> /\ everyLane = FALSE /\ none = TRUE
  /\ promoted = 0 /\ dry = {} /\ quiet = TRUE

-----------------------------------------------------------------------------
(* The producer: the top of an iteration.                                  *)

\* Mutant: a burst worker that takes a look at some lane for a look at all.
AnyLane(c, r) == c > 0 /\ \E l \in Lanes : r[l] > 0

EveryLane(c, r) == c > 0 /\ \A l \in Lanes : r[l] > 0

Top ==
  /\ step = "top"
  /\ IF cancel
     THEN step' = "left" /\ UNCHANGED <<reader, everyLane, none, quiet>>
     ELSE LET c == AtLeastZero(permits)
              r == [l \in Lanes |-> AtLeastZero(Limits[l] - held[l])]
          IN /\ step' = IF c > 0 /\ \E l \in Lanes : r[l] > 0 THEN "claim" ELSE "wait"
             /\ count' = c /\ left' = c /\ room' = r /\ everyLane' = EveryLane(c, r)
             /\ lane' = 1 /\ batch' = << >> /\ dry' = {} /\ none' = TRUE /\ quiet' = TRUE
             /\ UNCHANGED <<picks, open, credit>>
  /\ UNCHANGED <<redis, permits, held, channel, consumer, cancel, promoted>>

\* No permit or no lane with room: wait for a finished task, 50 ms or a stop.
Wait ==
  /\ step = "wait"
  /\ \/ cancel /\ step' = "left"
     \/ step' = "send"
  /\ UNCHANGED <<redis, permits, held, channel, consumer, cancel, reader, flags, quiet>>

-----------------------------------------------------------------------------
(* The producer: read_batch, one XAUTOCLAIM or XREADGROUP at a time.       *)

Copies(l, n) == [i \in 1..n |-> l]

\* The sum of the first k weights.
SumTo[k \in 0..NumLanes] == IF k = 0 THEN 0 ELSE SumTo[k - 1] + Weights[k]

\* Where read_batch returns to: what it read is sent, or the blocking read waits.
Returned(msgs) == IF msgs = << >> THEN "block" ELSE "send"

\* Strict: the next lane, if there are more to read.
NextLane ==
  \/ lane < NumLanes /\ left' > 0 /\ step' = "claim" /\ lane' = lane + 1
  \/ (lane = NumLanes \/ left' = 0) /\ step' = Returned(batch') /\ UNCHANGED lane

\* A read took `got` of lane l when it had asked for `ask`.
Took(l, ask, got) ==
  /\ batch' = batch \o Copies(l, got)
  /\ room' = [room EXCEPT ![l] = @ - got]
  /\ dry' = IF got < ask THEN dry \cup {l} ELSE dry \ {l}

\* Reclaims go first: lane after lane when weighted, each before the lane's new
\* entries when strict.
Claim ==
  LET take == Least(left, room[lane])
      got == Least(take, idle[lane])
  IN
  /\ step = "claim"
  /\ Took(lane, take, got)
  /\ idle' = [idle EXCEPT ![lane] = @ - got]
  /\ \/ /\ Weighted /\ lane < NumLanes
        /\ step' = "claim" /\ lane' = lane + 1 /\ left' = left - got
     \/ /\ Weighted /\ lane = NumLanes /\ left = got
        /\ step' = "send" /\ left' = 0
        /\ UNCHANGED lane
     \/ /\ Weighted /\ lane = NumLanes /\ left > got
        /\ step' = "pick" /\ lane' = 1 /\ left' = left - got
     \/ /\ ~Weighted /\ left' = left - got
        /\ \/ got < take /\ step' = "new" /\ UNCHANGED lane
           \/ got = take /\ NextLane
  /\ UNCHANGED <<waiting, due, permits, held, channel, consumer, cancel, count,
                 picks, open, credit, flags, quiet>>

\* The lane with most credit, the higher lane on a tie.
Richest(c) == {l \in Lanes : \A m \in Lanes : c[m] < c[l] \/ (c[m] = c[l] /\ l <= m)}

\* Mutant: the credit is not kept from one pick to the next.
SpendNothing(earned, l) == credit

\* The lane picked pays what all lanes have earned.
Spend(earned, l) == [earned EXCEPT ![l] = @ - SumTo[NumLanes]]

\* Weighted: one pick of the smooth round robin that hands out the reads left.
Pick ==
  LET earned == [l \in Lanes |-> credit[l] + Weights[l]] IN
  /\ step = "pick"
  /\ \E l \in Richest(earned) :
       /\ picks' = Append(picks, l)
       /\ credit' = Spend(earned, l)
  /\ left' = left - 1
  /\ step' = IF left > 1 THEN "pick" ELSE "new"
  /\ UNCHANGED <<redis, permits, held, channel, consumer, cancel, count, room, open,
                 batch, lane, dry, flags, quiet>>

\* Strict: the rest of what the lane may still give.
NewStrict ==
  LET ask == Least(left, room[lane])
      got == Least(ask, waiting[lane])
  IN
  /\ step = "new" /\ ~Weighted
  /\ Took(lane, ask, got)
  /\ waiting' = [waiting EXCEPT ![lane] = @ - got]
  /\ left' = left - got
  /\ NextLane
  /\ UNCHANGED <<idle, due, permits, held, channel, consumer, cancel, count, picks,
                 open, credit, flags, quiet>>

\* Mutant: a lane that got less than its share keeps the difference.
KeepRest(l, got) == 0

\* What a lane could not use of its share goes to the others.
PassOn(l, got) == Count(picks, l) - got

\* Weighted, first pass: each lane its share; `left` collects the spare reads.
NewShare ==
  LET ask == Least(Count(picks, lane), room[lane])
      got == Least(ask, waiting[lane])
  IN
  /\ step = "new" /\ Weighted
  /\ Took(lane, ask, got)
  /\ waiting' = [waiting EXCEPT ![lane] = @ - got]
  /\ left' = left + PassOn(lane, got)
  /\ open' = IF got = ask /\ room[lane] > got THEN Append(open, lane) ELSE open
  /\ \/ lane < NumLanes /\ lane' = lane + 1 /\ UNCHANGED step
     \/ lane = NumLanes /\ step' = "spare" /\ UNCHANGED lane
  /\ UNCHANGED <<idle, due, permits, held, channel, consumer, cancel, count, picks,
                 credit, flags, quiet>>

\* Weighted, second pass: the spare reads, highest open lane first.
NewSpare ==
  LET l == Head(open)
      ask == Least(left, room[l])
      got == Least(ask, waiting[l])
  IN
  /\ step = "spare" /\ open # << >> /\ left > 0
  /\ Took(l, ask, got)
  /\ waiting' = [waiting EXCEPT ![l] = @ - got]
  /\ left' = left - got
  /\ open' = Tail(open)
  /\ UNCHANGED <<idle, due, permits, held, channel, consumer, cancel, step, count,
                 picks, credit, lane, flags, quiet>>

SpareDone ==
  /\ step = "spare" /\ (open = << >> \/ left = 0)
  /\ step' = Returned(batch)
  /\ UNCHANGED <<redis, permits, held, channel, consumer, cancel, reader, flags, quiet>>

-----------------------------------------------------------------------------
(* The producer: read_blocking, sending, promotion, the end.               *)

\* Mutants: one that wakes on lanes at their limit too; one that keeps all of it.
WakeOnAny(l) == waiting[l] > 0
KeepAll(ready) == ready

WakesOn(l) == room[l] > 0 /\ waiting[l] > 0
Keep(ready) == {l \in ready : Cardinality({m \in ready : m <= l}) <= count}

\* Sorted by lane, highest first.
InOrder(S) ==
  {b \in [1..Cardinality(S) -> S] : \A i, j \in DOMAIN b : i < j => b[i] < b[j]}

\* It wakes on one entry of every lane that has room and is not empty, keeps the
\* highest ones there were permits for and releases the others; or times out.
Block ==
  LET keep == Keep({l \in Lanes : WakesOn(l)}) IN
  /\ step = "block"
  /\ batch' \in InOrder(keep)
  /\ waiting' = [l \in Lanes |-> IF l \in keep THEN waiting[l] - 1 ELSE waiting[l]]
  /\ step' = "send"
  /\ UNCHANGED <<idle, due, permits, held, channel, consumer, cancel, count, left,
                 room, picks, open, credit, lane, dry, flags, quiet>>

\* Mutant: a message sent without taking its permit.
SendUncounted ==
  /\ step = "send" /\ batch # << >> /\ Len(channel) < Prefetch
  /\ held' = [held EXCEPT ![Head(batch)] = @ + 1]
  /\ channel' = Append(channel, Head(batch))
  /\ batch' = Tail(batch)
  /\ none' = FALSE
  /\ UNCHANGED <<redis, permits, consumer, cancel, step, lane, count, left, room, picks,
                 open, credit, dry, everyLane, promoted, quiet>>

\* A channel that is full makes the producer wait.
Send ==
  /\ step = "send" /\ batch # << >> /\ Len(channel) < Prefetch
  /\ permits' = permits - 1
  /\ held' = [held EXCEPT ![Head(batch)] = @ + 1]
  /\ channel' = Append(channel, Head(batch))
  /\ batch' = Tail(batch)
  /\ none' = FALSE
  /\ UNCHANGED <<redis, consumer, cancel, step, lane, count, left, room, picks, open,
                 credit, dry, everyLane, promoted, quiet>>

\* The locals of the read are out of scope from here.
AllSent ==
  /\ step = "send" /\ batch = << >>
  /\ step' = "promote" /\ lane' = 1 /\ promoted' = 0
  /\ count' = 0 /\ left' = 0 /\ room' = Zero /\ picks' = << >> /\ open' = << >>
  /\ dry' = {}
  /\ UNCHANGED <<redis, permits, held, channel, consumer, cancel, credit, batch,
                 everyLane, none, quiet>>

\* publish_delayed: one script per lane.
Promote ==
  /\ step = "promote"
  /\ promoted' = promoted + due[lane]
  /\ waiting' = [waiting EXCEPT ![lane] = @ + due[lane]]
  /\ due' = [due EXCEPT ![lane] = 0]
  /\ \/ lane < NumLanes /\ lane' = lane + 1 /\ UNCHANGED step
     \/ lane = NumLanes /\ step' = "check" /\ UNCHANGED lane
  /\ UNCHANGED <<idle, permits, held, channel, consumer, cancel, count, left, room,
                 picks, open, credit, batch, dry, everyLane, none, quiet>>

Drained == Burst /\ everyLane /\ none /\ promoted = 0 /\ permits >= Prefetch

Check ==
  /\ step = "check"
  /\ \/ Drained /\ cancel' = TRUE /\ step' = "left"
     \/ ~Drained /\ step' = "top" /\ UNCHANGED cancel
  /\ UNCHANGED <<redis, permits, held, channel, consumer, reader, flags, quiet>>

Stop ==
  /\ CanStop /\ ~cancel /\ cancel' = TRUE
  /\ UNCHANGED <<redis, permits, held, channel, consumer, step, reader, flags, quiet>>

\* Mutant: a stopped worker that waits for its channel to be emptied.
LeaveEmptied ==
  /\ step = "left" /\ freed = {} /\ \A s \in Slots : slot[s] = 0
  /\ channel = << >> /\ step' = "gone"
  /\ UNCHANGED <<redis, permits, held, channel, consumer, cancel, reader, flags, quiet>>

\* The consumers are gone too: what is left in the channel goes back to its stream.
Leave ==
  /\ step = "left" /\ freed = {} /\ \A s \in Slots : slot[s] = 0
  /\ waiting' = [l \in Lanes |-> waiting[l] + Count(channel, l)]
  /\ channel' = << >> /\ step' = "gone"
  /\ UNCHANGED <<idle, due, permits, held, consumer, cancel, reader, flags, quiet>>

-----------------------------------------------------------------------------
(* The consumers.                                                          *)

\* A stop wins over a message that waits in the channel.
TakeMsg(s) ==
  /\ ~cancel /\ slot[s] = 0 /\ s \notin freed /\ channel # << >>
  /\ slot' = [slot EXCEPT ![s] = Head(channel)]
  /\ channel' = Tail(channel)
  /\ UNCHANGED <<redis, permits, held, freed, cancel, step, reader, flags, quiet>>

\* Mutant: a consumer that gives its permit back and not its lane.
RunEndsHolding(s) ==
  /\ slot[s] # 0
  /\ slot' = [slot EXCEPT ![s] = 0]
  /\ freed' = freed \cup {s}
  /\ UNCHANGED <<redis, permits, held, channel, cancel, step, reader, flags, quiet>>

RunEnds(s) ==
  /\ slot[s] # 0
  /\ held' = [held EXCEPT ![slot[s]] = @ - 1]
  /\ slot' = [slot EXCEPT ![s] = 0]
  /\ freed' = freed \cup {s}
  /\ UNCHANGED <<redis, permits, channel, cancel, step, reader, flags, quiet>>

FreePermit(s) ==
  /\ s \in freed
  /\ permits' = permits + 1
  /\ freed' = freed \ {s}
  /\ UNCHANGED <<redis, held, channel, slot, cancel, step, reader, flags, quiet>>

-----------------------------------------------------------------------------
(* Everyone else: callers, time and the other workers.                     *)

Elsewhere == UNCHANGED <<permits, held, channel, consumer, cancel, step, reader, flags>>

Arrive(l) ==
  /\ waiting[l] + due[l] < MaxReady
  /\ waiting' = [waiting EXCEPT ![l] = @ + 1]
  /\ quiet' = FALSE
  /\ Elsewhere /\ UNCHANGED <<idle, due>>

\* A delayed task's time comes, or a task this worker ran is retried at once.
BecomeDue(l) ==
  /\ waiting[l] + due[l] < MaxReady
  /\ due' = [due EXCEPT ![l] = @ + 1]
  /\ quiet' = FALSE
  /\ Elsewhere /\ UNCHANGED <<waiting, idle>>

BecomeIdle(l) ==
  /\ FoldFunction(LAMBDA n, sum : n + sum, 0, idle) < MaxIdle
  /\ idle' = [idle EXCEPT ![l] = @ + 1]
  /\ quiet' = FALSE
  /\ Elsewhere /\ UNCHANGED <<waiting, due>>

\* Another worker reads, claims or promotes.
Taken(l) ==
  /\ \/ waiting[l] > 0 /\ waiting' = [waiting EXCEPT ![l] = @ - 1] /\ UNCHANGED <<idle, due, quiet>>
     \/ idle[l] > 0 /\ idle' = [idle EXCEPT ![l] = @ - 1] /\ UNCHANGED <<waiting, due, quiet>>
     \/ /\ due[l] > 0
        /\ due' = [due EXCEPT ![l] = 0] /\ waiting' = [waiting EXCEPT ![l] = @ + due[l]]
        /\ quiet' = FALSE /\ UNCHANGED idle
  /\ Elsewhere

-----------------------------------------------------------------------------

ProducerStep ==
  /\ \/ Top \/ Wait \/ Claim \/ Pick \/ NewStrict \/ NewShare \/ NewSpare \/ SpareDone
     \/ Block \/ Send \/ AllSent \/ Promote \/ Check \/ Leave
  /\ UNCHANGED config

ConsumerStep(s) ==
  /\ s \in config.slots
  /\ TakeMsg(s) \/ RunEnds(s) \/ FreePermit(s)
  /\ UNCHANGED config

Others ==
  /\ Stop \/ \E l \in Lanes : Arrive(l) \/ BecomeDue(l) \/ BecomeIdle(l) \/ Taken(l)
  /\ UNCHANGED config

Next == ProducerStep \/ Others \/ \E s \in Slots : ConsumerStep(s)

Spec == Init /\ [][Next]_vars

\* The producer and the consumers are tasks of one runtime, and a run ends.
Fairness == WF_vars(ProducerStep) /\ \A s \in Slots : WF_vars(ConsumerStep(s))

FairSpec == Spec /\ Fairness

-----------------------------------------------------------------------------
Number(l) == Cardinality({s \in Slots : slot[s] = l})
Busy == Cardinality({s \in Slots : slot[s] # 0}) + Cardinality(freed)

\* The counters say what the worker holds: no interleaving of the producer's and
\* the consumers' fetch_add and fetch_sub loses a permit or a lane's place, which
\* would shrink the worker for good (producer and consumer of worker.rs).
Balance ==
  step # "gone" =>
    /\ permits = Prefetch - Len(channel) - Busy
    /\ \A l \in Lanes : held[l] = Count(channel, l) + Number(l)

\* What was read and is not finished is never more than prefetch, so the channel
\* of that size never makes the producer wait with messages nobody can see
\* ("the two bounds agree", and worker.rs sends without looking at the stop).
WithinPrefetch == Len(batch) + Len(channel) + Busy <= Prefetch

\* A worker holds no more of a lane than its limit, running, prefetched or just
\* read, whichever of the three reads they came by.
LimitsKept ==
  \A l \in Lanes : Count(batch, l) + Count(channel, l) + Number(l) <= Limits[l]

\* A burst worker that leaves by itself leaves nothing: unless something became
\* ready in its last iteration, no lane has anything to read, claim or promote,
\* and the worker itself holds nothing.
BurstDrained ==
  step = "left" /\ ~CanStop =>
    /\ channel = << >> /\ Busy = 0
    /\ quiet => waiting = Zero /\ idle = Zero /\ due = Zero

\* Limits and weights never leave a permit unused while there is something to
\* read: when read_batch returns less than it was asked for, the last read of
\* every lane came back short, or the lane is at its limit.
NoneLeftBehind ==
  [][(/\ step \in {"claim", "new", "spare"} /\ step' \in {"send", "block"}
      /\ Len(batch') < count) =>
        \A l \in Lanes : room'[l] = 0 \/ l \in dry']_vars

\* No lane starves under weights: whatever arrives elsewhere, a lane that has
\* entries waiting gets one of them read again and again, or they run out.
NoLaneStarved ==
  \A l \in Lanes :
    []<>(~Weighted \/ waiting[l] = 0 \/ Count(batch, l) > 0 \/ idle # Zero \/ step = "gone")

\* A burst worker ends once the queue stays empty.
BurstEnds ==
  <>[](Burst /\ waiting = Zero /\ idle = Zero /\ due = Zero) => <>(step = "gone")

\* A stop is heard wherever the producer is, and ends the worker.
StopHeard == cancel ~> step = "gone"
=============================================================================

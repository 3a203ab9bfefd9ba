------------------------------ MODULE Delivery ------------------------------
(***************************************************************************)
(* Workers and callers of one ardiq queue, step by step, against the Redis *)
(* state of Broker.tla: a worker reads entries into its channel, its       *)
(* consumers take them one Redis command at a time, run the task and       *)
(* finish it; callers stage, abort, replay, delete and purge meanwhile.    *)
(* Workers crash, stop gracefully or lose a Redis command on the way.      *)
(***************************************************************************)
EXTENDS Broker, FiniteSets

CONSTANTS
  Workers,
  Slots,        \* consumer tasks of one worker: its concurrency
  Prefetch,     \* messages a worker holds at once
  MaxRetries,
  Lease,        \* whose entries outlive idle_timeout_ms (see MayBeIdle)
  FaultKinds,   \* which of AllFaults the environment may produce
  MaxFaults,    \* bound: faults in one behaviour
  NoSlot

AllFaults == {"crash", "stop", "redis", "lost_abort",
              "purge", "expire", "expire_result", "expire_marker"}

ASSUME DeliveryAssumption ==
  /\ Prefetch \in Nat /\ MaxRetries \in Nat /\ MaxFaults \in Nat
  /\ Lease \in {"held", "in_flight", "none"}
  /\ FaultKinds \subseteq AllFaults
  /\ NoEntry \notin Entry
  /\ NoSlot \notin Slots

Consumers == Workers \X Slots
WorkerOf(c) == c[1]

VARIABLES
  mode,        \* see Modes
  channel,     \* messages read and not yet taken by a consumer
  pc,          \* where each consumer is in run_task
  msg,         \* the entry it holds
  tries,       \* what INCR of the retry counter returned
  load,        \* the payload it fetched
  outcome,     \* what the executor returned
  inFlight,    \* RunState.in_flight: task id -> entry, what the heartbeat claims
  registered,  \* Ardiq._running: task id -> the slot whose run an abort cancels
  inbox,       \* abort publishes not yet handled by the worker's watcher
  faults       \* faults spent so far

workerVars == <<mode, channel, pc, msg, tries, load, outcome,
                inFlight, registered, inbox>>
slotVars == <<pc, msg, tries, load, outcome>>
vars == <<brokerVars, workerVars, faults>>

\* "closing": the producer failed.  "cancelled": stop() was called, the producer
\* is still in its last iteration.  "stopping": it has left, consumers finish.
Modes == {"up", "closing", "cancelled", "stopping", "down"}
Steps == {"idle", "counted", "marked", "fetched", "running", "ended", "discarding"}
Outcomes == {"none", "success", "failure", "dead", "retry", "aborted"}

WorkerTypeOK ==
  /\ mode \in [Workers -> Modes]
  /\ channel \in [Workers -> Seq(Entry)]
  /\ pc \in [Consumers -> Steps]
  /\ msg \in [Consumers -> Entry \cup {NoEntry}]
  /\ tries \in [Consumers -> Nat]
  /\ load \in [Consumers -> Nat]
  /\ outcome \in [Consumers -> Outcomes]
  /\ inFlight \in [Workers -> [Tasks -> Entry \cup {NoEntry}]]
  /\ registered \in [Workers -> [Tasks -> Slots \cup {NoSlot}]]
  /\ inbox \in [Workers -> SUBSET Tasks]
  /\ faults \in Nat
  /\ \A c \in Consumers : pc[c] # "idle" => msg[c] \in Entry

TypeOK == BrokerTypeOK /\ WorkerTypeOK

Init ==
  /\ BrokerInit
  /\ mode = [w \in Workers |-> "up"]
  /\ channel = [w \in Workers |-> <<>>]
  /\ pc = [c \in Consumers |-> "idle"]
  /\ msg = [c \in Consumers |-> NoEntry]
  /\ tries = [c \in Consumers |-> 0]
  /\ load = [c \in Consumers |-> 0]
  /\ outcome = [c \in Consumers |-> "none"]
  /\ inFlight = [w \in Workers |-> [t \in Tasks |-> NoEntry]]
  /\ registered = [w \in Workers |-> [t \in Tasks |-> NoSlot]]
  /\ inbox = [w \in Workers |-> {}]
  /\ faults = 0

-----------------------------------------------------------------------------
(* What a worker holds, and which delivered entries look idle to Redis.    *)

InChannel(w) == {channel[w][i] : i \in DOMAIN channel[w]}
Busy(w) == {c \in Consumers : WorkerOf(c) = w /\ pc[c] # "idle"}
Held(w) == InChannel(w) \cup {msg[c] : c \in Busy(w)}
Taking(w) == {c \in Busy(w) : pc[c] = "counted"}
InFlight(w) == {inFlight[w][t] : t \in Tasks} \ {NoEntry}

\* The producer only looks at the cancel token between two iterations, so one
\* that waits in a read when stop() comes still takes what the read returns.
Producing(w) == mode[w] \in {"up", "cancelled"}

\* Permits left: prefetch minus what was read and is not finished.
Permits(w) == Prefetch - Len(channel[w]) - Cardinality(Busy(w))

(***************************************************************************)
(* The heartbeat re-claims, every 0.9 * idle_timeout_ms, the entries in    *)
(* in_flight, which resets how long Redis sees them idle.  A delivered     *)
(* entry can be auto-claimed when it was idle for idle_timeout_ms.         *)
(*   "held":      no live worker ever holds an entry that long untouched   *)
(*   "in_flight": an entry may wait that long in a channel all of whose    *)
(*                consumers are busy, but from the moment one takes it a   *)
(*                beat reaches it in time                                  *)
(*   "none":      beats are late or fail too: any delivered entry may be   *)
(***************************************************************************)
Covered(w) ==
  CASE Lease = "held"      -> Held(w)
    [] Lease = "in_flight" ->
         InFlight(w) \cup {msg[c] : c \in Taking(w)}
           \cup (IF Cardinality(Busy(w)) = Cardinality(Slots) THEN {} ELSE InChannel(w))
    [] Lease = "none"      -> {}

MayBeIdle(e) ==
  /\ e \in pending
  /\ \A w \in Workers : mode[w] # "down" => e \notin Covered(w)

Fault(kind) ==
  /\ kind \in FaultKinds
  /\ faults < MaxFaults
  /\ faults' = faults + 1

-----------------------------------------------------------------------------
(* The producer of a worker.                                               *)

Receive(w, e) == channel' = [channel EXCEPT ![w] = Append(@, e)]

\* read_batch and read_blocking, one delivered entry at a time.
Read(w, e) ==
  /\ Producing(w) /\ Permits(w) > 0
  /\ ReadNew({e})
  /\ Receive(w, e)
  /\ UNCHANGED <<mode, slotVars, inFlight, registered, inbox, faults>>

\* read_blocking takes one entry per lane, whatever the permits, and keeps as
\* many as there were permits when the iteration began (others may be back by
\* now): several kept ones are Reads and an Overread.
Overread(w, e, extra) ==
  /\ Producing(w) /\ Permits(w) > 0
  /\ ReadAndHandBack(e, extra)
  /\ Receive(w, e)
  /\ UNCHANGED <<mode, slotVars, inFlight, registered, inbox, faults>>

\* XAUTOCLAIM: resets the idle time, leaves the entry in the PEL.
Claim(w, e) ==
  /\ Producing(w) /\ Permits(w) > 0
  /\ MayBeIdle(e)
  /\ Receive(w, e)
  /\ UNCHANGED <<brokerVars, mode, slotVars, inFlight, registered, inbox, faults>>

Promote(w, l, due) ==
  /\ Producing(w)
  /\ PublishDelayed(l, due)
  /\ UNCHANGED <<workerVars, faults>>

\* A Redis error ends the producer.  If it hit a read, entries may have been
\* delivered to a worker that never saw them.
ProducerError(w) ==
  /\ Producing(w)
  /\ Fault("redis")
  /\ \/ UNCHANGED brokerVars
     \/ \E es \in SUBSET stream : Cardinality(es) <= Permits(w) /\ ReadNew(es)
     \/ Permits(w) > 0 /\ \E e \in stream, extra \in SUBSET stream : ReadAndHandBack(e, extra)
  /\ mode' = [mode EXCEPT ![w] = IF mode[w] = "up" THEN "closing" ELSE "stopping"]
  /\ UNCHANGED <<channel, slotVars, inFlight, registered, inbox>>

ProducerExit(w) ==
  /\ mode[w] = "cancelled"
  /\ mode' = [mode EXCEPT ![w] = "stopping"]
  /\ UNCHANGED <<brokerVars, channel, slotVars, inFlight, registered, inbox, faults>>

-----------------------------------------------------------------------------
(* The consumers of a worker: run_task.                                    *)

\* A consumer forgets its message: run_task returns, in whatever way.
Free(c) ==
  /\ pc' = [pc EXCEPT ![c] = "idle"]
  /\ msg' = [msg EXCEPT ![c] = NoEntry]
  /\ tries' = [tries EXCEPT ![c] = 0]
  /\ load' = [load EXCEPT ![c] = 0]
  /\ outcome' = [outcome EXCEPT ![c] = "none"]
  /\ inFlight' = [inFlight EXCEPT ![WorkerOf(c)][msg[c].task] = NoEntry]

\* A cancelled worker takes nothing more from its channel; one whose producer
\* failed runs the channel empty.
CanTake(c) ==
  /\ mode[WorkerOf(c)] \in {"up", "closing"}
  /\ pc[c] = "idle"
  /\ channel[WorkerOf(c)] # <<>>

Take(c) ==
  LET e == Head(channel[WorkerOf(c)]) IN
  /\ CanTake(c)
  /\ IncrRetry(e.task)
  /\ channel' = [channel EXCEPT ![WorkerOf(c)] = Tail(@)]
  /\ pc' = [pc EXCEPT ![c] = "counted"]
  /\ msg' = [msg EXCEPT ![c] = e]
  /\ tries' = [tries EXCEPT ![c] = retry[e.task] + 1]
  /\ UNCHANGED <<mode, load, outcome, inFlight, registered, inbox, faults>>

\* incr_retry failed: the message is dropped and waits for a reclaim.
TakeError(c) ==
  LET e == Head(channel[WorkerOf(c)]) IN
  /\ CanTake(c)
  /\ Fault("redis")
  /\ IncrRetry(e.task) \/ UNCHANGED brokerVars
  /\ channel' = [channel EXCEPT ![WorkerOf(c)] = Tail(@)]
  /\ UNCHANGED <<mode, slotVars, inFlight, registered, inbox>>

\* An error of mark_running is logged and the task runs all the same.
Mark(c) ==
  /\ pc[c] = "counted"
  /\ \/ MarkRunning(msg[c].task) /\ UNCHANGED faults
     \/ UNCHANGED brokerVars /\ Fault("redis")
  /\ pc' = [pc EXCEPT ![c] = "marked"]
  /\ inFlight' = [inFlight EXCEPT ![WorkerOf(c)][msg[c].task] = msg[c]]
  /\ UNCHANGED <<mode, channel, msg, tries, load, outcome, registered, inbox>>

\* Mutant: the marker is not looked at.
FetchPayloadOnly(c) ==
  LET t == msg[c].task IN
  /\ pc[c] = "marked"
  /\ load' = [load EXCEPT ![c] = data[t]]
  /\ pc' = [pc EXCEPT ![c] = IF data[t] = 0 THEN "discarding" ELSE "fetched"]
  /\ UNCHANGED <<brokerVars, mode, channel, msg, tries, outcome, inFlight,
                 registered, inbox, faults>>

\* fetch_payload: the payload and the abort marker in one MULTI.
Fetch(c) ==
  LET t == msg[c].task IN
  /\ pc[c] = "marked"
  /\ load' = [load EXCEPT ![c] = data[t]]
  /\ \/ /\ data[t] = 0
        /\ pc' = [pc EXCEPT ![c] = "discarding"] /\ UNCHANGED outcome
     \/ /\ data[t] # 0 /\ marker[t]
        /\ pc' = [pc EXCEPT ![c] = "ended"]
        /\ outcome' = [outcome EXCEPT ![c] = "aborted"]
     \/ /\ data[t] # 0 /\ ~marker[t]
        /\ pc' = [pc EXCEPT ![c] = "fetched"] /\ UNCHANGED outcome
  /\ UNCHANGED <<brokerVars, mode, channel, msg, tries, inFlight, registered,
                 inbox, faults>>

\* _execute_task reaches the user's code, or turns an unknown task away, or fails
\* on a payload it cannot read.
Begin(c) ==
  /\ pc[c] = "fetched"
  /\ \/ /\ pc' = [pc EXCEPT ![c] = "running"]
        /\ registered' = [registered EXCEPT ![WorkerOf(c)][msg[c].task] = c[2]]
        /\ UNCHANGED outcome
     \/ /\ pc' = [pc EXCEPT ![c] = "ended"]
        /\ \E o \in {"dead", "failure"} : outcome' = [outcome EXCEPT ![c] = o]
        /\ UNCHANGED registered
  /\ UNCHANGED <<brokerVars, mode, channel, msg, tries, load, inFlight, inbox, faults>>

\* Mutant: the run stays registered after it ended.
EndKeepsRegistered(c, o) ==
  /\ pc' = [pc EXCEPT ![c] = "ended"]
  /\ outcome' = [outcome EXCEPT ![c] = o]
  /\ UNCHANGED registered

EndWith(c, o) ==
  /\ pc' = [pc EXCEPT ![c] = "ended"]
  /\ outcome' = [outcome EXCEPT ![c] = o]
  /\ registered' = [registered EXCEPT ![WorkerOf(c)][msg[c].task] = NoSlot]

\* "failure" is an executor that raised or returned something unreadable.
End(c, o) ==
  /\ pc[c] = "running"
  /\ o \in {"success", "failure", "retry", "dead"}
  /\ o = "retry" => tries[c] <= MaxRetries
  /\ o = "dead" => tries[c] > MaxRetries
  /\ EndWith(c, o)
  /\ UNCHANGED <<brokerVars, mode, channel, msg, tries, load, inFlight, inbox, faults>>

Finish(c) ==
  /\ pc[c] = "ended"
  /\ IF outcome[c] = "retry"
     THEN RetryLater(msg[c])
     ELSE Complete(msg[c], load[c], outcome[c] = "dead")
  /\ Free(c)
  /\ UNCHANGED <<mode, channel, registered, inbox, faults>>

DropExpired(c) ==
  /\ pc[c] = "discarding"
  /\ Discard(msg[c])
  /\ Free(c)
  /\ UNCHANGED <<mode, channel, registered, inbox, faults>>

\* The fetch, the discard or the final pipeline failed before Redis ran it.
Abandon(c) ==
  /\ pc[c] \in {"marked", "discarding", "ended"}
  /\ Fault("redis")
  /\ Free(c)
  /\ UNCHANGED <<brokerVars, mode, channel, registered, inbox>>

\* The abort watcher cancels the run registered under the published id, if any.
\* The task's code may catch the cancellation and go on.
Watch(w, t) ==
  /\ mode[w] # "down" /\ t \in inbox[w]
  /\ inbox' = [inbox EXCEPT ![w] = @ \ {t}]
  /\ \/ UNCHANGED <<pc, outcome, registered>>
     \/ /\ registered[w][t] # NoSlot
        /\ EndWith(<<w, registered[w][t]>>, "aborted")
  /\ UNCHANGED <<brokerVars, mode, channel, msg, tries, load, inFlight, faults>>

-----------------------------------------------------------------------------
(* A worker's life.                                                        *)

\* Everything in the worker's memory goes.
Vanish(w) ==
  LET mine(c) == WorkerOf(c) = w IN
  /\ mode' = [mode EXCEPT ![w] = "down"]
  /\ channel' = [channel EXCEPT ![w] = <<>>]
  /\ pc' = [c \in Consumers |-> IF mine(c) THEN "idle" ELSE pc[c]]
  /\ msg' = [c \in Consumers |-> IF mine(c) THEN NoEntry ELSE msg[c]]
  /\ tries' = [c \in Consumers |-> IF mine(c) THEN 0 ELSE tries[c]]
  /\ load' = [c \in Consumers |-> IF mine(c) THEN 0 ELSE load[c]]
  /\ outcome' = [c \in Consumers |-> IF mine(c) THEN "none" ELSE outcome[c]]
  /\ inFlight' = [inFlight EXCEPT ![w] = [t \in Tasks |-> NoEntry]]
  /\ registered' = [registered EXCEPT ![w] = [t \in Tasks |-> NoSlot]]
  /\ inbox' = [inbox EXCEPT ![w] = {}]

Crash(w) ==
  /\ mode[w] # "down"
  /\ Fault("crash")
  /\ Vanish(w)
  /\ UNCHANGED brokerVars

Stop(w) ==
  /\ mode[w] \in {"up", "closing"}
  /\ Fault("stop")
  /\ mode' = [mode EXCEPT ![w] = IF mode[w] = "up" THEN "cancelled" ELSE "stopping"]
  /\ UNCHANGED <<brokerVars, channel, slotVars, inFlight, registered, inbox>>

\* Mutant: a stopped worker that waits for its channel to run empty.
LeaveWhenEmpty(w) ==
  /\ Busy(w) = {}
  /\ mode[w] \in {"stopping", "closing"} /\ channel[w] = <<>>
  /\ UNCHANGED <<brokerVars, faults>>
  /\ Vanish(w)

\* Every consumer has returned: hand the rest of the channel back and go.  If
\* that fails, the entries wait for a reclaim.
Leave(w) ==
  /\ Busy(w) = {}
  /\ \/ mode[w] = "stopping"
     \/ mode[w] = "closing" /\ channel[w] = <<>>
  /\ \/ channel[w] # <<>> /\ Release(channel[w]) /\ UNCHANGED faults
     \/ channel[w] = <<>> /\ UNCHANGED <<brokerVars, faults>>
     \/ channel[w] # <<>> /\ UNCHANGED brokerVars /\ Fault("redis")
  /\ Vanish(w)

Start(w) ==
  /\ mode[w] = "down"
  /\ mode' = [mode EXCEPT ![w] = "up"]
  /\ UNCHANGED <<brokerVars, channel, slotVars, inFlight, registered, inbox, faults>>

-----------------------------------------------------------------------------
(* Callers, and time.                                                      *)

\* enqueue (one item) and enqueue_many: items with different ids.
Enqueue(now, later) ==
  /\ \A p, q \in now \cup later : p[2] = q[2] => p = q
  /\ now \cap later = {}
  /\ PublishTasks(now, later)
  /\ UNCHANGED <<workerVars, faults>>

\* PUBLISH reaches the workers that are alive now.
Abort(t) ==
  /\ AbortTask(t)
  /\ inbox' = [w \in Workers |-> IF mode[w] = "down" THEN {} ELSE inbox[w] \cup {t}]
  /\ UNCHANGED <<mode, channel, slotVars, inFlight, registered, faults>>

LoseAbort(w, t) ==
  /\ t \in inbox[w]
  /\ Fault("lost_abort")
  /\ inbox' = [inbox EXCEPT ![w] = @ \ {t}]
  /\ UNCHANGED <<brokerVars, mode, channel, slotVars, inFlight, registered>>

\* l is what replay read of an earlier letter at worst: any lane.
DeadLetter(t) ==
  /\ DeadDelete(t) \/ \E l \in Lanes : ReplayDead(t, l)
  /\ UNCHANGED <<workerVars, faults>>

Purge(l) ==
  /\ Fault("purge")
  /\ \E scheduled \in SUBSET delayed, waiting \in SUBSET Waiting :
       PurgeLane(l, scheduled, waiting)
  /\ UNCHANGED workerVars

Expire(t) ==
  /\ \/ Fault("expire") /\ ExpireData(t)
     \/ Fault("expire_result") /\ ExpireResult(t)
     \/ Fault("expire_marker") /\ ExpireMarker(t)
  /\ UNCHANGED workerVars

-----------------------------------------------------------------------------

ProducerStep(w) ==
  \/ \E e \in stream : \/ Read(w, e) \/ Claim(w, e)
                       \/ \E extra \in SUBSET stream : Overread(w, e, extra)
  \/ \E l \in Lanes, due \in SUBSET delayed : Promote(w, l, due)

ConsumerStep(c) ==
  \/ Take(c) \/ Mark(c) \/ Fetch(c) \/ Begin(c)
  \/ \E o \in Outcomes : End(c, o)
  \/ Finish(c) \/ DropExpired(c)

ConsumerFault(c) == TakeError(c) \/ Abandon(c)

WorkerFault(w) == ProducerError(w) \/ Crash(w) \/ Stop(w)

CallerStep ==
  \/ \E now, later \in SUBSET (Lanes \X Tasks) : Enqueue(now, later)
  \/ \E t \in Tasks : Abort(t) \/ DeadLetter(t) \/ Expire(t)
  \/ \E w \in Workers, t \in Tasks : LoseAbort(w, t)
  \/ \E l \in Lanes : Purge(l)

Next ==
  \/ \E w \in Workers : \/ ProducerStep(w) \/ WorkerFault(w)
                        \/ ProducerExit(w) \/ Leave(w) \/ Start(w)
                        \/ \E t \in Tasks : Watch(w, t)
  \/ \E c \in Consumers : ConsumerStep(c) \/ ConsumerFault(c)
  \/ CallerStep

Spec == Init /\ [][Next]_vars

(***************************************************************************)
(* Fairness.  A live worker's producer loop polls without end, and so do   *)
(* its consumers and its watcher; a task's run ends; a worker that went    *)
(* down is started again by whatever supervises it.  Nothing is assumed of *)
(* callers, of the TTLs or of faults.                                      *)
(***************************************************************************)
Fairness ==
  /\ \A w \in Workers : /\ WF_vars(ProducerStep(w))
                        /\ WF_vars(ProducerExit(w))
                        /\ WF_vars(Leave(w)) /\ WF_vars(Start(w))
                        /\ \A t \in Tasks : WF_vars(Watch(w, t))
  /\ \A c \in Consumers : WF_vars(ConsumerStep(c))

FairSpec == Spec /\ Fairness

-----------------------------------------------------------------------------
(* What holds whatever the timing and the faults.                          *)

\* Entries whose payload was gone when a consumer fetched it, and which that
\* consumer is about to discard.
Doomed == {msg[c] : c \in {d \in Consumers : pc[d] = "discarding"}}

\* An accepted task is never stranded: while its payload is stored, the id is in
\* a delayed set or in a stream entry that no consumer is about to discard, so
\* some worker will still come to it (publish_*.lua, retry_later, release and
\* discard never leave data without an entry, in any interleaving).
DataHasEntry == HasEntry(Doomed)

\* The invariant that makes the above inductive: an id still to be given is in no
\* channel and with no consumer, so an entry added now is not doomed.
HeldFresh ==
  /\ \A w \in Workers : \A e \in InChannel(w) : e.id < nextId
  /\ \A c \in Consumers : pc[c] # "idle" => msg[c].id < nextId

\* An abort cancels the run it was meant for: the run registered under an id is
\* that id's, and still in the user's code (the finally of _execute_task
\* deregisters it before anything else can await).
CancelsItsOwn ==
  \A w \in Workers, t \in Tasks : registered[w][t] # NoSlot =>
    /\ pc[<<w, registered[w][t]>>] = "running"
    /\ msg[<<w, registered[w][t]>>].task = t

IInv ==
  /\ TypeOK /\ NotCompleteWhileQueued /\ StreamFresh
  /\ HeldFresh /\ CancelsItsOwn /\ DataHasEntry

-----------------------------------------------------------------------------
(* What holds as long as no payload expires by itself and no worker holds  *)
(* an entry past the idle timeout (Lease = "held").                        *)

\* One piece of work per id: an id waits in one lane's delayed set or in one
\* stream entry, never two, and only while its payload is stored (dedup by SET
\* NX; retries, promotions, releases and replays move the entry, never copy it).
OneCopy ==
  \A t \in Tasks :
    /\ \A e, f \in EntriesOf(t) : e = f
    /\ \A l, m \in Lanes : <<l, t>> \in delayed /\ <<m, t>> \in delayed => l = m
    /\ IsDelayed(t) => EntriesOf(t) = {}
    /\ data[t] = 0 => EntriesOf(t) = {} /\ ~IsDelayed(t)

\* No task runs twice at a time: neither two workers nor two consumers of one
\* are between taking an entry and finishing it for the same id.
NoConcurrentRuns ==
  \A c, d \in Consumers : c # d /\ pc[c] # "idle" /\ pc[d] # "idle" =>
    msg[c].task # msg[d].task

\* The weaker half of it that the documentation promises of live workers: no two
\* consumers execute the user's code of one id at the same time.
NoTwoExecutions ==
  \A c, d \in Consumers : c # d /\ pc[c] = "running" /\ pc[d] = "running" =>
    msg[c].task # msg[d].task

\* No accepted task is dropped in silence: every incarnation of an id is still
\* stored, or it ended with its own outcome, abort or purge.
NoSilentDrop ==
  \A t \in Tasks : \A i \in 1..staged[t] : data[t] = i \/ <<t, i>> \in settled

\* result() never serves an earlier incarnation's outcome once a later one was
\* accepted.
ResultIsLatest == \A t \in Tasks : result[t] \in {0, staged[t]}

\* An abort that returned True is not forgotten before the task ends: as long as
\* the incarnation is stored, its marker is there for the next pickup to see.
AbortRemembered ==
  \A t \in Tasks : data[t] # 0 /\ <<t, data[t]>> \in aborted => marker[t]

\* A new incarnation starts with a clean slate, a full retry budget above all: an
\* id without a payload has no retry count and no abort marker.  Only a purge can
\* leave it in the running set: it drops an entry that a stopped worker handed
\* back unstarted, and never looks whether a crashed one had marked it running.
NoResidue ==
  \A t \in Tasks : data[t] = 0 =>
    /\ retry[t] = 0 /\ ~marker[t]
    /\ t \in running => "purge" \in FaultKinds

-----------------------------------------------------------------------------
(* What makes the above inductive.                                         *)

Timely == Lease = "held" /\ "expire" \notin FaultKinds

Distinct(s) == \A i, j \in DOMAIN s : s[i] = s[j] => i = j

\* A delivered entry is in one place: one channel, once, or with one consumer, of
\* a worker that is alive.  With OneCopy, so is the id.
OneOwner ==
  /\ \A w \in Workers :
       /\ Distinct(channel[w]) /\ InChannel(w) \subseteq pending
       /\ mode[w] = "down" => InChannel(w) = {}
       /\ \A v \in Workers \ {w} : InChannel(v) \cap InChannel(w) = {}
  /\ \A c \in Consumers : pc[c] # "idle" =>
       /\ msg[c] \in pending /\ mode[WorkerOf(c)] # "down"
       /\ \A w \in Workers : msg[c] \notin InChannel(w)
       /\ \A d \in Consumers \ {c} : pc[d] # "idle" => msg[d] # msg[c]

\* What a consumer fetched is what is stored for as long as it works on it.
LoadIsStored ==
  \A c \in Consumers :
    /\ pc[c] # "discarding"
    /\ pc[c] \in {"fetched", "running", "ended"} => load[c] = data[msg[c].task]

\* The books: an accepted incarnation has settled or is the stored one, the last.
Ledger ==
  /\ settled \cup aborted \subseteq Tasks \X (1..MaxStaged)
  /\ \A t \in Tasks :
       /\ staged[t] <= MaxStaged /\ data[t] \in {0, staged[t]}
       /\ \A i \in 1..MaxStaged :
            /\ <<t, i>> \in settled <=> i <= staged[t] /\ i # data[t]
            /\ <<t, i>> \in aborted => i <= staged[t]

\* An abort marker may expire while its task waits, unless that is ruled out.
AbortsKept == "expire_marker" \in FaultKinds \/ AbortRemembered

HeldInv ==
  /\ IInv /\ OneCopy /\ OneOwner /\ LoadIsStored
  /\ Ledger /\ ResultIsLatest /\ NoResidue /\ AbortsKept

\* Everything accepted ends: a stored incarnation settles, through crashes,
\* stops and lost commands, once these stop coming.
EverythingSettles ==
  \A t \in Tasks : \A i \in 1..MaxStaged :
    staged[t] = i ~> <<t, i>> \in settled

\* A stop ends: a cancelled worker finishes what it runs and leaves.
StopEnds ==
  \A w \in Workers : mode[w] \in {"cancelled", "stopping"} ~> mode[w] = "down"

\* No entry leaks: streams, delayed sets and running set end up empty.
QueueDrains == <>[](stream = {} /\ delayed = {} /\ running = {})
=============================================================================

# Verification of ardiq in TLA+

ardiq is a task queue on Redis: a Python package (`src/ardiq`) over a Rust core
(`src/core`), with Lua scripts that run inside Redis. This directory holds TLA+
models of it, the TLC configurations that check them on small instances, and
proofs, checked by TLAPS, for instances of every size.

## 1. The system

### Components, their state and their operations

| Component | State | Operations | Modelled in |
|---|---|---|---|
| Redis state and scripts (`queue.rs`, `scripts/*.lua`) | per lane a stream with a consumer group, a delayed set; per task id payload, retry count, abort marker, result, dead letter; the running set | the six Lua scripts, the MULTI pipelines `complete`, `retry_later`, `release`, `discard`, single commands | `Broker` |
| Consumers, shutdown, callers (`worker.rs`, `app.py`, `lib.rs`) | channel, `in_flight`, `_running`, where each consumer is in `run_task` | pickup, run, finish, stop, drain, release, crash; enqueue, abort, replay, delete, purge | `Delivery` |
| Producer loop (`worker.rs`, `read_batch`, `read_blocking`) | permits, held per lane, weights' credit, channel, cancel token | read (strict or weighted), blocking read, send, promote, burst exit | `WorkerLoop` |
| Heartbeat (`worker.rs:375`) | idle time of pending entries, health key | beat, retire | as the constant `Lease` of `Delivery` |
| Aborts (`abort_task.lua`, `_abort_watcher`) | marker, pub/sub, `_running` | abort, watch | `Broker`, `Delivery` |
| Dead letters (`app.py:877-905`, `cli.py:261-301`) | dead hash and index | count, list, get, replay, delete; `ardiq dlq` | `Broker`, `Delivery` (one step each), `Callers` (command by command) |
| Purge (`queue.rs:973`, `cli.py:334`) | - | count and ask, bound, chunks of `purge_lane.lua` | `Broker` (the script), `Callers` (the client) |
| Results, status | result keys, result channel | `await_result`, `status` | `Callers` |
| Cron (`app.py:541-576`, `cron.py`) | per worker the occurrence staged last and the last answer of the schedule; occurrences under deterministic ids | a pass: read the clock, check the last occurrence, stage the next; next and previous fire | `Cron`, `Schedule` |
| Supervisor, worker process (`cli.py:41-92,185-258`) | child processes, signals, exit codes | spawn, poll, stop; first and second signal, return, exit | `Processes` |
| Process executor (`process.py`) | child, pipe | start, receive, terminate, kill, join; answer, die with the parent | `Processes` |
| Testing mode (`testing.py`) | results, dead letters, what runs, asyncio tasks | enqueue, replay, delete, abort | `Inline` |
| Options, models, codec, metrics, doctor, banner | configuration, counters, output | | not modelled: no state that a decision of the queue depends on |

Everything meets in Redis. A caller's `enqueue` stores the payload with `SET NX`
and adds the id to a stream or a delayed set in one script. A worker's producer
reads entries into a bounded channel; each of its consumers takes one, counts the
attempt (`INCR`), marks the id running, fetches payload and abort marker, calls
the Python executor, and ends the entry with one pipeline. An entry that was
delivered and not acknowledged stays in the group's pending list and can be
claimed once it was idle for `idle_timeout_ms`; the heartbeat resets that time
for what is in `in_flight`. An abort leaves a marker and a publish: a watcher in
each worker cancels the run it has registered under the id.

A caller's `result(timeout)`, `status()`, `dlq` and `purge` are several commands each,
with everybody else's in between. `ardiq run --workers N` is a supervisor with N
worker processes; a worker runs a process task in a child of its own. Signals go from
the operator to the supervisor and on to the workers, terminations and kills from a
worker to its child, and deaths are noticed the other way round, by polling, by the
end of a pipe, or by a thread that watches the parent.

### What is hard

Every consumer is a sequence of separate Redis commands, with other workers,
callers and TTLs between any two of them; almost every key belongs to a task id
and not to one staging of it, and ids are reused (unique tasks, explicit ids,
crons, replays); workers die, stop and lose commands anywhere; the lease that
keeps one task from running twice depends on a timer; the burst exit, the limits
and the permits combine values read at different times. `PROJECT.json` lists
each hazard at its line.

### What makes it correct

- the queue keeps the promise of `Jobs`: an accepted job stays open until it settles,
  is executed by one worker at a time, is not started after its abort was accepted,
  and its id is accepted again only when it has settled (`JobsImplemented`);
- an accepted task is never lost, and ends (`DataHasEntry`, `EverythingSettles`,
  `QueueDrains`);
- an id is one piece of work, in the hands of one consumer at a time (`OneCopy`,
  `NoConcurrentRuns`);
- results, counters and aborts belong to the staging they were made for
  (`ResultIsLatest`, `NotCompleteWhileQueued`, `NoResidue`, `AbortRemembered`,
  `CancelsItsOwn`);
- what a call answers was true and complete: nobody sleeps through a result, a status
  was one at some moment, a dead letter is replayed or deleted once, a purge finds
  what waits and spares what comes (`NoLostWakeup`, `StatusWasTrue`,
  `EachLetterOnce`, `NothingToPurge`, `PurgeSparesNewWork`);
- no process runs on unnoticed: exit codes tell about workers, children end with
  their run or their worker, a stop ends, and a task is cut off only on a second
  request (`ExitTells`, `NoRunLeftBehind`, `ChildrenEnd`, `StopEnds`,
  `ForcedOnlyWhenAskedTwice`);
- inline mode never waits for itself (`EnqueueReturns`);
- a worker respects prefetch and limits, leaves no permit unused, starves no
  weighted lane, drains before a burst exit, and stops when told (`Balance`,
  `WithinPrefetch`, `LimitsKept`, `NoneLeftBehind`, `NoLaneStarved`,
  `BurstDrained`, `BurstEnds`, `StopHeard`, `StopEnds`);
- every occurrence of a cron is staged ahead of its time, runs once unless a pass is
  held up across its fire, at the right minute of a clock that changes, and does not
  pile up when coalesced
  (`NoneMissed`, `OncePerOccurrence`, `OnceADay`, `RateKept`, `OnePerWorker`).

## 2. The modules

**Broker** - one queue's Redis state and one operator per atomic operation on it.
Each accepted staging of an id is an *incarnation*, numbered from 1; the payload
is the number of the incarnation that stored it. Three history variables
(`staged`, `settled`, `aborted`) remember what was promised. An entry is
`[id, task, lane]`; entries added by one script share an `id`, so either may be
read first. The results index, health keys and the cron record are left out.

**Delivery** (EXTENDS Broker) - several workers and any callers. A worker has a
mode (`up`, `closing` after a producer error, `cancelled` after `stop()`,
`stopping` once the producer has left, `down`), a channel, `in_flight`, the runs
registered for aborts, an inbox of publishes, and consumers that step through

    idle -Take-> counted -Mark-> marked -Fetch-> fetched -Begin-> running -End-> ended -Finish-> idle
                                            \-> discarding -DropExpired-> idle

one Redis command at a time. Crash, Stop, a failed command, a lost publish, a
purge and the expiry of a payload, a result or a marker are faults: a run chooses
the kinds (`FaultKinds`) and how many (`MaxFaults`). Time is abstracted to which
delivered entries may look idle (`MayBeIdle`):

- `Lease = "held"`: nothing a live worker holds ever does (heartbeats in time);
- `Lease = "in_flight"`: what waits in the channel of a worker whose consumers
  are all busy may, what a consumer has taken may not: the code as it is, with
  heartbeats in time;
- `Lease = "none"`: any delivered entry may, at any time.

**Jobs** - the abstract specification: what a queue promises its callers, without
streams, workers or keys. A job is one accepted staging of an id and is `none`,
`open`, `running` or `settled`. **DeliveryJobs** (EXTENDS Delivery) has the
refinement mapping: a job runs while a consumer that fetched its payload is in
the executor, is settled when history says so, and is open from its acceptance
otherwise. `JobsImplemented` is `Jobs!Spec` under this mapping. Two consumers that
execute one job would map to one `running`, so `NoConcurrentRuns` is checked as well.

**Callers** (EXTENDS Delivery) - one call of several Redis commands, begun at any
moment; everybody else's steps are those of `Delivery`, every one of them, other
callers' purges and the workers' faults included. `call` says which call it is,
which command comes next, and what it has read so far:

    result:  start -Subscribe-> subscribed -FirstRead-> waiting -WaitEnds-> woken -SecondRead-> done
    status:  start -AskStatus-> facts -Facts-> looking -LookInLane-> ... done
    dlq:     start -AskDlq-> [count -> list ->] each -GetDead-> got -Replay-> each ... done
    purge:   start -AskPurge-> [first <-> second -Confirm->] bound -NewestEntry-> left
             -CountDelayed-> chunks -Chunk-> ... next lane ... done

History variables record what the properties compare the answers with: what was true,
dropped or waiting since the call began, and how many letters were reported.

**WorkerLoop** - one worker's producer and consumers, with lanes as counters of
anonymous entries: `read_batch` command by command, strict or weighted (smooth
weighted round robin, one `Pick` at a time: `picks` is what it has handed out and
`Spend` what a pick costs its lane's credit), `read_blocking` and what it hands back,
`send` into the bounded channel, promotion lane by lane, the burst exit, and the
consumers' two counter updates as two steps. The worker's options (weights, limits,
number of consumers, burst, whether it is ever stopped) are the variable `config`,
chosen from `Configs` once. The environment adds, takes and
promotes entries at any moment. `count` is what the producer saw at the top of
an iteration, `left` what `read_batch` may still read. Locals are reset when they
go out of scope. A read and `read_blocking`'s release are one step here;
`Delivery` has the failure between the two (`ProducerError`).

**Schedule** - when a cron fires: intervals, and expressions read on a wall clock
whose offset changes once, with `_fires_at`'s rules for repeated and skipped
minutes. Pure operators; the fields of an expression that pick dates are left out.

**Cron** (EXTENDS Schedule) - the scheduler task of several workers, for one cron,
on a clock of minutes. A pass goes `asleep -Read-> asked -Clear-> cleared -Stage->
asleep`, or ends in `HoldBack` or `Fail`; a cron without coalesce goes from asked
to `Stage`. Promotion, execution, retries, aborts and purges of the occurrences,
crashes and restarts of the workers come in between. `Prompt` says that a pass
starts on time and ends in the minute it began, but for the minutes that a fault
takes away (`TickLate`). The crons of an app share only the
pass and its reading of the clock, so one is enough. Workers read one clock.

**Processes** - a supervisor, its workers, and a child for each worker in `Tasked`.
The supervisor goes `starting -> watching -> stopping -> ended`, a worker `booting -> up
-> stopping -> leaving -> exited` (or `forced`, `crashed`), a call of `run_in_process`
`waiting -> terminating -> killed -> joining -> over`, a child `running -> sent -> dead`.
Signals are sets of those sent and not yet handled: a pending one is not queued twice.
A CancelledError (a timeout at most once, aborts) meets the run at each of its awaits.
A child may handle SIGTERM itself (`stubborn`), crash, or end with its worker.
`Terminal` says whether a SIGINT comes from a terminal, which signals the workers too.

**Inline** - inline mode on one event loop: a step is what happens between two awaits
that suspend. Runs are numbered as they are made; `waits` says which run a test's
coroutine or a task's code awaits, which is also the way a cancellation goes.

**BrokerProofs**, **DeliveryProofs**, **HeldProofs**, **JobsProofs**,
**CallersProofs**, **LoopProofs**, **ProcessesProofs**, **CronProofs** - the
theorems (section 5). **MCDelivery**, **MCWorkerLoop**, **MCCron**, **MCCallers** -
symmetry sets, configurations, schedules and clock changes for TLC.

A definition whose comment begins with "Mutant" is a deliberately broken variant
of the definition after it, the way a plausible bug would break it. No model uses
one: for each property of each run, putting the named variant in the place of the
original must make TLC find a violation. This is how we know a property watches
the code it is about.

## 3. The runs

| Run | Question | Bounds |
|---|---|---|
| `delivery_ideal` | With leases held and no payload expiring, does Delivery implement Jobs, and is an id one piece of work that is never doubled or mixed up with an earlier staging? Is `HeldInv`, the invariant of the proofs, true? | 1 id staged twice, 2 lanes, 2 workers x 2 consumers, prefetch 2, 1 retry, 2 faults |
| `delivery_two_ids` | Do batches, hand-backs, releases and reclaims keep two ids apart? | 2 ids, 2 lanes, 2 workers x 1 consumer, prefetch 1, 1 fault |
| `delivery_any_timing` | What survives heartbeats that are late or fail, and every TTL? | 1 id staged twice, 2 workers, prefetch 1, 1 fault of any kind |
| `delivery_liveness` | Does everything end? | 1 id staged twice, 1 lane, 2 workers, prefetch 2, 1 retry, 1 fault |
| `prefetch_wait` | Do heartbeats in time keep two healthy workers from running one task? (no) | 2 ids, 2 workers x 1 consumer, prefetch 2 |
| `expire_drop` | Is nothing dropped when a payload expires? (no) | 1 id staged twice, one expiry |
| `loop` | Do permits, limits and shares add up, is no permit unused and no lane starved, does burst leave nothing behind and end, is a stop heard? | 2 lanes, one entry of each and one to claim in all, prefetch 2; a strict burst worker with 2 consumers and limit 1 on the top lane, and a weighted one (2:1) with 1 consumer, limit 1 on the low lane and stops |
| `cron` | Is every occurrence staged ahead of its time, and again after it ran only by a pass that was held up, whatever the schedule and the change of the clock? | 2 workers, days of 4 minutes, changes by 2 minutes at any minute of a day, 8 minutes, 1 fault: a crash, a failed pass, a minute's delay, a retry or a drop |
| `processes` | Do exit codes, signals and cancellations leave no process behind and nobody waiting? | 2 workers, one of them with a process task, 2 stop requests, 2 aborts and the timeout, 1 kill -9 |
| `ctrl_c` | Is a task cut off only when asked twice, from a terminal too? (no) | 2 workers, 1 request |
| `callers` | Is what a call of several commands answers true? | 2 ids, at most 2 stagings in all, 2 lanes, 1 worker, no retry, one expired result or one purge by somebody else, chunks of 1, other callers' enqueues, aborts, replays and deletes |
| `inline` | Does every inline enqueue come back? | 2 ids, 2 coroutines, 3 runs, 2 tries |

The bounds are the smallest at which the cases happen: two stagings are needed to
confuse incarnations, two workers to steal, two consumers of one worker for the maps
keyed by task id, two lanes to over-read, one fault plus what it leaves behind for every
recovery path, and two for a fault during recovery. One entry and one of its copies is
all that any deviation of `OneCopy` needs. In `WorkerLoop` two lanes against a prefetch
of two make every comparison (share against room, asked against got, woken against
permits) come out either way, and a lane refills while it is read. `Callers` follows one
call: other calls of the same kind are the atomic steps of `Delivery`, which race with
it at each of its commands; two letters make a list, one staged task behind another a
purge in two chunks, and with two lanes `status()` looks twice while a task may go or
change lanes by being staged again. In `Processes` two workers are a victim and a
sibling, and two aborts with a timeout are one cancellation more than the run survives.
Three runs are a cycle of two tasks and one more. In `Cron` the clock runs through the
changed day and the next time of day after it, and a worker polls several times in
between. `cron` takes `Prompt = TRUE` with one minute's delay among the faults: enough
for a pass that reads the clock, is held up while the occurrence comes due, runs and is
deleted, and then stages it again, which is the one way `OncePerOccurrence` leaves open;
`NoneMissed` needs a poll no longer than the period, which is what
`configuration.md:150-152` advises on short intervals. `CHECK_DEADLOCK FALSE` is set
where the system may stop: all stagings used up and the faults spent, all processes
gone, the clock at its bound, the call answered. `loop` keeps the deadlock check.

### Findings

- `prefetch_wait`: `architecture.md:129-130` says the heartbeat covers every
  message a worker holds, and `:71-74` that only a dead or wedged worker makes a
  task run twice. The heartbeat covers `in_flight`, where an entry arrives when a
  consumer takes it (`worker.rs:316`), not the prefetched ones. With a long task
  in front of it, a prefetched entry is claimed by another worker and run by both.
- `expire_drop`: `complete` deletes the payload by task id. When a payload with
  `expire_ms` expires while it runs and the id is staged again, the first run's
  completion deletes the second staging, which is discarded unrun.
- `ctrl_c`: the workers of `--workers N` stay in the supervisor's process group
  (`cli.py:208`), so a Ctrl-C in a terminal reaches each of them once by the terminal
  and once by the supervisor. The second signal means "exit at once"
  (`worker.md:84-86`): tasks that run are cut off, although `worker.md:170-171` offers
  Ctrl-C as the way to stop all workers. A `kill` of the supervisor is one signal.

### What else the models show

Seen while modelling, and not the subject of a run of its own:

- the abort marker lives for `result_ttl_ms` (`lib.rs:474`), not as long as the task:
  with `expire_marker` among the faults, an aborted task that waits longer starts
  after all and `JobsImplemented` fails;
- `recurring.md:144` says at most one occurrence of a coalesced cron waits. A
  scheduler asks only for the occurrence it remembers staging last (`app.py:566`), so
  two workers can leave two waiting. What holds is `OnePerWorker`;
- `cli.md:181-182` says that tasks enqueued while a purge runs are kept. A delayed
  task staged meanwhile with an earlier time than one that was there is dropped in its
  place (`queue.rs:1006` bounds by number), and a lane's bound is taken when the purge
  reaches the lane. `PurgeSparesNewWork` claims what is left: the stream of a lane,
  from that moment;
- a purge can leave an id in the running set for good: a worker crashes after
  `mark_running`, the entry is reclaimed into the channel of one that stops, handed back
  unstarted and then purged, and `purge_lane.lua` takes nothing out of that set. `status()`
  then answers `running` (`queue.rs:1136`), and `architecture.md:176` says the set holds
  the ids executing right now. `NoResidue` allows for it where purges are about;
- `recurring.md:156-157` says that an occurrence is never enqueued twice, by `SET NX`. The
  key it looks at goes when the occurrence has run: a pass that read the clock before
  the fire and stages after the run enqueues it again (`app.py:554-573`).
  `OncePerOccurrence` claims that this is the only way;
- `status()` says `queued` of a scheduled task that an abort or a purge took away
  between its reads, and which never was queued;
- `aborting.md:19` has a second `abort()` return False. `abort_task.lua` answers 1 again
  for a task that is still queued or running;
- `await_result` may time out early, when the id is staged again between the publish
  and its second read;
- a child of a run cancelled three times (timeout and two aborts) is left running, and
  one cancelled twice within `KILL_AFTER_S` is not killed;
- in inline mode two coroutines that enqueue one id at once both run it
  (`testing.py:53` looks before `_run` has registered the id), a second enqueue of a
  running id comes back before the result is there (contrary to the comment at
  `:93-94`), and an abort of a task that awaits an inline enqueue cancels the inner
  one, whereupon the task it was meant for goes on.

## 4. Fairness

`Delivery!Fairness`: a live worker's producer loop polls for ever (`worker.rs:210`),
its consumers and its watcher are tasks of the same runtimes and take their next
step, a task's run ends, a stopped worker's producer sees the token when its read
returns (`poll_block_ms`), and a worker that is down is started again by whatever
supervises it. Nothing is assumed of callers, TTLs or faults, which are bounded.
`WorkerLoop!Fairness`: the producer and each consumer take their next step.
`Processes!Fairness`: processes, event loops and reader threads get to run, a stopped
worker whose tasks are over returns, and the process task has a timeout that comes.
Nothing makes the task end, or heed SIGTERM, and nothing makes an unasked worker
return. `Inline!FairSpec`: the loop runs what is ready, and a task's code ends.
`NoLaneStarved` allows for reclaims that keep coming: the documentation
(`configuration.md:79`) puts them before the weights. All fairness is weak.

## 5. What is proved

Every safety property that a passing run checks is also a theorem, for any sets of
ids, lanes, workers and consumers and any bounds, under the named assumptions on the
constants of each module (TLC evaluates them in every run). A theorem with a further
hypothesis says so below; the passing runs of that property satisfy it too.

### One queue: `DeliveryProofs`, `HeldProofs`, `JobsProofs`

| Theorem | Property | Assuming |
|---|---|---|
| `Inductive`, `TypesHold` | `IInv`, with `TypeOK` | |
| `NothingStranded` | `DataHasEntry`: a stored payload always has a delayed entry, or a stream entry that no consumer is about to discard | |
| `NeverCompleteWhileQueued` | `NotCompleteWhileQueued` | |
| `AbortsCancelTheirOwn` | `CancelsItsOwn` | |
| `HeldInductive` | `HeldInv` | `Timely` |
| `NeverTwoCopies`, `OneRunAtATime` | `OneCopy`, `NoConcurrentRuns` | `Timely` |
| `LatestResult`, `CleanSlate` | `ResultIsLatest`, `NoResidue` | `Timely` |
| `NothingDropped` | `NoSilentDrop`, which `expire_drop` refutes by an expiry | `Timely` |
| `AbortsAreKept` | `AbortRemembered` | `Timely`, no marker expires |
| `ImplementsJobs` | `JobsImplemented`, step by step | `Timely`, no marker expires |

`Timely` is `Lease = "held"` and no expiry of a payload: heartbeats in time for
everything a worker holds. Crashes, stops, failed commands, lost publishes, purges and
expired results are allowed for. The finding `prefetch_wait` shows that the code alone
does not give `Lease = "held"`, so what is proved under it is what a lease in time would
buy, and the first four rows are what holds in any case.

`IInv`. `DataHasEntry` alone is not inductive. The delicate step is a
consumer that found the payload gone and is about to discard its entry: if the id
is staged again meanwhile, the new payload must have an entry of its own. It has
one because entry ids are never reused: `StreamFresh` says every entry in a stream
was numbered before `nextId`, `HeldFresh` that so was every entry in a channel or
with a consumer, hence the entry added with the new payload is not the doomed one.
Read and reclaim keep `HeldFresh` because what they take is in the stream.
`CancelsItsOwn` is what makes the watcher's step end a run of the right id, and
`TypeOK` types the rest. `BrokerProofs` has one lemma per broker operator, and each
step of `Next` is a case that cites them. `delivery_any_timing` checks `IInv`.

`HeldInv`. `NoConcurrentRuns` follows from two halves: an id has one entry (`OneCopy`),
and a delivered entry is in one place, a channel or a consumer's hands, of a worker
that is alive (`OneOwner`). Neither is inductive alone: that nothing is staged next to
a running task needs its payload stored, and what a consumer fetched to be what is
stored while it works on it (`LoadIsStored`); that a completion settles the right
incarnation needs the `Ledger`, by which an accepted incarnation has settled or is the
stored one, and the last. Each broker operator keeps the half about Redis (`Books`),
each worker step the half about owners; a step that touches another worker's entries
touches only what nobody owns (`Unowned`). `delivery_ideal` checks `HeldInv`.

`JobsImplemented`. The initial state maps to that of `Jobs`. `HeldInv` says which job a
consumer in the executor runs, so each of the worker's and the callers' operators maps
to one step of `Jobs` or to none; the refinement mapping is a function of the payloads
and of where the consumers are (`Stands`), which reduces most steps to the latter.

### Calls of several commands: `CallersProofs`

| Theorem | Property | Assuming |
|---|---|---|
| `CallsInductive`, `CallTypesHold` | `CallsInv`, with `CallTypeOK` | |
| `NobodySleepsThrough` | `NoLostWakeup` | |
| `LettersLeaveOnce` | `EachLetterOnce` | |
| `NothingIsOverlooked` | `NothingToPurge` | |
| `StatusAnswersTruly` | `StatusWasTrue` | `Timely` |
| `NewWorkIsSpared` | `PurgeSparesNewWork` | `Timely`, `"purge"` among the faults |

`CallsInv` adds to `IInv` what each phase of a call has in hand (`Phase`, `InHand`).
`EachLetterOnce` says of itself what it takes: an id's books are 1 exactly while it has
a letter, and a step of anybody's that removes a letter is the one that reports it.
`NothingToPurge` rests on the order of things: a group reads a lane in order
(`ReadInOrder`), so what waited all along while the lengths and then the pending lists
were counted was in the first count and cannot be in the second. `StatusInv` follows the
reads of `status()`: a task that was not running at the first read, and stays the same
staging, leaves the delayed sets only by a promotion, which makes it queued, or by being
dropped (`ChunkDrops`, `Drops`); `HeldInv` excludes that it is in two lanes. `BegunInv`
keeps which staging of an id is the last one from before a purge came to its lane.
`HeldInv` says which residue a purge may leave, and only where purges are faults of
`Delivery`; `NewWorkIsSpared`, in which the call is one itself, is stated there, and the
other theorems need `HeldInv` of no purging call (`Named`).

### A worker's producer: `LoopProofs`

| Theorem | Property |
|---|---|
| `LoopInductive`, `LoopTypes` | `LoopInv`, with `TypeOK` |
| `CountersTell`, `PrefetchBounds`, `LimitsAreKept` | `Balance`, `WithinPrefetch`, `LimitsKept` |
| `NobodyLeftBehind` | `NoneLeftBehind` (of every step) |
| `BurstLeavesNothing` | `BurstDrained` |

`Balance` makes the counters the sum of what is in the batch, the channel and the slots.
That no bound is passed needs what the producer may still read: it saw `count` permits
at the top of the iteration, consumers only add to them and to a lane's room, and every
read it still owes is covered by a permit (`ReadsLeft`) and by room in its lane
(`RoomLeft`). `NoneLeftBehind` needs `LanesSeen`: a lane that the pass is done with came
up short or is at its limit, or is still open to the spare reads while there are any.
The sum of the weights is a recursive function, and induction over data is out of reach;
where it is needed that the sum is a number, and that a set of lanes has a first one,
the argument is by the least counterexample, which the well-foundedness of inclusion
among finite sets gives. `BurstInv` follows the exit: a worker that nobody stops leaves
with all its permits back (`RunsToTheEnd`) and after an iteration with room in every
lane (`LooksEverywhere`), and what that iteration found empty is empty unless something
came since (`NothingFound`).

### Supervisor, workers and children: `ProcessesProofs`

| Theorem | Property | Assuming |
|---|---|---|
| `TypesHold` | `TypeOK` | |
| `RunsEndWithTheirChild` | `NoRunLeftBehind` | |
| `ExitTellsTheTruth` | `ExitTells` | |
| `ForcedOnlyTwice` | `ForcedOnlyWhenAskedTwice` | `~Terminal` |

A run leaves only by the join of a dead child, or by a
cancellation inside that join. `RunInv` counts: a run that is terminating was
cancelled once, one that is joining without an answer twice, so leaving a join
without an answer takes a third (`Paid`); a child whose pipe has ended is not
executing (`Silent`). `ExitInv`: a worker that is no longer polled has ended, and
when the supervisor leaves it polls none (`Seen`); a worker that exited by itself has no
child left (`Accompanied`); and while nobody asks for a stop, the supervisor stops
the others only after a death that it reports (`Unasked`).
`StopInv`: a worker that has been asked, or has a signal pending, owes that to a
stop of the supervisor (`Asked`), and the signals a worker has got so far are no more than
the rounds of signalling, of which there is one per request and one for a death
(`Rounds`). From a terminal a request makes two rounds, which is the finding.

### Cron: `CronProofs`

| Theorem | Property | Assuming |
|---|---|---|
| `CronTypes` | `TypeOK` | |
| `OneWaitsPerWorker` | `OnePerWorker` | |
| `RunsOnce` | `OncePerOccurrence` | |
| `StagedInTime` | `NoneMissed` | `Prompt`, `PollKeepsUp` |
| `EveryDateOnce`, `RatesRunOn` | `OnceADay`, `RateKept` | `Prompt`, `PollKeepsUp` |

`OnePerWorker`: what a worker staged and nobody has started is at most the occurrence
its dict remembers, and it still waits (`Remembered`); between the status check and the
staging the worker has nothing waiting and will stage what it remembers (`AboutToStage`,
by `FireStable`). `KnownInv`: the answer that `_Schedule` remembers is the next fire as
long as it is ahead (`AnswerHolds`), by `NextIsStable`. That the minimum in `CronNext`
exists is `SchedulesAssumption` (every two days hold a match; the code raises where five
years do not). `OncePerOccurrence`: what is staged lies ahead of the moment that its
pass read, remembered answer or not (`FireIs`), and what ran was due (`DueOnly`), so a
pass that stages it again has been overtaken by its fire. `NoneMissed`: a fault, a delay
too, puts out at most one worker, and one that nothing happened to is in time (`InTime`)
and has seen to every fire until it wakes (`Awake`, `OthersAwake`): the pass stages the
next, and the one after that is at least a poll later (`PollKeepsUp`, true of the
instance). `OnceADay` and `RateKept` then are about the schedule: what has come due is
what it fires at (`PassedAreFires`), a wall minute is served by one minute of real time
whether the change repeats or skips it (`ServedOnce`, `ServesInTime`, for a change by
any number of minutes), and a set of minutes that a shift maps to itself matches before
it if and only if after it (`ShiftedTimes`).

### Only model-checked

Liveness: `EverythingSettles`, `StopEnds`, `QueueDrains`, `NoLaneStarved`, `BurstEnds`,
`StopHeard`, `ChildrenEnd`, and `EnqueueReturns`, the only property of `Inline`. Fairness
and ENABLED are out of this prover's reach. That two days hold a match of an expression is
assumed of the schedules and evaluated by TLC.

## 6. What is not modelled, and why

- wall-clock time, but for `Cron`: due times, TTLs and idle times are nondeterministic, or `Lease`;
- `XAUTOCLAIM`'s bounded scan: a claim may take any idle entry;
- `enqueue_many` in chunks of 1000: one chunk is one step;
- in `Callers`: two calls of several commands at once, and the Redis connection itself;
  `info()`, which reads like `status()`. TLC's run leaves out crashes, stops, failed
  commands and retries during a call, which the theorems cover;
- in `Processes`: `--workers 1`, where `_run` serves without a supervisor, is a worker
  whose signals come from the operator; more than one process task per worker; log
  records in the pipe; a child that cannot be started;
- in `Inline`: the lifespan hook around the block, and what a task does when it is
  cancelled other than to end;
- configuration, models, codec, metrics, doctor, banner: no state, or state that no
  decision depends on;
- a duplicate id inside one batch: the first one wins, as if it were staged alone;
- a command whose reply is lost after Redis ran it, for `incr_retry`, reads and
  hand-backs it is modelled; for the final pipelines a lost reply is the same as
  success, since the worker only logs it;
- loss of Redis' own data, failover, and clients that write the keys themselves;
- a clock that goes back, or differs between workers; parsing of cron expressions,
  their dates, and the record of the last run;
- the user's code, middleware and hooks, except for how a run may end.

## 7. Plan

1. `HeartbeatLease`: beats, pickups and idle times on one clock: for which phases and
   how many late beats `Lease = "held"` is true of taken entries, which is the
   hypothesis `Timely` of the theorems.
2. `AbortRace`: the watcher's stale publish and the lost subscription; in `Cron` what
   becomes of an aborted occurrence, which the next pass stages again.
3. What of `OneOwner` survives `Lease = "in_flight"`: the entries that consumers have
   taken, for which the heartbeat does come.

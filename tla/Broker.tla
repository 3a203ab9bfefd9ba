------------------------------- MODULE Broker -------------------------------
(***************************************************************************)
(* What one ardiq queue keeps in Redis, and what each Lua script, MULTI    *)
(* pipeline or single command of the core does to it.  Redis runs each of  *)
(* them atomically, so each is one operator here.  Nothing in this module  *)
(* says who calls them or when: Delivery.tla does.                         *)
(*                                                                         *)
(* A task id is staged again and again over its life (unique calls,        *)
(* explicit ids, crons, replays).  Every accepted staging is a new         *)
(* incarnation of the id, numbered from 1, and the stored payload is       *)
(* abstracted to the number of the incarnation it was staged by.           *)
(***************************************************************************)
EXTENDS Integers, Sequences

CONSTANTS
  Tasks,         \* task ids
  Lanes,         \* priorities, each with a stream and a delayed set
  KeepResults,   \* FALSE when result_ttl is 0 and no result is stored
  MaxStaged,     \* bound: accepted stagings of one id
  NoLane, NoEntry

ASSUME BrokerAssumption ==
  /\ KeepResults \in BOOLEAN
  /\ MaxStaged \in Nat
  /\ NoLane \notin Lanes

VARIABLES
  stream,    \* entries of every lane's stream
  pending,   \* those delivered to the group and not acknowledged (the PEL)
  nextId,    \* the id the next XADD gives
  delayed,   \* the delayed sets, as <<lane, task>> pairs
  data,      \* task:data, the incarnation of the stored payload, 0 if none
  retry,     \* retry counter, 0 if absent
  marker,    \* abort marker present
  running,   \* the running set
  result,    \* the incarnation whose run the stored result is from, 0 if none
  dead,      \* the lane a dead letter would be replayed in, NoLane if none
  \* History, for the properties only.
  staged,    \* accepted stagings of each id, the latest incarnation
  settled,   \* <<task, incarnation>> pairs that ended in a way the caller may see
  aborted    \* <<task, incarnation>> pairs whose abort() returned True

queues  == <<stream, pending, nextId, delayed>>
keys    == <<data, retry, marker, running, result, dead>>
history == <<staged, settled, aborted>>
brokerVars == <<stream, pending, nextId, delayed, data, retry, marker,
                running, result, dead, staged, settled, aborted>>

\* XADD numbers entries in order.  Entries added by one script share a number
\* and are told apart by their task, so either may be read first.
Entry == [id : Nat, task : Tasks, lane : Lanes]

NewEntries(items) ==
  {[id |-> nextId, task |-> p[2], lane |-> p[1]] : p \in items}

EntriesOf(t) == {e \in stream : e.task = t}

\* Entries after the group's last-delivered id: not handed to any consumer yet.
Waiting == stream \ pending

IsDelayed(t) == \E l \in Lanes : <<l, t>> \in delayed

BrokerTypeOK ==
  /\ stream \subseteq Entry
  /\ pending \subseteq stream
  /\ nextId \in Nat
  /\ delayed \subseteq Lanes \X Tasks
  /\ data \in [Tasks -> Nat]
  /\ retry \in [Tasks -> Nat]
  /\ marker \in [Tasks -> BOOLEAN]
  /\ running \subseteq Tasks
  /\ result \in [Tasks -> Nat]
  /\ dead \in [Tasks -> Lanes \cup {NoLane}]
  /\ staged \in [Tasks -> Nat]
  /\ settled \subseteq Tasks \X Nat
  /\ aborted \subseteq Tasks \X Nat

BrokerInit ==
  /\ stream = {} /\ pending = {} /\ nextId = 1 /\ delayed = {}
  /\ data = [t \in Tasks |-> 0]
  /\ retry = [t \in Tasks |-> 0]
  /\ marker = [t \in Tasks |-> FALSE]
  /\ running = {}
  /\ result = [t \in Tasks |-> 0]
  /\ dead = [t \in Tasks |-> NoLane]
  /\ staged = [t \in Tasks |-> 0]
  /\ settled = {} /\ aborted = {}

-----------------------------------------------------------------------------
(* Producers' side: staging, promotion, replay.                            *)

\* The items SET NX accepts: those whose id has no stored payload.
Fresh(items) == {p \in items : data[p[2]] = 0}

\* Mutant: a staging that leaves the old result where it is.
ResetNothing(new) == result

Reset(new) == [t \in Tasks |-> IF t \in new THEN 0 ELSE result[t]]

\* publish_task and publish_tasks: items whose id has no stored payload are
\* staged, the others are dropped.  Every id that can be staged twice is staged
\* with reset = 1, so its old result goes.
PublishTasks(now, later) ==
  LET new == {p[2] : p \in Fresh(now \cup later)}
      bump(f, t) == IF t \in new THEN staged[t] + 1 ELSE f[t]
  IN /\ new # {}
     /\ \A t \in new : staged[t] < MaxStaged
     /\ data'    = [t \in Tasks |-> bump(data, t)]
     /\ staged'  = [t \in Tasks |-> bump(staged, t)]
     /\ result'  = Reset(new)
     /\ stream'  = stream \cup NewEntries(Fresh(now))
     /\ nextId'  = nextId + 1
     /\ delayed' = delayed \cup Fresh(later)
     /\ UNCHANGED <<pending, retry, marker, running, dead, settled, aborted>>

\* Mutant: the due tasks stay in the delayed set.
PromoteWithoutZrem(l, due) ==
  /\ due # {} /\ due \subseteq {p \in delayed : p[1] = l}
  /\ stream' = stream \cup NewEntries(due)
  /\ nextId' = nextId + 1
  /\ UNCHANGED <<pending, delayed, keys, history>>

\* publish_delayed, one lane: the due tasks, whichever these are by now.
PublishDelayed(l, due) ==
  /\ due # {}
  /\ due \subseteq {p \in delayed : p[1] = l}
  /\ delayed' = delayed \ due
  /\ stream' = stream \cup NewEntries(due)
  /\ nextId' = nextId + 1
  /\ UNCHANGED <<pending, keys, history>>

\* replay_dead: an id that is already queued covers the replay.  The lane l (and
\* the payload) are those of the dead letter the caller read before.
ReplayDead(t, l) ==
  /\ dead[t] # NoLane
  /\ dead' = [dead EXCEPT ![t] = NoLane]
  /\ IF data[t] # 0
     THEN UNCHANGED <<stream, nextId, data, result, staged>>
     ELSE /\ staged[t] < MaxStaged
          /\ data' = [data EXCEPT ![t] = staged[t] + 1]
          /\ staged' = [staged EXCEPT ![t] = staged[t] + 1]
          /\ result' = Reset({t})
          /\ stream' = stream \cup NewEntries({<<l, t>>})
          /\ nextId' = nextId + 1
  /\ UNCHANGED <<pending, delayed, retry, marker, running, settled, aborted>>

DeadDelete(t) ==
  /\ dead[t] # NoLane
  /\ dead' = [dead EXCEPT ![t] = NoLane]
  /\ UNCHANGED <<queues, data, retry, marker, running, result, history>>

-----------------------------------------------------------------------------
(* Consumers' side: one delivered entry e, and how it leaves.              *)

\* The oldest waiting entries of their lanes, the order Redis hands them out in.
Oldest(es) ==
  /\ es \subseteq Waiting
  /\ \A e \in es, f \in Waiting \ es : f.lane = e.lane => e.id <= f.id

\* XREADGROUP > : entries that nobody has been given yet.
ReadNew(es) ==
  /\ es # {}
  /\ Oldest(es)
  /\ pending' = pending \cup es
  /\ UNCHANGED <<stream, nextId, delayed, keys, history>>

\* Mutant: what is handed back keeps its old entry.
HandBackCopies(e, extra) ==
  /\ extra # {} /\ e \notin extra
  /\ \A f \in extra \cup {e} : Oldest({f})
  /\ stream' = stream \cup {[f EXCEPT !.id = nextId] : f \in extra}
  /\ pending' = pending \cup extra \cup {e}
  /\ nextId' = nextId + 1
  /\ UNCHANGED <<delayed, keys, history>>

\* read_blocking woke up on one entry of several lanes and has room for e only:
\* it releases the others, each to the end of its stream.
ReadAndHandBack(e, extra) ==
  /\ extra # {}
  /\ \A f \in extra \cup {e} : Oldest({f})
  /\ \A f, g \in extra \cup {e} : f # g => f.lane # g.lane
  /\ e \notin extra
  /\ stream' = (stream \ extra) \cup {[f EXCEPT !.id = nextId] : f \in extra}
  /\ pending' = pending \cup {e}
  /\ nextId' = nextId + 1
  /\ UNCHANGED <<delayed, keys, history>>

\* XACK and XDEL: no-ops on an entry that another worker removed first.
Acknowledge(es) ==
  /\ stream' = stream \ es
  /\ pending' = pending \ es

IncrRetry(t) ==
  /\ retry' = [retry EXCEPT ![t] = @ + 1]
  /\ UNCHANGED <<queues, data, marker, running, result, dead, history>>

MarkRunning(t) ==
  /\ running' = running \cup {t}
  /\ UNCHANGED <<queues, data, retry, marker, result, dead, history>>

\* Mutants: a complete pipeline that lacks one of its DELs or its SREM.
CompleteLacking(what, e, load, dies) ==
  LET t == e.task IN
  /\ Acknowledge({e})
  /\ running' = IF what = "running" THEN running ELSE running \ {t}
  /\ retry' = IF what = "retry" THEN retry ELSE [retry EXCEPT ![t] = 0]
  /\ data' = IF what = "data" THEN data ELSE [data EXCEPT ![t] = 0]
  /\ marker' = [marker EXCEPT ![t] = FALSE]
  /\ result' = IF KeepResults THEN [result EXCEPT ![t] = load] ELSE result
  /\ dead' = IF dies THEN [dead EXCEPT ![t] = e.lane] ELSE dead
  /\ settled' = settled \cup {<<t, load>>}
  /\ UNCHANGED <<nextId, delayed, staged, aborted>>

CompleteKeepsRunning(e, load, dies) == CompleteLacking("running", e, load, dies)
CompleteKeepsRetry(e, load, dies) == CompleteLacking("retry", e, load, dies)
CompleteKeepsData(e, load, dies) == CompleteLacking("data", e, load, dies)

\* The run of payload `load` ended for good; `dies` when it is dead-lettered.
Complete(e, load, dies) ==
  LET t == e.task IN
  /\ Acknowledge({e})
  /\ running' = running \ {t}
  /\ retry' = [retry EXCEPT ![t] = 0]
  /\ data' = [data EXCEPT ![t] = 0]
  /\ marker' = [marker EXCEPT ![t] = FALSE]
  /\ result' = IF KeepResults THEN [result EXCEPT ![t] = load] ELSE result
  /\ dead' = IF dies THEN [dead EXCEPT ![t] = e.lane] ELSE dead
  /\ settled' = settled \cup {<<t, load>>}
  /\ UNCHANGED <<nextId, delayed, staged, aborted>>

\* Mutants: a retry that is acknowledged and not scheduled; one that clears the
\* abort marker like a completion does.
RetryDropped(e) ==
  /\ Acknowledge({e})
  /\ running' = running \ {e.task}
  /\ UNCHANGED <<nextId, delayed, data, retry, marker, result, dead, history>>

RetryForgetsAbort(e) ==
  /\ Acknowledge({e})
  /\ running' = running \ {e.task}
  /\ delayed' = delayed \cup {<<e.lane, e.task>>}
  /\ marker' = [marker EXCEPT ![e.task] = FALSE]
  /\ UNCHANGED <<nextId, data, retry, result, dead, history>>

RetryLater(e) ==
  /\ Acknowledge({e})
  /\ running' = running \ {e.task}
  /\ delayed' = delayed \cup {<<e.lane, e.task>>}
  /\ UNCHANGED <<nextId, data, retry, marker, result, dead, history>>

\* Mutant: XADD of the copies without XACK and XDEL of the originals.
ReleaseCopies(msgs) ==
  /\ stream' = stream \cup {[msgs[i] EXCEPT !.id = nextId + i] : i \in DOMAIN msgs}
  /\ nextId' = nextId + Len(msgs) + 1
  /\ UNCHANGED <<pending, delayed, keys, history>>

\* Prefetched and never started: a copy of each goes to the end of its stream.
Release(msgs) ==
  /\ stream' = (stream \ {msgs[i] : i \in DOMAIN msgs})
                 \cup {[msgs[i] EXCEPT !.id = nextId + i] : i \in DOMAIN msgs}
  /\ pending' = pending \ {msgs[i] : i \in DOMAIN msgs}
  /\ nextId' = nextId + Len(msgs) + 1
  /\ UNCHANGED <<delayed, keys, history>>

\* Its payload was gone when the worker fetched it.
Discard(e) ==
  /\ Acknowledge({e})
  /\ running' = running \ {e.task}
  /\ retry' = [retry EXCEPT ![e.task] = 0]
  /\ marker' = [marker EXCEPT ![e.task] = FALSE]
  /\ UNCHANGED <<nextId, delayed, data, result, dead, history>>

-----------------------------------------------------------------------------
(* Aborts, purges and TTLs.                                                *)

Finished(t) == data[t] = 0 \/ result[t] # 0

\* abort_task, when it returns 1 (on a finished or unknown task it returns 0
\* and does nothing).  A task waiting in a delayed set only is settled here.
AbortTask(t) ==
  /\ ~Finished(t)
  /\ aborted' = aborted \cup {<<t, data[t]>>}
  /\ IF t \in running \/ ~IsDelayed(t)
     THEN /\ marker' = [marker EXCEPT ![t] = TRUE]
          /\ UNCHANGED <<delayed, data, retry, result, settled>>
     ELSE /\ delayed' = {p \in delayed : p[2] # t}
          /\ data' = [data EXCEPT ![t] = 0]
          /\ marker' = [marker EXCEPT ![t] = FALSE]
          /\ retry' = [retry EXCEPT ![t] = 0]
          /\ result' = IF KeepResults THEN [result EXCEPT ![t] = data[t]] ELSE result
          /\ settled' = settled \cup {<<t, data[t]>>}
  /\ UNCHANGED <<stream, pending, nextId, running, dead, staged>>

\* purge_lane, one chunk: some delayed tasks of the lane and its oldest
\* waiting entries.  (How big a chunk may be is left out.)
PurgeLane(l, scheduled, waiting) ==
  LET gone == {p[2] : p \in scheduled} \cup {e.task : e \in waiting} IN
  /\ gone # {}
  /\ scheduled \subseteq {p \in delayed : p[1] = l}
  /\ Oldest(waiting) /\ \A e \in waiting : e.lane = l
  /\ delayed' = delayed \ scheduled
  /\ stream' = stream \ waiting
  /\ data' = [t \in Tasks |-> IF t \in gone THEN 0 ELSE data[t]]
  /\ retry' = [t \in Tasks |-> IF t \in gone THEN 0 ELSE retry[t]]
  /\ marker' = [t \in Tasks |-> marker[t] /\ t \notin gone]
  /\ settled' = settled \cup {<<t, data[t]>> : t \in {u \in gone : data[u] # 0}}
  /\ UNCHANGED <<pending, nextId, running, result, dead, staged, aborted>>

\* expire_ms runs out: SET ... PX on the payload, never lifted by a pickup.
ExpireData(t) ==
  /\ data[t] # 0
  /\ data' = [data EXCEPT ![t] = 0]
  /\ settled' = settled \cup {<<t, data[t]>>}
  /\ UNCHANGED <<queues, retry, marker, running, result, dead, staged, aborted>>

ExpireResult(t) ==
  /\ result[t] # 0
  /\ result' = [result EXCEPT ![t] = 0]
  /\ UNCHANGED <<queues, data, retry, marker, running, dead, history>>

ExpireMarker(t) ==
  /\ marker[t]
  /\ marker' = [marker EXCEPT ![t] = FALSE]
  /\ UNCHANGED <<queues, data, retry, running, result, dead, history>>

-----------------------------------------------------------------------------
\* status() never answers `complete`, nor result() an earlier run's value, for a
\* task that is queued: no id has a stored payload and a stored result at once
\* (the reset of publish_task.lua and replay_dead.lua against complete and
\* abort_task.lua, which delete the payload with the same script).
NotCompleteWhileQueued == \A t \in Tasks : data[t] = 0 \/ result[t] = 0

\* A stored payload can still be reached through an entry that is not in D.
HasEntry(D) ==
  \A t \in Tasks : data[t] # 0 =>
    IsDelayed(t) \/ \E e \in EntriesOf(t) : e \notin D

\* XADD never reuses an id.
StreamFresh == \A e \in stream : e.id < nextId
=============================================================================

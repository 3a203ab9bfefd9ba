------------------------------ MODULE Callers ------------------------------
(***************************************************************************)
(* Calls that take several Redis commands, against the queue of            *)
(* Delivery.tla, whose workers and other callers go on between any two of  *)
(* them: Job.result(timeout), Job.status(), `ardiq dlq replay|delete` and  *)
(* `ardiq purge`.  One such call is followed per behaviour, begun at any   *)
(* moment; everybody else takes the steps of Delivery, every one of them:  *)
(* workers and their faults, other callers' purges, TTLs.                  *)
(***************************************************************************)
EXTENDS Delivery, SequencesExt

CONSTANTS
  PurgeChunk,   \* PURGE_CHUNK: entries, or delayed tasks, one script run drops
  MaxAccepted   \* bound: accepted stagings, all ids together

ASSUME CallersAssumption ==
  /\ PurgeChunk \in Nat \ {0} /\ MaxAccepted \in Nat
  /\ IsFiniteSet(Tasks) /\ IsFiniteSet(Lanes)  \* the ids in use, the priorities

VARIABLES
  call,     \* the call in progress, see Call
  \* History, for the properties only.
  heard,    \* result: whether the subscription got a publish
  truths,   \* status: what has been true, or happened, since the call began
  still,    \* purge: what has been waiting all the time since the call began
  begun,    \* purge: what had been staged when it looked for the lane's newest entry
  books     \* dead letters written minus those reported as replayed or deleted

callVars == <<vars, call, heard, truths, still, begun, books>>

Statuses == {"complete", "running", "not_found", "scheduled", "queued"}
Call ==
  [op     : {"none", "result", "status", "replay", "delete", "purge"},
   at     : {"start", "done",
             "subscribed", "waiting", "woken",              \* result
             "facts", "looking",                            \* status
             "count", "list", "each", "got",                \* dlq
             "first", "second", "bound", "left", "chunks"}, \* purge
   ids    : Seq(Tasks),             \* the ids it still has to look at, in order
   lanes  : SUBSET Lanes,           \* the lanes it still has to look at
   chosen : SUBSET Lanes,           \* purge: the lanes it was called for, while it counts
   lane   : Lanes \cup {NoLane},    \* of the dead letter read; the one being purged
   number : Nat,                    \* dead letters, entries, delayed tasks counted
   last   : Nat,                    \* purge: the newest entry of the lane
   answer : {"none", "value", "timeout", "missing", "some", "nothing"} \cup Statuses]

CallTypeOK ==
  /\ call \in Call
  /\ heard \in BOOLEAN /\ truths \subseteq Statuses \cup {"dropped"}
  /\ still \subseteq Lanes \X Tasks \X Nat
  /\ begun \in [Tasks -> Nat] /\ books \in [Tasks -> Int]

CallInit ==
  /\ Init
  /\ call = [op |-> "none", at |-> "start", ids |-> <<>>, lanes |-> {}, chosen |-> {},
             lane |-> NoLane, number |-> 0, last |-> 0, answer |-> "none"]
  /\ heard = FALSE /\ truths = {} /\ still = {}
  /\ begun = [t \in Tasks |-> 0] /\ books = [t \in Tasks |-> 0]

-----------------------------------------------------------------------------
(* What the properties remember of a step.                                 *)

\* What the keys say of an id when all of them are read at once.
TrueStatus(t) ==
  IF result[t] # 0 THEN "complete"
  ELSE IF t \in running THEN "running"
  ELSE IF data[t] = 0 THEN "not_found"
  ELSE IF IsDelayed(t) THEN "scheduled" ELSE "queued"

\* A scheduled task is scheduled even if the running mark of a crashed worker has
\* outlived the run it was for (see NoResidue).
Truths(t) == {TrueStatus(t)} \cup {s \in {"scheduled"} : IsDelayed(t)}

\* An abort or a purge takes a scheduled task away.
Drops(t) == IsDelayed(t) /\ data[t] # 0 /\ data'[t] = 0

\* What waits in some lanes: stream entries by their id, delayed tasks by 0.
Backlog(ls) ==
  {b \in {<<e.lane, e.task, e.id>> : e \in Waiting}
           \cup {<<p[1], p[2], 0>> : p \in delayed} : b[1] \in ls}

Remember ==
  /\ truths' = IF call'.op = "status" /\ call.at # "done"
               THEN truths \cup Truths(Head(call.ids))'
                           \cup {s \in {"dropped"} : Drops(Head(call'.ids))}
               ELSE truths
  /\ still' = IF call'.at = "done" THEN still
              ELSE IF call'.at \notin {"first", "second"} THEN {}
              ELSE IF call.op = "none" THEN Backlog(call.chosen)'
              ELSE still \cap Backlog(call.chosen)'
  /\ begun' = IF call'.at \notin {"left", "chunks"} THEN [t \in Tasks |-> 0]
              ELSE IF call.at = "bound" THEN staged ELSE begun

Counted(t, n) == books' = [books EXCEPT ![t] = @ + n]

\* await_result is subscribed from before its first read.
Listening == call.op = "result" /\ call.at \in {"subscribed", "waiting"}

\* complete and abort_task.lua publish on the result channel of the id.
Publishes(ts) == heard' = (heard \/ (Listening /\ Head(call.ids) \in ts))

-----------------------------------------------------------------------------
(* The steps of everybody else.                                            *)

FinishStep(c) ==
  LET t == msg[c].task IN
  /\ Finish(c)
  /\ Publishes(IF outcome[c] = "retry" THEN {} ELSE {t})
  /\ IF outcome[c] = "dead" /\ dead[t] = NoLane THEN Counted(t, 1) ELSE UNCHANGED books

AbortStep(t) ==
  /\ Abort(t)
  /\ Publishes({u \in {t} : KeepResults /\ t \notin running /\ IsDelayed(t)})
  /\ UNCHANGED books

DeadLetterStep(t) == DeadLetter(t) /\ Counted(t, -1) /\ Publishes({})

\* An item of any other id would be dropped, so a call with it is one without it.
Unknown == {t \in Tasks : data[t] = 0}

QuietStep ==
  /\ \/ \E w \in Workers :
          \/ ProducerStep(w) \/ WorkerFault(w) \/ ProducerExit(w) \/ Leave(w) \/ Start(w)
          \/ \E t \in Tasks : Watch(w, t) \/ LoseAbort(w, t)
     \/ \E c \in Consumers :
          \/ Take(c) \/ Mark(c) \/ Fetch(c) \/ Begin(c) \/ DropExpired(c)
          \/ ConsumerFault(c) \/ \E o \in Outcomes : End(c, o)
     \/ \E now, later \in SUBSET (Lanes \X Unknown) : Enqueue(now, later)
     \/ \E t \in Tasks : Expire(t)
     \/ \E l \in Lanes : Purge(l)
  /\ Publishes({}) /\ UNCHANGED books

\* Any step of Delivery, with what the properties remember of it.  Nothing is of
\* interest once the call has returned.
QueueStep ==
  /\ call.at # "done"
  /\ \/ QuietStep
     \/ \E c \in Consumers : FinishStep(c)
     \/ \E t \in Tasks : AbortStep(t) \/ DeadLetterStep(t)
  /\ Cardinality({s \in Tasks \X (1 .. MaxStaged) : staged'[s[1]] >= s[2]}) <= MaxAccepted
  /\ UNCHANGED call

\* A command of the call that changes nothing in Redis; one that does.
Reads == UNCHANGED <<vars, heard, books>>
Writes == UNCHANGED <<workerVars, faults, heard>>

-----------------------------------------------------------------------------
(* Job.result(timeout): await_result.                                      *)

Subscribe(t) ==
  /\ call.at = "start"
  /\ call' = [call EXCEPT !.op = "result", !.at = "subscribed", !.ids = <<t>>]
  /\ Reads

\* Mutant: waits for a publish without a look at what is stored already.
FirstReadLeftOut ==
  /\ call.at = "subscribed"
  /\ call' = [call EXCEPT !.at = "waiting"]
  /\ Reads

FirstRead ==
  /\ call.at = "subscribed"
  /\ call' = IF result[Head(call.ids)] # 0
             THEN [call EXCEPT !.at = "done", !.answer = "value"]
             ELSE [call EXCEPT !.at = "waiting"]
  /\ Reads

\* The next message of the subscription, or the timeout.
WaitEnds ==
  /\ call.at = "waiting"
  /\ call' = [call EXCEPT !.at = "woken"]
  /\ Reads

SecondRead ==
  /\ call.at = "woken"
  /\ call' = [call EXCEPT !.at = "done",
             !.answer = IF result[Head(call.ids)] # 0 THEN "value" ELSE "timeout"]
  /\ Reads

-----------------------------------------------------------------------------
(* Job.status(): one MULTI, then a ZSCORE per lane.                        *)

AskStatus(t) ==
  /\ call.at = "start"
  /\ call' = [call EXCEPT !.op = "status", !.at = "facts", !.ids = <<t>>, !.lanes = Lanes]
  /\ Reads

\* Mutant: the running set is not asked.
FactsButRunning ==
  LET t == Head(call.ids) IN
  /\ call.at = "facts"
  /\ call' = IF result[t] = 0 /\ data[t] # 0
             THEN [call EXCEPT !.at = "looking"]
             ELSE [call EXCEPT !.at = "done", !.answer = TrueStatus(t)]
  /\ Reads

Facts ==
  LET t == Head(call.ids) IN
  /\ call.at = "facts"
  /\ call' = IF result[t] = 0 /\ t \notin running /\ data[t] # 0
             THEN [call EXCEPT !.at = "looking"]
             ELSE [call EXCEPT !.at = "done", !.answer = TrueStatus(t)]
  /\ Reads

LookInLane(l) ==
  /\ call.at = "looking" /\ l \in call.lanes
  /\ call' = IF <<l, Head(call.ids)>> \in delayed
             THEN [call EXCEPT !.at = "done", !.answer = "scheduled"]
             ELSE IF call.lanes = {l} THEN [call EXCEPT !.at = "done", !.answer = "queued"]
             ELSE [call EXCEPT !.lanes = @ \ {l}]
  /\ Reads

-----------------------------------------------------------------------------
(* `ardiq dlq replay|delete`: the given ids, or --all.                     *)

DeadIds == {t \in Tasks : dead[t] # NoLane}

AskDlq(action) ==
  /\ call.at = "start"
  /\ call' \in {[call EXCEPT !.op = action, !.at = "count"]}
       \cup {[call EXCEPT !.op = action, !.at = "each", !.ids = s] :
               s \in UNION {SetToSeqs(ts) : ts \in SUBSET Tasks \ {{}}}}
  /\ Reads

CountDead ==
  /\ call.at = "count"
  /\ call' = [call EXCEPT !.at = "list", !.number = Cardinality(DeadIds)]
  /\ Reads

\* dead_letters(limit): the newest ones.  Which these are is left open.
ListDead ==
  /\ call.at = "list"
  /\ \E ts \in SUBSET DeadIds :
       /\ Cardinality(ts) = (IF Cardinality(DeadIds) < call.number
                            THEN Cardinality(DeadIds) ELSE call.number)
       /\ \E s \in SetToSeqs(ts) : call' = [call EXCEPT !.at = "each", !.ids = s]
  /\ Reads

DlqEnds ==
  /\ call.at = "each" /\ call.ids = <<>>
  /\ call' = [call EXCEPT !.at = "done"]
  /\ Reads

\* dead_get, for the payload and the lane.
GetDead ==
  LET t == Head(call.ids) IN
  /\ call.op = "replay" /\ call.at = "each" /\ call.ids # <<>>
  /\ call' = IF dead[t] = NoLane
             THEN [call EXCEPT !.ids = Tail(@), !.answer = "missing"]
             ELSE [call EXCEPT !.at = "got", !.lane = dead[t]]
  /\ Reads

\* Mutant: what the script answered is not looked at.
ReplayUnasked ==
  LET t == Head(call.ids) IN
  /\ call.at = "got"
  /\ call' = [call EXCEPT !.at = "each", !.ids = Tail(@)]
  /\ IF dead[t] = NoLane THEN UNCHANGED brokerVars ELSE ReplayDead(t, call.lane)
  /\ Counted(t, -1)
  /\ Writes

Replay ==
  LET t == Head(call.ids) IN
  /\ call.at = "got"
  /\ \/ /\ dead[t] = NoLane
        /\ call' = [call EXCEPT !.at = "each", !.ids = Tail(@), !.answer = "missing"]
        /\ UNCHANGED <<brokerVars, books>>
     \/ /\ ReplayDead(t, call.lane)
        /\ call' = [call EXCEPT !.at = "each", !.ids = Tail(@)]
        /\ Counted(t, -1)
  /\ Writes

Delete ==
  LET t == Head(call.ids) IN
  /\ call.op = "delete" /\ call.at = "each" /\ call.ids # <<>>
  /\ \/ /\ dead[t] = NoLane
        /\ call' = [call EXCEPT !.ids = Tail(@), !.answer = "missing"]
        /\ UNCHANGED <<brokerVars, books>>
     \/ /\ DeadDelete(t)
        /\ call' = [call EXCEPT !.ids = Tail(@)]
        /\ Counted(t, -1)
  /\ Writes

-----------------------------------------------------------------------------
(* `ardiq purge`: counts and asks, unless --yes; then lane by lane.        *)

AskPurge(ls, yes) ==
  /\ call.at = "start"
  /\ call' = [call EXCEPT !.op = "purge", !.at = IF yes THEN "bound" ELSE "first",
                         !.chosen = IF yes THEN {} ELSE ls, !.lanes = ls]
  /\ Reads

LaneLength(l)  == Cardinality({e \in stream : e.lane = l})
LanePending(l) == Cardinality({e \in pending : e.lane = l})
LaneDelayed(l) == Cardinality({p \in delayed : p[1] = l})

\* Mutant: the pending entries are counted before the stream.
PendingFirst == <<"pending", "length">>

\* overview(): XLEN and ZCARD of a lane, then its XPENDING.
CountOrder == <<"length", "pending">>

Count(what, l) == IF what = "length" THEN LaneLength(l) ELSE LanePending(l)

CountFirst(l) ==
  /\ call.at = "first" /\ l \in call.lanes
  /\ call' = [call EXCEPT !.at = "second", !.lane = l, !.number = Count(CountOrder[1], l),
                         !.answer = IF LaneDelayed(l) > 0 THEN "some" ELSE @]
  /\ Reads

CountSecond ==
  LET second == Count(CountOrder[2], call.lane)
      waiting == IF CountOrder[1] = "length" THEN call.number > second
                 ELSE second > call.number
  IN /\ call.at = "second"
     /\ call' = [call EXCEPT !.at = "first", !.lanes = @ \ {call.lane},
                            !.lane = NoLane, !.number = 0,
                            !.answer = IF waiting THEN "some" ELSE @]
     /\ Reads

\* "nothing to purge"; or the operator is asked.
Confirm ==
  /\ call.at = "first" /\ call.lanes = {}
  /\ call' \in IF call.answer = "none"
              THEN {[call EXCEPT !.at = "done", !.answer = "nothing"]}
              ELSE {[call EXCEPT !.at = "done"],
                    [call EXCEPT !.at = "bound", !.lanes = call.chosen, !.chosen = {},
                                !.answer = "none"]}
  /\ Reads

Newest(l) == Max({e.id : e \in {f \in stream : f.lane = l}} \cup {0})

\* XREVRANGE, then ZCARD.
NewestEntry(l) ==
  /\ call.at = "bound" /\ l \in call.lanes
  /\ call' = [call EXCEPT !.at = "left", !.lane = l, !.last = Newest(l)]
  /\ Reads

CountDelayed ==
  /\ call.at = "left"
  /\ call' = [call EXCEPT !.at = "chunks", !.number = LaneDelayed(call.lane)]
  /\ Reads

\* Mutant: every run of the script goes up to the end of the stream.
PurgeableUnbounded == {e \in Waiting : e.lane = call.lane}

\* The entries the script may drop: undelivered, and not after `last`.
Purgeable == {e \in Waiting : e.lane = call.lane /\ e.id <= call.last}

\* Mutant: the first chunk may be as large as any.
ScheduledUncounted == Min({PurgeChunk, LaneDelayed(call.lane)})

\* How many delayed tasks the script drops: not more than were counted.
ScheduledSize == Min({call.number, PurgeChunk, LaneDelayed(call.lane)})

\* One run of the script, until it drops nothing more.
Chunk ==
  LET waitingSize == Min({PurgeChunk, Cardinality(Purgeable)})
  IN /\ call.at = "chunks"
     /\ IF ScheduledSize + waitingSize = 0
        THEN /\ call' = [call EXCEPT !.at = IF call.lanes = {call.lane} THEN "done" ELSE "bound",
                                    !.lanes = @ \ {call.lane},
                                    !.lane = NoLane, !.number = 0, !.last = 0]
             /\ UNCHANGED brokerVars
        ELSE /\ \E scheduled \in SUBSET delayed, waiting \in SUBSET Purgeable :
                  /\ Cardinality(scheduled) = ScheduledSize
                  /\ Cardinality(waiting) = waitingSize
                  /\ PurgeLane(call.lane, scheduled, waiting)
             /\ call' = [call EXCEPT !.number = @ - ScheduledSize]
     /\ Writes /\ UNCHANGED books

-----------------------------------------------------------------------------
ResultStep == FirstRead \/ WaitEnds \/ SecondRead \/ \E t \in Tasks : Subscribe(t)

StatusStep ==
  \/ Facts
  \/ \E t \in Tasks : AskStatus(t)
  \/ \E l \in Lanes : LookInLane(l)

DlqStep ==
  \/ \E action \in {"replay", "delete"} : AskDlq(action)
  \/ CountDead \/ ListDead \/ GetDead \/ Replay \/ Delete \/ DlqEnds

PurgeStep ==
  \/ \E ls \in SUBSET Lanes \ {{}}, yes \in BOOLEAN : AskPurge(ls, yes)
  \/ \E l \in Lanes : CountFirst(l) \/ NewestEntry(l)
  \/ CountSecond \/ Confirm \/ CountDelayed \/ Chunk

CallNext ==
  /\ QueueStep \/ ResultStep \/ StatusStep \/ DlqStep \/ PurgeStep
  /\ Remember

CallSpec == CallInit /\ [][CallNext]_callVars

-----------------------------------------------------------------------------
\* A caller that waits for a result does not sleep through it: as soon as the
\* result is stored, its subscription has got a message (subscribe, then read, in
\* await_result, against complete and abort_task.lua, which store and publish at
\* once).
NoLostWakeup ==
  call.at = "waiting" /\ result[Head(call.ids)] # 0 => heard

\* status() reads twice and more, a MULTI and then a lane's delayed set after
\* another's, and still answers something that was true at some moment of the
\* call; except that it says `queued` of a scheduled task that an abort or a
\* purge took away between the reads and that never was queued.
StatusWasTrue ==
  call.op = "status" /\ call.at = "done" =>
    \/ call.answer \in truths
    \/ call.answer = "queued" /\ "dropped" \in truths

\* Every dead letter is reported as replayed or deleted once: by one of the
\* callers that race for it, and only when it has really left the dead letters.
EachLetterOnce == \A t \in Tasks : books[t] = IF dead[t] = NoLane THEN 0 ELSE 1

\* `ardiq purge` says "nothing to purge" only when nothing had been waiting all
\* along: the lengths and the pending entries are read one after the other, while
\* workers read and finish.
NothingToPurge == call.answer = "nothing" /\ call.at = "done" => still = {}

\* A purge drops no stream entry of a task that was enqueued after it had begun
\* with the lane, however long a busy producer keeps it running, and whatever
\* other purges drop meanwhile.  (It does drop such tasks from the delayed set,
\* which it bounds by their number only, and those that came to a later lane
\* while it purged an earlier one.)
PurgeSparesNewWork ==
  [][Chunk => \A e \in Waiting \ stream' : data[e.task] <= begun[e.task]]_callVars
=============================================================================

-------------------------------- MODULE Cron --------------------------------
(***************************************************************************)
(* The cron scheduler that every worker runs beside its core, for one      *)
(* cron, over the part of Redis it looks at.  A pass reads the clock, asks *)
(* the schedule for the next fire, with coalesce asks for the status of    *)
(* the occurrence it staged last, and stages the next one: three steps,    *)
(* with the passes of the other workers, promotion and execution in        *)
(* between.  An occurrence is named by its fire time, as its task id is.   *)
(*                                                                         *)
(* The crons of an app share a pass and its reading of the clock and       *)
(* nothing else; a pass that other crons slow down is one held up by       *)
(* TickLate.                                                               *)
(***************************************************************************)
EXTENDS Schedule, FiniteSets

CONSTANTS
  Workers,
  Schedules,   \* the schedules an app may have, one of which is picked
  Poll,        \* cron_poll_s
  Prompt,      \* TRUE: a pass starts on time and ends within the minute, but for "slow"
  Start,       \* the clock when the workers start
  Horizon,     \* bound: the clock stops here
  FaultKinds, MaxFaults,
  NoFire       \* no occurrence

ASSUME CronAssumption ==
  /\ Prompt \in BOOLEAN
  /\ Poll \in Nat \ {0} /\ MaxFaults \in Nat
  /\ Horizon \in Nat /\ Start \in 0 .. Horizon
  /\ NoFire \notin Int
  /\ IsFiniteSet(Workers)

\* The constructor refuses an interval that is not positive (here 0 is that of an
\* expression) and a scan without a match raises.  Bound: the occurrences kept
\* track of reach as far as an interval.
ASSUME SchedulesAssumption ==
  \A s \in Schedules :
    /\ s \in [every : 0 .. 2 * Day, times : SUBSET (0 .. Day - 1), fixed : BOOLEAN,
              zone : [at : Int, by : Int], coalesce : BOOLEAN]
    /\ s.every = 0 => \A t \in (Start - 2 * Day) .. Horizon :
                        \E u \in (t + 1) .. (t + 2 * Day) : FiresAt(s, u)

VARIABLES
  clock, schedule,
  status,    \* what Redis holds of each occurrence
  pc,        \* where each worker's scheduler is
  now,       \* the clock as its pass read it
  wake,      \* when its sleep ends
  last,      \* staged[cron_name]: the occurrence a coalesced cron staged last
  answer,    \* the schedule's last answer (_last)
  faults,
  \* History, for the properties only.
  ever,      \* occurrences staged at some time
  started,   \* occurrences that ran at some time
  held,      \* occurrences a pass held back behind an earlier one
  mine       \* those a worker staged that still wait for their first run

schedulers == <<pc, now, wake, last, answer>>
history == <<ever, started, held, mine>>
vars == <<clock, schedule, status, pc, now, wake, last, answer, faults,
          ever, started, held, mine>>

Occurrences == 0 .. (Horizon + 2 * Day)

\* _WAITING.  A finished occurrence and an unknown one are "none": neither waits.
Waiting == {"queued", "scheduled", "retry"}
StatusOf(o) == IF o \in Occurrences THEN status[o] ELSE "none"

TypeOK ==
  /\ clock \in Start .. Horizon
  /\ schedule \in Schedules
  /\ status \in [Occurrences -> Waiting \cup {"none", "running"}]
  /\ pc \in [Workers -> {"down", "asleep", "asked", "cleared"}]
  /\ now \in [Workers -> Start .. Horizon]
  /\ wake \in [Workers -> Start .. (clock + Poll)]
  /\ last \in [Workers -> Int \cup {NoFire}]
  /\ answer \in [Workers -> Occurrences \cup {NoFire}]
  /\ faults \in 0 .. MaxFaults
  /\ ever \subseteq Occurrences /\ started \subseteq ever
  /\ held \subseteq Occurrences
  /\ mine \in [Workers -> SUBSET ever]

Init ==
  /\ clock = Start
  /\ schedule \in Schedules
  /\ status = [o \in Occurrences |-> "none"]
  /\ pc = [w \in Workers |-> "asleep"]
  /\ now = [w \in Workers |-> Start]
  /\ wake \in [Workers -> Start .. (Start + Poll - 1)]
  /\ last = [w \in Workers |-> NoFire]
  /\ answer = [w \in Workers |-> NoFire]
  /\ faults = 0
  /\ ever = {} /\ started = {} /\ held = {}
  /\ mine = [w \in Workers |-> {}]

Fault(kind) ==
  /\ kind \in FaultKinds /\ faults < MaxFaults
  /\ faults' = faults + 1

-----------------------------------------------------------------------------
(* A pass.                                                                 *)

Read(w) ==
  /\ pc[w] = "asleep" /\ wake[w] <= clock
  /\ now' = [now EXCEPT ![w] = clock]
  /\ pc' = [pc EXCEPT ![w] = "asked"]
  /\ UNCHANGED <<clock, schedule, status, wake, last, answer, faults, history>>

\* Mutant: the remembered answer is given at the fire itself, too.
FireOutdated(w) ==
  IF schedule.every = 0 /\ answer[w] # NoFire /\ now[w] <= answer[w]
  THEN answer[w]
  ELSE NextAfter(schedule, now[w])

\* Any moment before the answer has the same answer.  (The clock never goes
\* back here, so the moment it was asked at is not kept.)
Fire(w) ==
  IF schedule.every = 0 /\ answer[w] # NoFire /\ now[w] < answer[w]
  THEN answer[w]
  ELSE NextAfter(schedule, now[w])

\* The occurrence whose status decides: a fresh worker takes the one that came
\* due last.
LastOf(w) ==
  IF last[w] # NoFire THEN last[w] ELSE PreviousBefore(schedule, Fire(w))

\* Mutant: seconds taken for milliseconds.
SleepInMs(w) ==
  /\ pc' = [pc EXCEPT ![w] = "asleep"]
  /\ wake' = [wake EXCEPT ![w] = clock + 1000 * Poll]

Sleep(w) ==
  /\ pc' = [pc EXCEPT ![w] = "asleep"]
  /\ wake' = [wake EXCEPT ![w] = clock + Poll]

HoldBack(w) ==
  /\ pc[w] = "asked" /\ schedule.coalesce
  /\ StatusOf(LastOf(w)) \in Waiting
  /\ last' = [last EXCEPT ![w] = LastOf(w)]
  /\ answer' = [answer EXCEPT ![w] = Fire(w)]
  /\ held' = held \cup ({Fire(w)} \ {LastOf(w)})
  /\ Sleep(w)
  /\ UNCHANGED <<clock, schedule, status, now, faults, ever, started, mine>>

\* Mutant: the occurrence about to be staged is not remembered.
ClearUnremembered(w) ==
  /\ pc[w] = "asked" /\ schedule.coalesce
  /\ StatusOf(LastOf(w)) \notin Waiting
  /\ last' = [last EXCEPT ![w] = NoFire]
  /\ answer' = [answer EXCEPT ![w] = Fire(w)]
  /\ pc' = [pc EXCEPT ![w] = "cleared"]
  /\ UNCHANGED <<clock, schedule, status, now, wake, faults, history>>

Clear(w) ==
  /\ pc[w] = "asked" /\ schedule.coalesce
  /\ StatusOf(LastOf(w)) \notin Waiting
  /\ last' = [last EXCEPT ![w] = Fire(w)]
  /\ answer' = [answer EXCEPT ![w] = Fire(w)]
  /\ pc' = [pc EXCEPT ![w] = "cleared"]
  /\ UNCHANGED <<clock, schedule, status, now, wake, faults, history>>

\* publish_task: SET NX, and ZADD with the fire time as score.
Store(w, o) ==
  IF StatusOf(o) = "none"
  THEN /\ status' = [status EXCEPT ![o] = "scheduled"]
       /\ ever' = ever \cup {o}
       /\ mine' = [mine EXCEPT ![w] = @ \cup {o}]
  ELSE UNCHANGED <<status, ever, mine>>

Stage(w) ==
  /\ pc[w] = "cleared" \/ (pc[w] = "asked" /\ ~schedule.coalesce)
  /\ Fire(w) \in Occurrences   \* bound: the occurrences kept track of
  /\ Store(w, Fire(w))
  /\ answer' = [answer EXCEPT ![w] = Fire(w)]
  /\ Sleep(w)
  /\ UNCHANGED <<clock, schedule, now, last, faults, started, held>>

\* status() or the staging raises: logged, and the next pass tries again.
Fail(w) ==
  /\ pc[w] \in {"asked", "cleared"}
  /\ Fault("redis")
  /\ last' = IF schedule.coalesce THEN [last EXCEPT ![w] = LastOf(w)] ELSE last
  /\ answer' = [answer EXCEPT ![w] = Fire(w)]
  /\ Sleep(w)
  /\ UNCHANGED <<clock, schedule, status, now, history>>

\* The worker ends, by a stop or a crash, and its scheduler's memory with it.
Crash(w) ==
  /\ pc[w] # "down"
  /\ Fault("crash")
  /\ pc' = [pc EXCEPT ![w] = "down"]
  /\ last' = [last EXCEPT ![w] = NoFire]
  /\ answer' = [answer EXCEPT ![w] = NoFire]
  /\ mine' = [mine EXCEPT ![w] = {}]
  /\ UNCHANGED <<clock, schedule, status, now, wake, ever, started, held>>

Restart(w) ==
  /\ pc[w] = "down"
  /\ pc' = [pc EXCEPT ![w] = "asleep"]
  /\ wake' = [wake EXCEPT ![w] = clock]
  /\ UNCHANGED <<clock, schedule, status, now, last, answer, faults, history>>

-----------------------------------------------------------------------------
(* What happens to an occurrence meanwhile.                                *)

Become(o, s) == status' = [status EXCEPT ![o] = s]
NoLongerMine(o) == mine' = [w \in Workers |-> mine[w] \ {o}]

\* Mutant: promotes what comes due by the next minute.
PromoteEarly(o) ==
  /\ (status[o] = "scheduled" /\ o <= clock + 1) \/ status[o] = "retry"
  /\ Become(o, "queued")
  /\ UNCHANGED <<clock, schedule, schedulers, faults, history>>

\* A retry has a due time of its own, any time after the failure.
Promote(o) ==
  /\ (status[o] = "scheduled" /\ o <= clock) \/ status[o] = "retry"
  /\ Become(o, "queued")
  /\ UNCHANGED <<clock, schedule, schedulers, faults, history>>

Begin(o) ==
  /\ status[o] = "queued"
  /\ Become(o, "running")
  /\ started' = started \cup {o}
  /\ NoLongerMine(o)
  /\ UNCHANGED <<clock, schedule, schedulers, faults, ever, held>>

Finish(o) ==
  /\ status[o] = "running"
  /\ Become(o, "none")
  /\ UNCHANGED <<clock, schedule, schedulers, faults, history>>

Retry(o) ==
  /\ status[o] = "running"
  /\ Fault("retry")
  /\ Become(o, "retry")
  /\ UNCHANGED <<clock, schedule, schedulers, history>>

\* An abort of a scheduled occurrence or retry, or a purge of a waiting one.
Drop(o) ==
  /\ status[o] \in Waiting
  /\ Fault("drop")
  /\ Become(o, "none")
  /\ NoLongerMine(o)
  /\ UNCHANGED <<clock, schedule, schedulers, ever, started, held>>

OnTime(w) == pc[w] = "down" \/ (pc[w] = "asleep" /\ clock < wake[w])

Tick ==
  /\ clock < Horizon
  /\ Prompt => \A w \in Workers : OnTime(w)
  /\ clock' = clock + 1
  /\ UNCHANGED <<schedule, status, schedulers, faults, history>>

\* A minute passes while w's pass is held up by its awaits or by a busy event loop:
\* a pass may read the clock before a fire and stage after it.
TickLate(w) ==
  /\ clock < Horizon
  /\ ~OnTime(w) /\ Fault("slow")
  /\ Prompt => \A v \in Workers \ {w} : OnTime(v)
  /\ clock' = clock + 1
  /\ UNCHANGED <<schedule, status, schedulers, history>>

Pass(w) == Read(w) \/ HoldBack(w) \/ Clear(w) \/ Stage(w)

Next ==
  \/ \E w \in Workers : Pass(w) \/ Fail(w) \/ Crash(w) \/ Restart(w) \/ TickLate(w)
  \/ \E o \in Occurrences :
       Promote(o) \/ Begin(o) \/ Finish(o) \/ Retry(o) \/ Drop(o)
  \/ Tick

Spec == Init /\ [][Next]_vars

-----------------------------------------------------------------------------
\* The pass that stages o began before o's fire and is still at it now.
Straddles(w, o) ==
  /\ pc[w] \in {"asked", "cleared"} /\ pc'[w] = "asleep"
  /\ now[w] < o /\ o <= clock

\* An occurrence that has run is staged again only by a pass that read the clock
\* before its fire and lasted past it, whichever workers staged, ran and dropped it
\* meanwhile: SET NX does not see a finished one (_enqueue_cron).
OncePerOccurrence ==
  [][\A o \in started :
       status[o] = "none" /\ status'[o] = "scheduled" =>
         \E w \in Workers : Straddles(w, o)]_vars

\* The fires every worker has had the time to see coming.
Expected(t) ==
  {o \in (Start + Poll) .. t : NextAfter(schedule, o - 1) = o}

\* One worker that stays up and does not fail is enough for every occurrence to
\* be staged before it is due, unless coalescing held it back (_cron_scheduler).
NoneMissed ==
  faults < Cardinality(Workers) => Expected(clock) \subseteq ever \cup held

\* With coalesce, what one worker staged and nobody has started is at most one
\* occurrence: it looks at its last before it stages the next (_cron_scheduler).
OnePerWorker ==
  schedule.coalesce => \A w \in Workers : Cardinality(mine[w]) <= 1

\* The latest minute the wall clock has shown by t.
Shown(zone, t) ==
  IF zone.at <= t /\ zone.by < 0 THEN Max({zone.at - 1, Wall(zone, t)}) ELSE Wall(zone, t)

\* The occurrences that stand for the wall minute m.
Serving(m, S) ==
  LET z == schedule.zone IN
  {o \in S : IF m \in Skipped(z, z.at) THEN o = z.at
             ELSE Wall(z, o) = m /\ ~Fold(z, o)}

Passed == {o \in ever : Start + Poll <= o /\ o <= clock}

\* Every date has its time of day exactly once, when the wall clock repeats an
\* hour and when it skips one, and nothing else fires (_fires_at).
OnceADay ==
  /\ schedule.every = 0 /\ schedule.fixed /\ ~schedule.coalesce
  /\ faults < Cardinality(Workers)
  =>
    LET due == {m \in (Shown(schedule.zone, Start + Poll - 1) + 1)
                        .. Shown(schedule.zone, clock) : Matches(schedule, m)}
    IN /\ \A m \in due : Cardinality(Serving(m, Passed)) = 1
       /\ Passed \subseteq UNION {Serving(m, Passed) : m \in due}

\* A rate keeps its interval through a change of the clock: when the change maps
\* its minutes to themselves, it fires at these minutes of UTC throughout (_fires_at).
RateKept ==
  /\ schedule.every = 0 /\ ~schedule.fixed /\ ~schedule.coalesce
  /\ faults < Cardinality(Workers)
  /\ {(m + schedule.zone.by) % Day : m \in schedule.times} = schedule.times
  => \A t \in (Start + Poll) .. clock : t \in Passed <=> t % Day \in schedule.times
=============================================================================

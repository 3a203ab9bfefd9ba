----------------------------- MODULE CronProofs -----------------------------
(***************************************************************************)
(* The properties of the cron scheduler, for every number of workers,      *)
(* every schedule, every fault and as long a time as one likes.            *)
(*                                                                         *)
(* OnePerWorker: what a worker staged and still waits for its first run is *)
(* the occurrence its scheduler remembers, and it remembers another one    *)
(* only after it saw that one not waiting.  OncePerOccurrence: a pass      *)
(* stages what is ahead of the moment it read, and what ran was due.       *)
(* NoneMissed: a worker that nothing happened to has seen to every         *)
(* fire until it wakes.  OnceADay and RateKept: then what was staged is    *)
(* what the schedule fires at, and the rest is arithmetic.                 *)
(***************************************************************************)
EXTENDS Cron, FiniteSetTheorems, WellFoundedInduction, TLAPS

\* What worker w staged and still waits is what its dict remembers.
Remembered(w) ==
  /\ mine[w] \subseteq {last[w]}
  /\ \A o \in mine[w] : o \in Occurrences /\ status[o] \in Waiting

\* Between the status check and the staging the worker owes nothing yet, and
\* will stage what it remembers.
AboutToStage(w) ==
  pc[w] = "cleared" => mine[w] = {} /\ last[w] = Fire(w)

Shapes ==
  /\ status \in [Occurrences -> Waiting \cup {"none", "running"}]
  /\ pc \in [Workers -> {"down", "asleep", "asked", "cleared"}]
  /\ DOMAIN last = Workers
  /\ DOMAIN answer = Workers
  /\ DOMAIN now = Workers
  /\ DOMAIN mine = Workers

\* A minute passes, on time for every worker or for all but one.
TimePasses == Tick \/ \E w \in Workers : TickLate(w)

\* It moves the clock and may use up a fault.
LEMMA OnlyTime ==
  ASSUME TimePasses
  PROVE  /\ clock < Horizon /\ clock' = clock + 1
         /\ UNCHANGED <<schedule, status, schedulers, history>>
         /\ faults' = faults \/ (faults < MaxFaults /\ faults' = faults + 1)
BY DEF TimePasses, Tick, TickLate, Fault

CronInv ==
  /\ Shapes
  /\ schedule.coalesce => \A w \in Workers : Remembered(w) /\ AboutToStage(w)

\* A step changes nothing that Remembered and AboutToStage say of w.
Undisturbed(w) ==
  UNCHANGED <<schedule, pc[w], now[w], last[w], answer[w], mine[w]>>

\* Asking the schedule again in the same pass gives the same fire.
LEMMA FireStable ==
  ASSUME NEW w \in Workers,
         UNCHANGED <<schedule, now[w]>>,
         answer'[w] = Fire(w)
  PROVE  Fire(w)' = Fire(w)
BY DEF Fire

\* A step that leaves w's pass and every status alone keeps what is said of w.
LEMMA Quiet ==
  ASSUME NEW w \in Workers, Undisturbed(w), UNCHANGED status,
         Remembered(w), AboutToStage(w)
  PROVE  Remembered(w)' /\ AboutToStage(w)'
BY DEF Undisturbed, Remembered, AboutToStage, Fire

\* A step of the queue on one occurrence leaves it waiting, or nobody's.
LEMMA QueueStep ==
  ASSUME NEW o \in Occurrences, NEW s \in Waiting \cup {"none", "running"},
         Shapes, Become(o, s),
         UNCHANGED <<schedule, schedulers>>,
         \/ s \in Waiting /\ UNCHANGED mine
         \/ status[o] = "running" /\ UNCHANGED mine
         \/ NoLongerMine(o),
         NEW w \in Workers, Remembered(w), AboutToStage(w)
  PROVE  Remembered(w)' /\ AboutToStage(w)'
<1>1. mine'[w] \subseteq mine[w]
  BY DEF NoLongerMine
<1>2. \A p \in mine'[w] : p \in Occurrences /\ status'[p] \in Waiting
  BY <1>1 DEF Remembered, Shapes, Become, NoLongerMine, Waiting
<1>3. Remembered(w)'
  BY <1>1, <1>2 DEF Remembered, schedulers
<1>4. AboutToStage(w)'
  BY <1>1 DEF AboutToStage, Fire, schedulers
<1> QED
  BY <1>3, <1>4

\* Nothing is staged when the workers start.
LEMMA InitHolds == Init => CronInv
BY DEF Init, CronInv, Shapes, Remembered, AboutToStage

\* Every step keeps the domains of the functions and the ranges of status and pc.
LEMMA ShapesKept == Shapes /\ [Next]_vars => Shapes'
<1> SUFFICES ASSUME Shapes, [Next]_vars PROVE Shapes'
  OBVIOUS
<1>1. ASSUME NEW w \in Workers, Pass(w) \/ Fail(w) \/ Crash(w) \/ Restart(w)
      PROVE  Shapes'
  BY <1>1 DEF Shapes, Pass, Read, HoldBack, Clear, Stage, Store, StatusOf, Sleep,
              Fail, Crash, Restart, Waiting, history
<1>2. ASSUME NEW o \in Occurrences,
             Promote(o) \/ Begin(o) \/ Finish(o) \/ Retry(o) \/ Drop(o)
      PROVE  Shapes'
  BY <1>2 DEF Shapes, Promote, Begin, Finish, Retry, Drop, Become, NoLongerMine,
              Waiting, history, schedulers
<1>3. CASE TimePasses \/ UNCHANGED vars
  BY <1>3, OnlyTime DEF Shapes, vars, schedulers, history
<1> QED
  BY <1>1, <1>2, <1>3 DEF Next, TimePasses

\* One step of a scheduler keeps what is said of every worker.
LEMMA SchedulerStep ==
  ASSUME NEW v \in Workers, CronInv, schedule.coalesce,
         Pass(v) \/ Fail(v) \/ Crash(v) \/ Restart(v)
  PROVE  \A w \in Workers : Remembered(w)' /\ AboutToStage(w)'
<1> TAKE w \in Workers
<1> USE DEF CronInv, Shapes
<1>0. Remembered(w) /\ AboutToStage(w)
  OBVIOUS
<1>1. CASE Read(v)
  <2>1. UNCHANGED <<schedule, last[w], mine[w], status>>
    BY <1>1 DEF Read, history
  <2>2. w = v => pc'[w] = "asked"
    BY <1>1 DEF Read
  <2>3. w # v => Undisturbed(w)
    BY <1>1, <2>1 DEF Read, Undisturbed, history
  <2>4. CASE w = v
    BY <1>0, <2>1, <2>2, <2>4 DEF Remembered, AboutToStage
  <2> QED
    BY <1>0, <2>1, <2>3, <2>4, Quiet
<1>2. CASE HoldBack(v)
  <2>1. UNCHANGED <<schedule, mine, status>>
    BY <1>2 DEF HoldBack
  <2>2. CASE w = v
    <3>1. pc'[w] = "asleep"
      BY <1>2, <2>2 DEF HoldBack, Sleep
    <3>2. mine[w] \subseteq {last'[w]}
      <4>1. CASE last[w] = NoFire
        BY <1>0, <4>1, CronAssumption DEF Remembered, Occurrences
      <4>2. CASE last[w] # NoFire
        BY <1>0, <1>2, <2>2, <4>2 DEF Remembered, HoldBack, LastOf
      <4> QED
        BY <4>1, <4>2
    <3> QED
      BY <1>0, <2>1, <3>1, <3>2 DEF Remembered, AboutToStage
  <2>3. CASE w # v
    <3>1. Undisturbed(w)
      BY <1>2, <2>1, <2>3 DEF HoldBack, Sleep, Undisturbed
    <3> QED
      BY <1>0, <2>1, <3>1, Quiet
  <2> QED
    BY <2>2, <2>3
<1>3. CASE Clear(v)
  <2>1. UNCHANGED <<schedule, mine, status, now>>
    BY <1>3 DEF Clear, history
  <2>2. CASE w = v
    <3>1. mine[w] = {}
      <4>1. CASE last[w] = NoFire
        BY <1>0, <4>1, CronAssumption DEF Remembered, Occurrences
      <4>2. CASE last[w] # NoFire
        <5>1. StatusOf(last[w]) \notin Waiting
          BY <1>3, <2>2, <4>2 DEF Clear, LastOf
        <5> QED
          BY <1>0, <5>1 DEF Remembered, StatusOf
      <4> QED
        BY <4>1, <4>2
    <3>2. Fire(w)' = Fire(w)
      BY <1>3, <2>1, <2>2, FireStable DEF Clear
    <3>3. last'[w] = Fire(w)
      BY <1>3, <2>2 DEF Clear
    <3> QED
      BY <2>1, <3>1, <3>2, <3>3 DEF Remembered, AboutToStage
  <2>3. CASE w # v
    <3>1. Undisturbed(w)
      BY <1>3, <2>1, <2>3 DEF Clear, Undisturbed
    <3> QED
      BY <1>0, <2>1, <3>1, Quiet
  <2> QED
    BY <2>2, <2>3
<1>4. CASE Stage(v)
  <2>1. CASE w = v
    <3>1. pc'[w] = "asleep" /\ last'[w] = Fire(w) /\ Fire(w) \in Occurrences
      BY <1>0, <1>4, <2>1 DEF Stage, Sleep, AboutToStage
    <3>2. mine'[w] \subseteq {Fire(w)}
      BY <1>0, <1>4, <2>1 DEF Stage, Store, AboutToStage
    <3>3. \A o \in mine'[w] : status'[o] \in Waiting
      BY <1>0, <1>4, <2>1, <3>1, <3>2 DEF Stage, Store, AboutToStage, Waiting
    <3> QED
      BY <3>1, <3>2, <3>3 DEF Remembered, AboutToStage
  <2>2. CASE w # v
    <3>1. Undisturbed(w)
      BY <1>4, <2>2 DEF Stage, Store, Sleep, Undisturbed
    <3>2. \A o \in mine[w] : status'[o] \in Waiting
      BY <1>0, <1>4 DEF Stage, Store, StatusOf, Remembered, Waiting
    <3> QED
      BY <1>0, <3>1, <3>2 DEF Undisturbed, Remembered, AboutToStage, Fire
  <2> QED
    BY <2>1, <2>2
<1>5. CASE Fail(v)
  <2>1. UNCHANGED <<schedule, mine, status>>
    BY <1>5 DEF Fail, history
  <2>2. CASE w = v
    <3>1. pc'[w] = "asleep"
      BY <1>5, <2>2 DEF Fail, Sleep
    <3>2. mine[w] \subseteq {last'[w]}
      <4>1. CASE last[w] = NoFire
        BY <1>0, <4>1, CronAssumption DEF Remembered, Occurrences
      <4>2. CASE last[w] # NoFire
        BY <1>0, <1>5, <2>2, <4>2 DEF Remembered, Fail, LastOf
      <4> QED
        BY <4>1, <4>2
    <3> QED
      BY <1>0, <2>1, <3>1, <3>2 DEF Remembered, AboutToStage
  <2>3. CASE w # v
    <3>1. Undisturbed(w)
      BY <1>5, <2>1, <2>3 DEF Fail, Sleep, Undisturbed
    <3> QED
      BY <1>0, <2>1, <3>1, Quiet
  <2> QED
    BY <2>2, <2>3
<1>6. CASE Crash(v)
  <2>1. CASE w = v
    BY <1>6, <2>1 DEF Crash, Remembered, AboutToStage
  <2>2. CASE w # v
    <3>1. Undisturbed(w) /\ UNCHANGED status
      BY <1>6, <2>2 DEF Crash, Undisturbed
    <3> QED
      BY <1>0, <3>1, Quiet
  <2> QED
    BY <2>1, <2>2
<1>7. CASE Restart(v)
  <2>1. UNCHANGED <<schedule, mine, status, now, last, answer>>
    BY <1>7 DEF Restart, history
  <2>2. CASE w = v
    BY <1>0, <1>7, <2>1, <2>2 DEF Restart, Remembered, AboutToStage
  <2>3. CASE w # v
    <3>1. Undisturbed(w)
      BY <1>7, <2>1, <2>3 DEF Restart, Undisturbed
    <3> QED
      BY <1>0, <2>1, <3>1, Quiet
  <2> QED
    BY <2>2, <2>3
<1> QED
  BY <1>1, <1>2, <1>3, <1>4, <1>5, <1>6, <1>7 DEF Pass

\* Every step of the specification keeps CronInv.
LEMMA StepKeeps == CronInv /\ [Next]_vars => CronInv'
<1> SUFFICES ASSUME CronInv, [Next]_vars PROVE CronInv'
  OBVIOUS
<1>1. Shapes'
  BY ShapesKept DEF CronInv
<1>2. schedule' = schedule
  BY OnlyTime DEF Next, TimePasses, Pass, Read, HoldBack, Clear, Stage, Fail, Crash,
                  Restart, Promote, Begin, Finish, Retry, Drop, vars
<1>3. ASSUME schedule.coalesce, NEW w \in Workers
      PROVE  Remembered(w)' /\ AboutToStage(w)'
  <2>0. Remembered(w) /\ AboutToStage(w) /\ Shapes
    BY <1>3 DEF CronInv
  <2>1. CASE \E v \in Workers : Pass(v) \/ Fail(v) \/ Crash(v) \/ Restart(v)
    BY <1>3, <2>1, SchedulerStep
  <2>2. ASSUME NEW o \in Occurrences, Promote(o) PROVE Remembered(w)' /\ AboutToStage(w)'
    <3>1. "queued" \in Waiting
      BY DEF Waiting
    <3> QED
      BY <2>0, <2>2, <3>1, QueueStep DEF Promote, history
  <2>3. ASSUME NEW o \in Occurrences, Begin(o) PROVE Remembered(w)' /\ AboutToStage(w)'
    BY <2>0, <2>3, QueueStep DEF Begin
  <2>4. ASSUME NEW o \in Occurrences, Finish(o) PROVE Remembered(w)' /\ AboutToStage(w)'
    BY <2>0, <2>4, QueueStep DEF Finish, history
  <2>5. ASSUME NEW o \in Occurrences, Retry(o) PROVE Remembered(w)' /\ AboutToStage(w)'
    <3>1. "retry" \in Waiting
      BY DEF Waiting
    <3> QED
      BY <2>0, <2>5, <3>1, QueueStep DEF Retry, history
  <2>6. ASSUME NEW o \in Occurrences, Drop(o) PROVE Remembered(w)' /\ AboutToStage(w)'
    BY <2>0, <2>6, QueueStep DEF Drop
  <2>7. CASE TimePasses \/ UNCHANGED vars
    <3>1. Undisturbed(w) /\ UNCHANGED status
      BY <2>7, OnlyTime DEF Undisturbed, vars, schedulers, history
    <3> QED
      BY <2>0, <3>1, Quiet
  <2> QED
    BY <2>1, <2>2, <2>3, <2>4, <2>5, <2>6, <2>7 DEF Next, TimePasses
<1> QED
  BY <1>1, <1>2, <1>3 DEF CronInv

\* With coalesce, at most one of the occurrences a worker staged waits for its
\* first run, whatever the other workers, the clock and the faults do
\* (_cron_scheduler's status check against its own dict).
THEOREM OneWaitsPerWorker == Spec => []OnePerWorker
<1>1. Init => CronInv
  BY InitHolds
<1>2. CronInv /\ [Next]_vars => CronInv'
  BY StepKeeps
<1>3. CronInv => OnePerWorker
  <2> SUFFICES ASSUME CronInv, schedule.coalesce, NEW w \in Workers
               PROVE  Cardinality(mine[w]) <= 1
    BY DEF OnePerWorker
  <2>1. mine[w] \subseteq {last[w]}
    BY DEF CronInv, Remembered
  <2>2. mine[w] = {} \/ mine[w] = {last[w]}
    BY <2>1
  <2>3. Cardinality({}) = 0 /\ Cardinality({last[w]}) = 1
    BY FS_EmptySet, FS_Singleton
  <2> QED
    BY <2>2, <2>3
<1> QED
  BY <1>1, <1>2, <1>3, PTL DEF Spec

-----------------------------------------------------------------------------
(* When a schedule fires.                                                  *)

\* The quotient and the remainder, as they are used below.
LEMMA DivIs ==
  ASSUME NEW e \in Nat \ {0}, NEW t \in Int
  PROVE  t \div e \in Int /\ (t \div e) * e <= t /\ t < (t \div e) * e + e
OBVIOUS

LEMMA DivUnique ==
  ASSUME NEW e \in Nat \ {0}, NEW t \in Int, NEW q \in Int,
         q * e <= t, t < q * e + e
  PROVE  t \div e = q
OBVIOUS

LEMMA ModIs ==
  ASSUME NEW e \in Nat \ {0}, NEW t \in Int
  PROVE  t % e \in 0 .. (e - 1) /\ t = (t \div e) * e + (t % e)
OBVIOUS

\* Numbers with one remainder that are less than a period apart are equal.
LEMMA ModUnique ==
  ASSUME NEW e \in Nat \ {0}, NEW t \in Int, NEW r \in 0 .. (e - 1), NEW q \in Int,
         t = q * e + r
  PROVE  t % e = r
<1>1. t \div e = q
  BY DivUnique
<1>2. t % e \in 0 .. (e - 1) /\ t = (t \div e) * e + (t % e)
  BY ModIs
<1>3. t % e \in Int /\ q * e \in Int /\ r \in Int
  BY <1>2
<1> QED BY <1>1, <1>2, <1>3

\* The segments 1..k are ordered by inclusion as the numbers k are by <=.
LEMMA LeastExists ==
  ASSUME NEW T \in SUBSET Nat, T # {}
  PROVE  \E k \in T : \A m \in T : k <= m
<1> DEFINE segments == {1 .. k : k \in T}
<1>1. segments \subseteq FiniteSubsetsOf(Nat) /\ segments # {}
  <2>1. \A k \in T : 1 .. k \subseteq Nat /\ IsFiniteSet(1 .. k)
    BY FS_Interval
  <2> QED BY <2>1 DEF FiniteSubsetsOf
<1>2. PICK s \in segments : \A r \in segments : ~(<<r, s>> \in StrictSubsetOrdering(Nat))
  <2> HIDE DEF segments
  <2> QED BY <1>1, FS_StrictSubsetOrderingWellFounded, WFMin
<1>3. PICK k \in T : s = 1 .. k
  BY <1>2
<1>4. ASSUME NEW m \in T, m < k PROVE FALSE
  <2>1. 1 .. m \in segments /\ 1 .. m \subseteq 1 .. k /\ 1 .. m # 1 .. k
    BY <1>4
  <2>2. 1 .. m \subseteq Nat /\ 1 .. k \subseteq Nat
    OBVIOUS
  <2>3. <<1 .. m, 1 .. k>> \in StrictSubsetOrdering(Nat)
    BY <2>1, <2>2 DEF StrictSubsetOrdering
  <2> QED BY <1>2, <1>3, <2>1, <2>3
<1> QED BY <1>4

\* A set of numbers that is bounded below has a minimum.
LEMMA MinIs ==
  ASSUME NEW T \in SUBSET Int, T # {}, NEW b \in Int, \A x \in T : b <= x
  PROVE  Min(T) \in T /\ \A x \in T : Min(T) <= x
<1> DEFINE above == {k \in Nat : b + k \in T}
<1>1. above # {}
  <2>1. PICK x \in T : TRUE
    OBVIOUS
  <2>2. x - b \in Nat /\ b + (x - b) = x
    BY <2>1
  <2> QED BY <2>1, <2>2
<1>2. PICK k \in above : \A m \in above : k <= m
  <2> HIDE DEF above
  <2>1. above \in SUBSET Nat
    BY DEF above
  <2> QED BY <1>1, <2>1, LeastExists
<1>3. ASSUME NEW x \in T PROVE b + k <= x
  <2>1. x - b \in Nat /\ b + (x - b) = x
    BY <1>3
  <2>2. x - b \in above
    BY <1>3, <2>1
  <2> QED BY <1>2, <2>1, <2>2
<1>4. b + k \in T
  BY <1>2
<1> QED BY <1>3, <1>4 DEF Min

\* A set of numbers that is bounded above has a maximum.
LEMMA MaxIs ==
  ASSUME NEW T \in SUBSET Int, T # {}, NEW b \in Int, \A x \in T : x <= b
  PROVE  Max(T) \in T /\ \A x \in T : x <= Max(T)
<1> DEFINE below == {k \in Nat : b - k \in T}
<1>1. below # {}
  <2>1. PICK x \in T : TRUE
    OBVIOUS
  <2>2. b - x \in Nat /\ b - (b - x) = x
    BY <2>1
  <2> QED BY <2>1, <2>2
<1>2. PICK k \in below : \A m \in below : k <= m
  <2> HIDE DEF below
  <2>1. below \in SUBSET Nat
    BY DEF below
  <2> QED BY <1>1, <2>1, LeastExists
<1>3. ASSUME NEW x \in T PROVE x <= b - k
  <2>1. b - x \in Nat /\ b - (b - x) = x
    BY <1>3
  <2>2. b - x \in below
    BY <1>3, <2>1
  <2>3. k <= b - x
    BY <1>2, <2>2
  <2>4. k \in Int /\ x \in Int
    BY <1>2
  <2> HIDE DEF below
  <2> QED BY <2>3, <2>4
<1>4. b - k \in T
  BY <1>2
<1> QED BY <1>3, <1>4 DEF Max

\* What the assumptions say of the numbers.
LEMMA Numbers ==
  /\ Day \in Nat \ {0} /\ Poll \in Nat \ {0}
  /\ Horizon \in Nat /\ Start \in 0 .. Horizon
  /\ \A s \in Schedules : s.every \in 0 .. 2 * Day
BY ScheduleAssumption, CronAssumption, SchedulesAssumption

\* The next fire of an expression is a fire, and none comes before it.
LEMMA NextOfExpression ==
  ASSUME NEW s \in Schedules, s.every = 0, NEW t \in Start .. Horizon
  PROVE  LET n == NextAfter(s, t)
         IN /\ n \in (t + 1) .. (t + 2 * Day) /\ FiresAt(s, n)
            /\ \A u \in (t + 1) .. (t + 2 * Day) : FiresAt(s, u) => n <= u
<1> DEFINE T == {u \in (t + 1) .. (t + 2 * Day) : FiresAt(s, u)}
<1>1. t \in Int /\ t \in (Start - 2 * Day) .. Horizon
  BY Numbers
<1>2. T # {}
  BY <1>1, SchedulesAssumption
<1>3. T \in SUBSET Int /\ t + 1 \in Int /\ \A x \in T : t + 1 <= x
  BY <1>1, Numbers
<1>4. Min(T) \in T /\ \A x \in T : Min(T) <= x
  <2> HIDE DEF T
  <2> QED BY <1>2, <1>3, MinIs
<1>5. NextAfter(s, t) = Min(T)
  BY Numbers DEF NextAfter, CronNext
<1> QED BY <1>4, <1>5

\* The next fire of an interval, and how its fires relate.
LEMMA NextOfInterval ==
  ASSUME NEW s \in Schedules, s.every > 0, NEW t \in Start .. Horizon
  PROVE  /\ NextAfter(s, t) \in (t + 1) .. (t + 2 * Day)
         /\ \A u \in Start .. Horizon :
              t <= u /\ u < NextAfter(s, t) => NextAfter(s, u) = NextAfter(s, t)
<1>1. s.every \in Nat \ {0} /\ s.every <= 2 * Day /\ t \in Int /\ Day \in Nat
  BY Numbers
<1>2. NextAfter(s, t) = ((t \div s.every) + 1) * s.every
  BY DEF NextAfter, IntervalNext
<1>3. t \div s.every \in Int /\ (t \div s.every) * s.every <= t
        /\ t < (t \div s.every) * s.every + s.every
  BY <1>1, DivIs
<1>4. NextAfter(s, t) = (t \div s.every) * s.every + s.every
        /\ (t \div s.every) * s.every \in Int
  BY <1>1, <1>2, <1>3
<1>5. ASSUME NEW u \in Start .. Horizon, t <= u, u < NextAfter(s, t)
      PROVE  NextAfter(s, u) = NextAfter(s, t)
  <2>0. u \in Int
    BY <1>5, Numbers
  <2>1. u \div s.every = t \div s.every
    BY <1>1, <1>3, <1>4, <1>5, <2>0, DivUnique
  <2> QED BY <2>1 DEF NextAfter, IntervalNext
<1>6. NextAfter(s, t) \in (t + 1) .. (t + 2 * Day)
  BY <1>1, <1>3, <1>4
<1> QED BY <1>5, <1>6

\* The next fire is ahead, and not too far.
LEMMA NextIsAhead ==
  ASSUME NEW s \in Schedules, NEW t \in Start .. Horizon
  PROVE  NextAfter(s, t) \in (t + 1) .. (t + 2 * Day)
<1>1. s.every = 0 \/ s.every > 0
  BY Numbers
<1> QED BY <1>1, NextOfExpression, NextOfInterval

\* Any moment before the answer has the same answer (_Schedule.next_after).
LEMMA NextIsStable ==
  ASSUME NEW s \in Schedules, NEW t \in Start .. Horizon, NEW u \in Start .. Horizon,
         t <= u, u < NextAfter(s, t)
  PROVE  NextAfter(s, u) = NextAfter(s, t)
<1>1. CASE s.every > 0
  BY <1>1, NextOfInterval
<1>2. CASE s.every = 0
  <2> DEFINE n == NextAfter(s, t)
             m == NextAfter(s, u)
  <2>1. /\ n \in (t + 1) .. (t + 2 * Day) /\ FiresAt(s, n)
        /\ \A v \in (t + 1) .. (t + 2 * Day) : FiresAt(s, v) => n <= v
    BY <1>2, NextOfExpression
  <2>2. /\ m \in (u + 1) .. (u + 2 * Day) /\ FiresAt(s, m)
        /\ \A v \in (u + 1) .. (u + 2 * Day) : FiresAt(s, v) => m <= v
    BY <1>2, NextOfExpression
  <2>3. t \in Int /\ u \in Int /\ Day \in Nat /\ n \in Int /\ m \in Int
    BY <2>1, <2>2, Numbers
  <2> HIDE DEF n, m
  <2>4. m <= n
    <3>1. n \in (u + 1) .. (u + 2 * Day)
      BY <2>1, <2>3 DEF n
    <3> QED BY <2>1, <2>2, <3>1
  <2>5. n <= m
    <3>1. m \in (t + 1) .. (t + 2 * Day)
      BY <2>1, <2>2, <2>3, <2>4
    <3> QED BY <2>1, <2>2, <3>1
  <2>6. m = n
    BY <2>3, <2>4, <2>5
  <2> QED BY <2>6 DEF n, m
<1>3. s.every = 0 \/ s.every > 0
  BY Numbers
<1> QED BY <1>1, <1>2, <1>3

\* Asked later, the schedule does not answer with an earlier fire.
LEMMA NextIsMonotone ==
  ASSUME NEW s \in Schedules, NEW t \in Start .. Horizon, NEW u \in Start .. Horizon,
         t <= u
  PROVE  NextAfter(s, t) <= NextAfter(s, u)
<1>1. NextAfter(s, t) \in Int /\ NextAfter(s, u) \in Int /\ u < NextAfter(s, u)
        /\ u \in Int
  BY NextIsAhead, Numbers
<1>2. CASE u < NextAfter(s, t)
  BY <1>1, <1>2, NextIsStable
<1>3. CASE NextAfter(s, t) <= u
  BY <1>1, <1>3
<1> QED BY <1>1, <1>2, <1>3

\* The fire before is a number.
LEMMA PreviousIsNumber ==
  ASSUME NEW s \in Schedules, NEW f \in (Start + 1) .. (Horizon + 2 * Day)
  PROVE  PreviousBefore(s, f) \in Int
<1>1. CASE s.every > 0
  <2>1. s.every \in Nat \ {0} /\ f - 1 \in Int
    BY <1>1, Numbers
  <2>2. (f - 1) \div s.every \in Int
    BY <2>1, DivIs
  <2> QED BY <1>1, <2>1, <2>2 DEF PreviousBefore, IntervalPrev
<1>2. CASE s.every = 0
  <2> DEFINE t == f - 2 * Day - 1
             T == {u \in (f - 2 * Day) .. (f - 1) : FiresAt(s, u)}
  <2>1. t \in (Start - 2 * Day) .. Horizon /\ t + 1 = f - 2 * Day /\ t + 2 * Day = f - 1
    BY Numbers
  <2>2. T # {}
    <3>1. \E u \in (t + 1) .. (t + 2 * Day) : FiresAt(s, u)
      BY <1>2, <2>1, SchedulesAssumption
    <3> QED BY <2>1, <3>1
  <2>3. T \in SUBSET Int /\ f - 1 \in Int /\ \A x \in T : x <= f - 1
    BY Numbers
  <2>4. Max(T) \in T
    <3> HIDE DEF T
    <3> QED BY <2>2, <2>3, MaxIs
  <2>5. PreviousBefore(s, f) = Max(T)
    BY <1>2 DEF PreviousBefore, CronPrev
  <2> QED BY <2>3, <2>4, <2>5
<1>3. s.every = 0 \/ s.every > 0
  BY Numbers
<1> QED BY <1>1, <1>2, <1>3

-----------------------------------------------------------------------------
(* Types, and what is known of the schedule's answers.                     *)

\* Whatever Redis holds of an occurrence was staged.
Recorded == \A o \in Occurrences : status[o] # "none" => o \in ever

\* The answer a worker remembers is a fire, and is the next one for as long as it
\* lies ahead of the moment the pass read.
AnswerHolds(w) ==
  /\ now[w] <= clock
  /\ schedule.every = 0 /\ answer[w] # NoFire =>
       /\ FiresAt(schedule, answer[w])
       /\ now[w] < answer[w] => NextAfter(schedule, now[w]) = answer[w]

\* Only fires are staged, and a cron without coalesce holds nothing back.
OnlyFires ==
  /\ schedule.every = 0 => \A o \in ever : FiresAt(schedule, o)
  /\ ~schedule.coalesce => held = {}

KnownInv ==
  /\ TypeOK /\ Recorded /\ OnlyFires
  /\ \A w \in Workers : AnswerHolds(w)

\* What a pass gets from the schedule, remembered or not, is the next fire.
LEMMA FireIs ==
  ASSUME KnownInv, NEW w \in Workers
  PROVE  /\ Fire(w) = NextAfter(schedule, now[w])
         /\ Fire(w) \in (now[w] + 1) .. (now[w] + 2 * Day)
         /\ Fire(w) \in Occurrences /\ Fire(w) \in (Start + 1) .. (Horizon + 2 * Day)
         /\ schedule.every = 0 => FiresAt(schedule, Fire(w))
<1>1. schedule \in Schedules /\ now[w] \in Start .. Horizon /\ AnswerHolds(w)
  BY DEF KnownInv, TypeOK
<1>2. Fire(w) = NextAfter(schedule, now[w])
  BY <1>1 DEF Fire, AnswerHolds
<1>3. Fire(w) \in (now[w] + 1) .. (now[w] + 2 * Day)
  BY <1>1, <1>2, NextIsAhead
<1>4. Fire(w) \in Occurrences /\ Fire(w) \in (Start + 1) .. (Horizon + 2 * Day)
  BY <1>1, <1>3, Numbers DEF Occurrences
<1>5. schedule.every = 0 => FiresAt(schedule, Fire(w))
  BY <1>1, <1>2, NextOfExpression
<1> QED BY <1>2, <1>3, <1>4, <1>5

\* The occurrence whose status decides has a time.
LEMMA LastIsNumber ==
  ASSUME KnownInv, NEW w \in Workers
  PROVE  LastOf(w) \in Int
<1>1. last[w] \in Int \cup {NoFire} /\ schedule \in Schedules
  BY DEF KnownInv, TypeOK
<1>2. PreviousBefore(schedule, Fire(w)) \in Int
  BY <1>1, FireIs, PreviousIsNumber
<1> QED BY <1>1, <1>2 DEF LastOf

\* A pass that ends with the answer of this moment remembers a right one.
LEMMA AnswerKept ==
  ASSUME KnownInv, NEW w \in Workers, UNCHANGED <<schedule, now, clock>>,
         answer' = [answer EXCEPT ![w] = Fire(w)]
  PROVE  /\ answer' \in [Workers -> Occurrences \cup {NoFire}]
         /\ \A v \in Workers : AnswerHolds(v)'
<1>1. answer' \in [Workers -> Occurrences \cup {NoFire}]
  BY FireIs DEF KnownInv, TypeOK
<1>2. ASSUME NEW v \in Workers PROVE AnswerHolds(v)'
  <2>1. AnswerHolds(v) /\ answer \in [Workers -> Occurrences \cup {NoFire}]
    BY DEF KnownInv, TypeOK
  <2>2. CASE v = w
    <3>1. answer'[v] = Fire(w)
      BY <2>1, <2>2
    <3> QED BY <2>1, <2>2, <3>1, FireIs DEF AnswerHolds
  <2>3. CASE v # w
    <3>1. answer'[v] = answer[v]
      BY <2>1, <2>3
    <3> QED BY <2>1, <3>1 DEF AnswerHolds
  <2> QED BY <2>2, <2>3
<1> QED BY <1>1, <1>2

\* The sleep after a pass.
LEMMA SleepTypes ==
  ASSUME TypeOK, NEW w \in Workers, Sleep(w), clock' = clock
  PROVE  /\ pc' \in [Workers -> {"down", "asleep", "asked", "cleared"}]
         /\ wake' \in [Workers -> Start .. (clock' + Poll)]
<1>1. clock + Poll \in Start .. (clock + Poll)
  BY Numbers DEF TypeOK
<1> QED BY <1>1 DEF TypeOK, Sleep

\* Nothing is known at the start, and nothing is needed.
LEMMA InitKnown == Init => KnownInv
<1> SUFFICES ASSUME Init PROVE KnownInv
  OBVIOUS
<1>1. TypeOK
  <2>1. \A w \in Workers : wake[w] \in Start .. (clock + Poll)
    BY Numbers DEF Init
  <2>2. wake \in [Workers -> Start .. (clock + Poll)]
    BY <2>1, Numbers DEF Init
  <2>3. 0 \in 0 .. MaxFaults /\ Start \in Start .. Horizon
    BY Numbers, CronAssumption
  <2> QED BY <2>2, <2>3 DEF Init, TypeOK
<1>2. Recorded /\ OnlyFires
  BY DEF Init, Recorded, OnlyFires
<1>3. \A w \in Workers : AnswerHolds(w)
  BY Numbers DEF Init, AnswerHolds
<1> QED BY <1>1, <1>2, <1>3 DEF KnownInv

\* A step that leaves the clock and the answers alone leaves what is said of them.
LEMMA SameAnswers ==
  ASSUME \A w \in Workers : AnswerHolds(w), UNCHANGED <<clock, schedule, now, answer>>
  PROVE  \A w \in Workers : AnswerHolds(w)'
BY DEF AnswerHolds

\* One step of a scheduler keeps KnownInv.
LEMMA PassKnows ==
  ASSUME KnownInv, NEW w \in Workers,
         Pass(w) \/ Fail(w) \/ Crash(w) \/ Restart(w)
  PROVE  KnownInv'
<1>0. /\ TypeOK /\ Recorded /\ OnlyFires /\ \A v \in Workers : AnswerHolds(v)
      /\ Fire(w) \in Occurrences /\ LastOf(w) \in Int
      /\ schedule.every = 0 => FiresAt(schedule, Fire(w))
  BY FireIs, LastIsNumber DEF KnownInv
<1>1. CASE Read(w)
  <2>1. TypeOK'
    <3>1. /\ now' \in [Workers -> Start .. Horizon]
          /\ pc' \in [Workers -> {"down", "asleep", "asked", "cleared"}]
      BY <1>0, <1>1 DEF Read, TypeOK
    <3> QED BY <1>0, <1>1, <3>1 DEF Read, TypeOK, history
  <2>2. Recorded' /\ OnlyFires'
    BY <1>0, <1>1 DEF Read, Recorded, OnlyFires, history
  <2>3. ASSUME NEW v \in Workers PROVE AnswerHolds(v)'
    <3>0. AnswerHolds(v) /\ schedule \in Schedules /\ now[v] \in Start .. Horizon
            /\ clock \in Start .. Horizon
            /\ answer[v] \in Occurrences \cup {NoFire}
      BY <1>0 DEF TypeOK
    <3>1. UNCHANGED <<clock, schedule, answer>>
      BY <1>1 DEF Read
    <3>2. CASE v = w
      <4>1. now'[v] = clock
        BY <1>0, <1>1, <3>2 DEF Read, TypeOK
      <4>2. ASSUME schedule.every = 0, answer[v] # NoFire, clock < answer[v]
            PROVE  NextAfter(schedule, clock) = answer[v]
        <5>1. now[v] <= clock /\ now[v] < answer[v]
          BY <3>0, <4>2, Numbers DEF AnswerHolds, Occurrences
        <5>2. NextAfter(schedule, now[v]) = answer[v]
          BY <3>0, <4>2, <5>1 DEF AnswerHolds
        <5> QED BY <3>0, <4>2, <5>1, <5>2, NextIsStable
      <4>3. clock <= clock
        BY <3>0, Numbers
      <4> QED BY <3>0, <3>1, <4>1, <4>2, <4>3 DEF AnswerHolds
    <3>3. CASE v # w
      <4>1. now'[v] = now[v]
        BY <1>0, <1>1, <3>3 DEF Read, TypeOK
      <4> QED BY <3>0, <3>1, <4>1 DEF AnswerHolds
    <3> QED BY <3>2, <3>3
  <2> QED BY <2>1, <2>2, <2>3 DEF KnownInv
<1>2. CASE HoldBack(w)
  <2>1. /\ answer' \in [Workers -> Occurrences \cup {NoFire}]
        /\ \A v \in Workers : AnswerHolds(v)'
    BY <1>2, AnswerKept DEF HoldBack
  <2>2. /\ pc' \in [Workers -> {"down", "asleep", "asked", "cleared"}]
        /\ wake' \in [Workers -> Start .. (clock' + Poll)]
    BY <1>0, <1>2, SleepTypes DEF HoldBack
  <2>3. /\ last' \in [Workers -> Int \cup {NoFire}]
        /\ held' \subseteq Occurrences
    BY <1>0, <1>2 DEF HoldBack, TypeOK
  <2>4. TypeOK'
    BY <1>0, <1>2, <2>1, <2>2, <2>3 DEF HoldBack, TypeOK
  <2>5. Recorded' /\ OnlyFires'
    BY <1>0, <1>2 DEF HoldBack, Recorded, OnlyFires
  <2> QED BY <2>1, <2>4, <2>5 DEF KnownInv
<1>3. CASE Clear(w)
  <2>1. /\ answer' \in [Workers -> Occurrences \cup {NoFire}]
        /\ \A v \in Workers : AnswerHolds(v)'
    BY <1>3, AnswerKept DEF Clear
  <2>2. Fire(w) \in Int
    BY <1>0 DEF Occurrences
  <2>3. /\ last' \in [Workers -> Int \cup {NoFire}]
        /\ pc' \in [Workers -> {"down", "asleep", "asked", "cleared"}]
    BY <1>0, <1>3, <2>2 DEF Clear, TypeOK
  <2>4. TypeOK'
    BY <1>0, <1>3, <2>1, <2>3 DEF Clear, TypeOK, history
  <2>5. Recorded' /\ OnlyFires'
    BY <1>0, <1>3 DEF Clear, Recorded, OnlyFires, history
  <2> QED BY <2>1, <2>4, <2>5 DEF KnownInv
<1>4. CASE Stage(w)
  <2>1. /\ answer' \in [Workers -> Occurrences \cup {NoFire}]
        /\ \A v \in Workers : AnswerHolds(v)'
    BY <1>4, AnswerKept DEF Stage
  <2>2. /\ pc' \in [Workers -> {"down", "asleep", "asked", "cleared"}]
        /\ wake' \in [Workers -> Start .. (clock' + Poll)]
    BY <1>0, <1>4, SleepTypes DEF Stage
  <2>3. /\ status' \in [Occurrences -> Waiting \cup {"none", "running"}]
        /\ ever' \subseteq Occurrences /\ ever \subseteq ever'
        /\ mine' \in [Workers -> SUBSET ever']
    <3>1. CASE StatusOf(Fire(w)) = "none"
      <4>1. status' = [status EXCEPT ![Fire(w)] = "scheduled"]
              /\ ever' = ever \cup {Fire(w)}
              /\ mine' = [mine EXCEPT ![w] = @ \cup {Fire(w)}]
        BY <1>4, <3>1 DEF Stage, Store
      <4>2. "scheduled" \in Waiting
        BY DEF Waiting
      <4> QED BY <1>0, <4>1, <4>2 DEF TypeOK
    <3>2. CASE StatusOf(Fire(w)) # "none"
      BY <1>0, <1>4, <3>2 DEF Stage, Store, TypeOK
    <3> QED BY <3>1, <3>2
  <2>4. TypeOK'
    BY <1>0, <1>4, <2>1, <2>2, <2>3 DEF Stage, TypeOK
  <2>5. Recorded'
    BY <1>0, <1>4 DEF Stage, Store, Recorded, TypeOK
  <2>6. OnlyFires'
    BY <1>0, <1>4 DEF Stage, Store, OnlyFires
  <2> QED BY <2>1, <2>4, <2>5, <2>6 DEF KnownInv
<1>5. CASE Fail(w)
  <2>1. /\ answer' \in [Workers -> Occurrences \cup {NoFire}]
        /\ \A v \in Workers : AnswerHolds(v)'
    BY <1>5, AnswerKept DEF Fail
  <2>2. /\ pc' \in [Workers -> {"down", "asleep", "asked", "cleared"}]
        /\ wake' \in [Workers -> Start .. (clock' + Poll)]
    BY <1>0, <1>5, SleepTypes DEF Fail
  <2>3. last' \in [Workers -> Int \cup {NoFire}]
    BY <1>0, <1>5 DEF Fail, TypeOK
  <2>4. faults' \in 0 .. MaxFaults
    BY <1>0, <1>5, CronAssumption DEF Fail, Fault, TypeOK
  <2>5. TypeOK'
    BY <1>0, <1>5, <2>1, <2>2, <2>3, <2>4 DEF Fail, TypeOK, history
  <2>6. Recorded' /\ OnlyFires'
    BY <1>0, <1>5 DEF Fail, Recorded, OnlyFires, history
  <2> QED BY <2>1, <2>5, <2>6 DEF KnownInv
<1>6. CASE Crash(w)
  <2>1. faults' \in 0 .. MaxFaults
    BY <1>0, <1>6, CronAssumption DEF Crash, Fault, TypeOK
  <2>2. TypeOK'
    BY <1>0, <1>6, <2>1 DEF Crash, TypeOK
  <2>3. Recorded' /\ OnlyFires'
    BY <1>0, <1>6 DEF Crash, Recorded, OnlyFires
  <2>4. ASSUME NEW v \in Workers PROVE AnswerHolds(v)'
    BY <1>0, <1>6 DEF Crash, AnswerHolds, TypeOK
  <2> QED BY <2>2, <2>3, <2>4 DEF KnownInv
<1>7. CASE Restart(w)
  <2>1. clock \in Start .. (clock + Poll)
    BY <1>0, Numbers DEF TypeOK
  <2>2. TypeOK'
    BY <1>0, <1>7, <2>1 DEF Restart, TypeOK, history
  <2>3. Recorded' /\ OnlyFires'
    BY <1>0, <1>7 DEF Restart, Recorded, OnlyFires, history
  <2> QED BY <1>0, <1>7, <2>2, <2>3, SameAnswers DEF Restart, KnownInv
<1> QED BY <1>1, <1>2, <1>3, <1>4, <1>5, <1>6, <1>7 DEF Pass

\* One step of the queue on an occurrence keeps KnownInv.
LEMMA QueueKnows ==
  ASSUME KnownInv, NEW o \in Occurrences,
         Promote(o) \/ Begin(o) \/ Finish(o) \/ Retry(o) \/ Drop(o)
  PROVE  KnownInv'
<1>0. TypeOK /\ Recorded /\ OnlyFires /\ \A v \in Workers : AnswerHolds(v)
  BY DEF KnownInv
<1>1. UNCHANGED <<clock, schedule, schedulers, ever, held>> /\ status[o] # "none"
  BY DEF Promote, Begin, Finish, Retry, Drop, history, Waiting
<1>2. \A v \in Workers : AnswerHolds(v)'
  BY <1>0, <1>1, SameAnswers DEF schedulers
<1>3. Recorded' /\ OnlyFires'
  <2>1. \A p \in Occurrences : p # o => status'[p] = status[p]
    BY <1>0 DEF Promote, Begin, Finish, Retry, Drop, Become, TypeOK
  <2>2. o \in ever
    BY <1>0, <1>1 DEF Recorded
  <2> QED BY <1>0, <1>1, <2>1, <2>2 DEF Recorded, OnlyFires
<1>4. status' \in [Occurrences -> Waiting \cup {"none", "running"}]
  BY <1>0 DEF Promote, Begin, Finish, Retry, Drop, Become, TypeOK, Waiting
<1>5. started' \subseteq ever /\ mine' \in [Workers -> SUBSET ever]
  <2>1. o \in ever
    BY <1>0, <1>1 DEF Recorded
  <2>2. CASE Promote(o) \/ Finish(o) \/ Retry(o)
    BY <1>0, <2>2 DEF Promote, Finish, Retry, history, TypeOK
  <2>3. CASE Begin(o) \/ Drop(o)
    BY <1>0, <2>1, <2>3 DEF Begin, Drop, NoLongerMine, TypeOK
  <2> QED BY <2>2, <2>3
<1>6. faults' \in 0 .. MaxFaults
  BY <1>0, CronAssumption DEF Promote, Begin, Finish, Retry, Drop, Fault, TypeOK
<1>7. TypeOK'
  BY <1>0, <1>1, <1>4, <1>5, <1>6 DEF TypeOK, schedulers
<1> QED BY <1>2, <1>3, <1>7 DEF KnownInv

\* Every step keeps KnownInv.
LEMMA StepKnows == KnownInv /\ [Next]_vars => KnownInv'
<1> SUFFICES ASSUME KnownInv, [Next]_vars PROVE KnownInv'
  OBVIOUS
<1>1. CASE TimePasses
  <2>0. TypeOK /\ Recorded /\ OnlyFires /\ \A v \in Workers : AnswerHolds(v)
    BY DEF KnownInv
  <2>1. clock \in Int /\ clock' = clock + 1 /\ clock' \in Start .. Horizon
    BY <1>1, <2>0, OnlyTime, Numbers DEF TypeOK
  <2>2. wake \in [Workers -> Start .. (clock' + Poll)]
    <3>1. Start .. (clock + Poll) \subseteq Start .. (clock' + Poll)
      BY <2>1, Numbers
    <3> QED BY <2>0, <3>1 DEF TypeOK
  <2>3. TypeOK'
    <3>1. faults' \in 0 .. MaxFaults
      BY <1>1, <2>0, OnlyTime, CronAssumption DEF TypeOK
    <3> QED BY <1>1, <2>0, <2>1, <2>2, <3>1, OnlyTime DEF TypeOK, schedulers, history
  <2>4. Recorded' /\ OnlyFires'
    BY <1>1, <2>0, OnlyTime DEF Recorded, OnlyFires, history
  <2>5. ASSUME NEW v \in Workers PROVE AnswerHolds(v)'
    <3>1. now[v] \in Int /\ AnswerHolds(v)
      BY <2>0, Numbers DEF TypeOK
    <3> QED BY <1>1, <2>1, <3>1, OnlyTime DEF schedulers, AnswerHolds
  <2> QED BY <2>3, <2>4, <2>5 DEF KnownInv
<1>2. CASE UNCHANGED vars
  BY <1>2 DEF vars, KnownInv, TypeOK, Recorded, OnlyFires, AnswerHolds
<1> QED BY <1>1, <1>2, PassKnows, QueueKnows DEF Next, TimePasses

\* Types, for any workers and schedules and whatever goes wrong: what a pass stages
\* or holds back is kept track of, and what a worker staged was staged.
THEOREM CronTypes == Spec => []TypeOK
<1>1. KnownInv => TypeOK
  BY DEF KnownInv
<1> QED BY <1>1, InitKnown, StepKnows, PTL DEF Spec

-----------------------------------------------------------------------------
(* What has run is not staged again.                                       *)

\* Only what is due is promoted, and what ran was promoted.
DueOnly ==
  /\ \A o \in Occurrences : status[o] \in {"queued", "running", "retry"} => o <= clock
  /\ \A o \in started : o <= clock

LEMMA InitDue == Init => DueOnly
BY DEF Init, DueOnly

\* Every step keeps what waits, runs or ran due.
LEMMA StepDue == KnownInv /\ DueOnly /\ [Next]_vars => DueOnly'
<1> SUFFICES ASSUME KnownInv, DueOnly, [Next]_vars PROVE DueOnly'
  OBVIOUS
<1>0. TypeOK /\ clock \in Int
  BY Numbers DEF KnownInv, TypeOK
<1>1. ASSUME NEW w \in Workers, Pass(w) \/ Fail(w) \/ Crash(w) \/ Restart(w)
      PROVE  DueOnly'
  <2>1. UNCHANGED <<clock, started>>
    BY <1>1 DEF Pass, Read, HoldBack, Clear, Stage, Fail, Crash, Restart, history
  <2>2. \A o \in Occurrences : status'[o] = status[o] \/ status'[o] = "scheduled"
    BY <1>0, <1>1 DEF Pass, Read, HoldBack, Clear, Stage, Store, Fail, Crash, Restart,
                      history, TypeOK
  <2> QED BY <2>1, <2>2 DEF DueOnly
<1>2. ASSUME NEW o \in Occurrences,
             Promote(o) \/ Begin(o) \/ Finish(o) \/ Retry(o) \/ Drop(o)
      PROVE  DueOnly'
  <2>1. /\ \A p \in Occurrences : p # o => status'[p] = status[p]
        /\ clock' = clock
    BY <1>0, <1>2 DEF Promote, Begin, Finish, Retry, Drop, Become, TypeOK
  <2>2. status'[o] \in {"queued", "running", "retry"} => o <= clock
    BY <1>0, <1>2 DEF Promote, Begin, Finish, Retry, Drop, Become, TypeOK, DueOnly
  <2>3. \A p \in started' : p <= clock
    BY <1>2 DEF Promote, Begin, Finish, Retry, Drop, history, DueOnly
  <2> QED BY <2>1, <2>2, <2>3 DEF DueOnly
<1>3. CASE TimePasses
  <2>1. clock' = clock + 1 /\ UNCHANGED <<status, started>>
    BY <1>3, OnlyTime DEF history
  <2>2. \A o \in Occurrences : o \in Int
    BY DEF Occurrences
  <2>3. started \subseteq Occurrences
    BY <1>0 DEF TypeOK
  <2>4. \A o \in Occurrences : o <= clock => o <= clock + 1
    BY <1>0, <2>2
  <2> QED BY <2>1, <2>3, <2>4 DEF DueOnly
<1>4. CASE UNCHANGED vars
  BY <1>4 DEF vars, DueOnly
<1> QED BY <1>1, <1>2, <1>3, <1>4 DEF Next, TimePasses

\* A staging is ahead of the moment its pass read, and what ran was due.
LEMMA StagedBehind ==
  KnownInv /\ DueOnly /\ [Next]_vars =>
    \A o \in started :
      status[o] = "none" /\ status'[o] = "scheduled" =>
        \E w \in Workers : Straddles(w, o)
<1> SUFFICES ASSUME KnownInv, DueOnly, [Next]_vars, NEW o \in started,
                    status[o] = "none", status'[o] = "scheduled"
             PROVE  \E w \in Workers : Straddles(w, o)
  OBVIOUS
<1>0. TypeOK /\ clock \in Int /\ o \in Occurrences /\ o \in Int /\ o <= clock
  BY Numbers DEF KnownInv, TypeOK, DueOnly, Occurrences
<1>1. ASSUME NEW w \in Workers, Stage(w), o = Fire(w) PROVE Straddles(w, o)
  <2>1. pc[w] \in {"asked", "cleared"} /\ pc'[w] = "asleep"
    BY <1>0, <1>1 DEF Stage, Sleep, TypeOK
  <2>2. now[w] \in Int /\ Fire(w) \in (now[w] + 1) .. (now[w] + 2 * Day)
    BY <1>0, FireIs, Numbers DEF TypeOK
  <2> QED BY <1>0, <1>1, <2>1, <2>2, Numbers DEF Straddles
<1>2. ASSUME NEW w \in Workers, Pass(w) \/ Fail(w) \/ Crash(w) \/ Restart(w)
      PROVE  Straddles(w, o)
  <2>1. CASE Stage(w)
    BY <1>0, <1>1, <2>1 DEF Stage, Store, TypeOK
  <2> QED BY <1>2, <2>1 DEF Pass, Read, HoldBack, Clear, Fail, Crash, Restart, history
<1>3. ASSUME NEW p \in Occurrences,
             Promote(p) \/ Begin(p) \/ Finish(p) \/ Retry(p) \/ Drop(p)
      PROVE  FALSE
  BY <1>0, <1>3 DEF Promote, Begin, Finish, Retry, Drop, Become, TypeOK
<1>4. CASE TimePasses \/ UNCHANGED vars
  BY <1>4, OnlyTime DEF vars
<1> QED BY <1>2, <1>3, <1>4 DEF Next, TimePasses

\* An occurrence that has run is staged again only by a pass that began before its
\* fire and lasts past it, however slow the passes, by whichever worker
\* (_enqueue_cron's SET NX does not see one that is finished).
THEOREM RunsOnce == Spec => OncePerOccurrence
<1> DEFINE Inv == KnownInv /\ DueOnly
<1>1. Init => Inv
  BY InitKnown, InitDue
<1>2. Inv /\ [Next]_vars => Inv'
  BY StepKnows, StepDue
<1>3. Inv /\ [Next]_vars =>
        [\A o \in started :
           status[o] = "none" /\ status'[o] = "scheduled" =>
             \E w \in Workers : Straddles(w, o)]_vars
  BY StagedBehind
<1> HIDE DEF Inv
<1> QED BY <1>1, <1>2, <1>3, PTL DEF Spec, OncePerOccurrence

-----------------------------------------------------------------------------
(* Every occurrence is seen to by a worker that nothing happened to.       *)

\* A poll is no longer than the time from any fire to the next: the worker asks
\* again before the one after it has passed (configuration.md:148-152).
PollKeepsUp ==
  \A s \in Schedules : \A t \in Start .. Horizon :
    NextAfter(s, NextAfter(s, t)) >= NextAfter(s, t) + Poll

\* Of the fires up to t that a worker had the time to see coming, all are in S.
Covers(S, t) ==
  \A o \in (Start + Poll) .. Horizon :
    o <= t /\ NextAfter(schedule, o - 1) = o => o \in S

\* A pass is in the minute it read, and a sleep ends before its time is over.
InTime(w) ==
  /\ pc[w] \in {"asked", "cleared"} => now[w] = clock
  /\ pc[w] = "asleep" => clock <= wake[w]

\* A worker that is up and in time has seen to every fire until it wakes, or until
\* the moment its pass read.
Awake(w) ==
  /\ pc[w] # "down" /\ InTime(w)
  /\ pc[w] = "asleep" => Covers(ever \cup held, wake[w])
  /\ pc[w] \in {"asked", "cleared"} => Covers(ever \cup held, now[w])

\* A fault puts out at most one worker.
OthersAwake ==
  \E F \in SUBSET Workers :
    Cardinality(F) <= faults /\ \A w \in Workers \ F : Awake(w)

\* What is covered stays covered as more is staged or held back.
LEMMA CoversMore ==
  ASSUME NEW S, NEW R, S \subseteq R, NEW t \in Int, NEW u \in Int, u <= t, Covers(S, t)
  PROVE  Covers(R, u)
<1>1. \A o \in (Start + Poll) .. Horizon : o \in Int
  BY Numbers
<1> QED BY <1>1 DEF Covers

\* A pass that sees to the next fire sees to all until the next pass: the one
\* after it is at least a poll later.
LEMMA PassCovers ==
  ASSUME KnownInv, PollKeepsUp, NEW w \in Workers, NEW S, NEW R, S \subseteq R,
         Covers(S, now[w]), Fire(w) \in R
  PROVE  Covers(R, now[w] + Poll)
<1>1. schedule \in Schedules /\ now[w] \in Start .. Horizon
  BY DEF KnownInv, TypeOK
<1>2. Fire(w) = NextAfter(schedule, now[w]) /\ Fire(w) \in (now[w] + 1) .. (now[w] + 2 * Day)
  BY FireIs
<1>3. ASSUME NEW o \in (Start + Poll) .. Horizon, o <= now[w] + Poll,
             NextAfter(schedule, o - 1) = o
      PROVE  o \in R
  <2>0. o \in Int /\ now[w] \in Int /\ Fire(w) \in Int /\ now[w] < Fire(w)
          /\ o - 1 \in Start .. Horizon
    BY <1>1, <1>2, Numbers
  <2>1. CASE o <= now[w]
    BY <1>3, <2>1 DEF Covers
  <2>2. CASE now[w] < o /\ o - 1 < Fire(w)
    <3>1. NextAfter(schedule, o - 1) = Fire(w)
      BY <1>1, <1>2, <2>0, <2>2, NextIsStable
    <3> QED BY <1>3, <3>1
  <2>3. CASE Fire(w) <= o - 1
    <3>1. Fire(w) \in Start .. Horizon
      BY <1>1, <2>0, <2>3, Numbers
    <3>2. NextAfter(schedule, Fire(w)) <= o
      BY <1>1, <1>3, <2>0, <2>3, <3>1, NextIsMonotone
    <3>3. NextAfter(schedule, Fire(w)) >= Fire(w) + Poll
      BY <1>1, <1>2 DEF PollKeepsUp
    <3>4. NextAfter(schedule, Fire(w)) \in Int
      BY <1>1, <3>1, NextIsAhead, <2>0
    <3> QED BY <1>3, <2>0, <3>2, <3>3, <3>4, Numbers
  <2> QED BY <2>0, <2>1, <2>2, <2>3
<1> QED BY <1>3 DEF Covers

\* A step that leaves a worker alone, or a minute that finds it on time, leaves it awake.
LEMMA StaysAwake ==
  ASSUME KnownInv, NEW v \in Workers, Awake(v),
         UNCHANGED <<schedule, pc[v], now[v], wake[v]>>,
         clock' = clock \/ (clock' = clock + 1 /\ OnTime(v)),
         ever \cup held \subseteq ever' \cup held'
  PROVE  Awake(v)'
<1>1. \A t : Covers(ever \cup held, t) => Covers(ever \cup held, t)'
  BY DEF Covers
<1>2. clock \in Int /\ wake[v] \in Int
  BY Numbers DEF KnownInv, TypeOK
<1>3. InTime(v)'
  BY <1>2 DEF Awake, InTime, OnTime
<1> QED
  BY <1>3 DEF Awake, Covers

LEMMA InitAwake == Init => OthersAwake
<1> SUFFICES ASSUME Init PROVE OthersAwake
  OBVIOUS
<1>1. \A w \in Workers : Awake(w)
  <2> TAKE w \in Workers
  <2>1. wake[w] \in Start .. (Start + Poll - 1) /\ clock = Start /\ pc[w] = "asleep"
    BY DEF Init
  <2>2. Covers(ever \cup held, wake[w])
    BY <2>1, Numbers DEF Covers
  <2> QED BY <2>1, <2>2, Numbers DEF Awake, InTime
<1>2. Cardinality({}) <= faults
  BY FS_EmptySet DEF Init
<1> QED BY <1>1, <1>2 DEF OthersAwake

\* A step of a pass keeps its worker awake.
LEMMA PassStaysAwake ==
  ASSUME KnownInv, PollKeepsUp, NEW w \in Workers, Awake(w), Pass(w)
  PROVE  Awake(w)' /\ ever \cup held \subseteq ever' \cup held'
<1>0. /\ TypeOK /\ Recorded
      /\ clock \in Int /\ now[w] \in Int /\ wake[w] \in Int
      /\ Fire(w) \in Occurrences /\ InTime(w)
      /\ clock' = clock /\ clock <= clock + Poll
  BY FireIs, Numbers DEF KnownInv, TypeOK, Awake, Pass, Read, HoldBack, Clear, Stage
<1> DEFINE done == ever \cup held
<1>1. CASE Read(w)
  <2>1. Covers(done, wake[w]) /\ wake[w] = clock
    BY <1>0, <1>1 DEF Read, Awake, InTime
  <2>2. UNCHANGED <<schedule, ever, held>> /\ pc'[w] = "asked" /\ now'[w] = wake[w]
    BY <1>0, <1>1, <2>1 DEF Read, TypeOK, history
  <2> QED BY <1>0, <2>1, <2>2 DEF Awake, InTime, Covers
<1>2. CASE Clear(w)
  <2>1. Covers(done, now[w]) /\ now[w] = clock
    BY <1>0, <1>2 DEF Clear, Awake, InTime
  <2>2. UNCHANGED <<schedule, ever, held, now>> /\ pc'[w] = "cleared"
    BY <1>0, <1>2 DEF Clear, TypeOK, history
  <2> QED BY <1>0, <2>1, <2>2 DEF Awake, InTime, Covers
<1>3. ASSUME HoldBack(w) \/ Stage(w), Fire(w) \in done', done \subseteq done'
      PROVE  Awake(w)' /\ done \subseteq done'
  <2>1. pc[w] \in {"asked", "cleared"}
    BY <1>3 DEF HoldBack, Stage
  <2>2. Covers(done, now[w]) /\ now[w] = clock
    BY <1>0, <2>1 DEF Awake, InTime
  <2>3. Covers(done', now[w] + Poll)
    BY <1>3, <2>2, PassCovers
  <2>4. schedule' = schedule /\ pc'[w] = "asleep" /\ wake'[w] = now[w] + Poll
    BY <1>0, <1>3, <2>2 DEF HoldBack, Stage, Sleep, TypeOK
  <2> QED BY <1>0, <1>3, <2>2, <2>3, <2>4 DEF Awake, InTime, Covers
<1>4. CASE HoldBack(w)
  <2>1. ever' = ever /\ held' = held \cup ({Fire(w)} \ {LastOf(w)})
          /\ StatusOf(LastOf(w)) \in Waiting
    BY <1>4 DEF HoldBack
  <2>2. LastOf(w) \in ever
    BY <1>0, <2>1 DEF StatusOf, Recorded, Waiting
  <2> QED BY <1>3, <1>4, <2>1, <2>2
<1>5. CASE Stage(w)
  <2>1. held' = held /\ Store(w, Fire(w))
    BY <1>5 DEF Stage
  <2>2. Fire(w) \in ever' /\ ever \subseteq ever'
    BY <1>0, <2>1 DEF Store, StatusOf, Recorded
  <2> QED BY <1>3, <1>5, <2>1, <2>2
<1> QED BY <1>1, <1>2, <1>4, <1>5 DEF Pass

\* Every step keeps a worker awake for each that a fault may have put out.
LEMMA StepAwake ==
  Prompt /\ KnownInv /\ PollKeepsUp /\ OthersAwake /\ [Next]_vars => OthersAwake'
<1> SUFFICES ASSUME Prompt, KnownInv, PollKeepsUp, OthersAwake, [Next]_vars
             PROVE  OthersAwake'
  OBVIOUS
<1>0. TypeOK /\ faults \in Int
  BY DEF KnownInv, TypeOK
<1>1. PICK F \in SUBSET Workers :
        Cardinality(F) <= faults /\ \A v \in Workers \ F : Awake(v)
  BY DEF OthersAwake
<1>2. IsFiniteSet(F) /\ Cardinality(F) \in Int
  BY CronAssumption, FS_Subset, FS_CardinalityType
<1>3. ASSUME NEW w \in Workers, Pass(w) PROVE OthersAwake'
  <2>1. UNCHANGED <<clock, schedule, faults>>
    BY <1>3 DEF Pass, Read, HoldBack, Clear, Stage
  <2>2. \A v \in Workers : v # w => UNCHANGED <<pc[v], now[v], wake[v]>>
    BY <1>0, <1>3 DEF Pass, Read, HoldBack, Clear, Stage, Sleep, TypeOK
  <2>3. ever \cup held \subseteq ever' \cup held'
    BY <1>3 DEF Pass, Read, HoldBack, Clear, Stage, Store, history
  <2>4. ASSUME NEW v \in Workers \ F PROVE Awake(v)'
    <3>1. CASE v = w
      BY <1>1, <1>3, <2>4, <3>1, PassStaysAwake
    <3>2. CASE v # w
      BY <1>1, <2>1, <2>2, <2>3, <2>4, <3>2, StaysAwake
    <3> QED BY <3>1, <3>2
  <2> QED BY <1>1, <2>1, <2>4 DEF OthersAwake
<1>4. ASSUME NEW w \in Workers, Fail(w) \/ Crash(w) \/ TickLate(w) PROVE OthersAwake'
  <2>1. UNCHANGED <<schedule, ever, held>> /\ faults' = faults + 1
    BY <1>4 DEF Fail, Crash, TickLate, Fault, history
  <2>2. \A v \in Workers : v # w =>
          /\ UNCHANGED <<pc[v], now[v], wake[v]>>
          /\ clock' = clock \/ (clock' = clock + 1 /\ OnTime(v))
    <3>1. CASE Fail(w) \/ Crash(w)
      BY <1>0, <3>1 DEF Fail, Crash, Sleep, TypeOK
    <3>2. CASE TickLate(w)
      BY <3>2 DEF TickLate, schedulers
    <3> QED BY <1>4, <3>1, <3>2
  <2>3. ASSUME NEW v \in Workers \ (F \cup {w}) PROVE Awake(v)'
    <3>1. v \in Workers /\ Awake(v) /\ v # w
      BY <1>1, <2>3
    <3>2. /\ UNCHANGED <<schedule, pc[v], now[v], wake[v]>>
          /\ clock' = clock \/ (clock' = clock + 1 /\ OnTime(v))
      BY <2>1, <2>2, <3>1
    <3> QED BY <2>1, <3>1, <3>2, StaysAwake
  <2>4. Cardinality(F \cup {w}) <= faults'
    <3>1. CASE w \in F
      <4>1. Cardinality(F \cup {w}) = Cardinality(F)
        <5>1. F \cup {w} = F
          BY <3>1
        <5> QED BY <5>1, Zenon
      <4>2. Cardinality(F) <= faults'
        BY <1>0, <1>1, <1>2, <2>1
      <4> QED BY <4>1, <4>2, Zenon
    <3>2. CASE w \notin F
      <4>1. Cardinality(F \cup {w}) = Cardinality(F) + 1
        BY <1>2, <3>2, FS_AddElement
      <4> QED BY <1>0, <1>1, <1>2, <2>1, <4>1
    <3> QED BY <3>1, <3>2
  <2>5. F \cup {w} \in SUBSET Workers
    OBVIOUS
  <2> QED BY <2>3, <2>4, <2>5 DEF OthersAwake
<1>5. ASSUME NEW w \in Workers, Restart(w) PROVE OthersAwake'
  <2>1. UNCHANGED <<clock, schedule, ever, held, faults>> /\ pc[w] = "down"
    BY <1>5 DEF Restart, history
  <2>2. \A v \in Workers : v # w => UNCHANGED <<pc[v], now[v], wake[v]>>
    BY <1>0, <1>5 DEF Restart, TypeOK
  <2>3. ASSUME NEW v \in Workers \ F PROVE Awake(v)'
    <3>1. v # w
      BY <1>1, <2>1, <2>3 DEF Awake
    <3> QED BY <1>1, <2>1, <2>2, <2>3, <3>1, StaysAwake
  <2> QED BY <1>1, <2>1, <2>3 DEF OthersAwake
<1>6. ASSUME UNCHANGED <<schedule, pc, now, wake, ever, held>>, faults <= faults',
             faults' \in Int,
             clock' = clock \/ (clock' = clock + 1 /\ \A v \in Workers : OnTime(v))
      PROVE  OthersAwake'
  <2>1. ASSUME NEW v \in Workers \ F PROVE Awake(v)'
    BY <1>1, <1>6, <2>1, StaysAwake
  <2>2. Cardinality(F) <= faults'
    BY <1>0, <1>1, <1>2, <1>6
  <2> QED BY <2>1, <2>2 DEF OthersAwake
<1>7. ASSUME NEW o \in Occurrences,
             Promote(o) \/ Begin(o) \/ Finish(o) \/ Retry(o) \/ Drop(o)
      PROVE  OthersAwake'
  <2>1. UNCHANGED <<clock, schedule, pc, now, wake, ever, held>>
    BY <1>7 DEF Promote, Begin, Finish, Retry, Drop, history, schedulers
  <2>2. faults' = faults \/ faults' = faults + 1
    BY <1>7 DEF Promote, Begin, Finish, Retry, Drop, Fault
  <2> QED BY <1>0, <1>6, <2>1, <2>2
<1>8. CASE Tick \/ UNCHANGED vars
  <2>1. /\ UNCHANGED <<schedule, pc, now, wake, ever, held, faults>>
        /\ clock' = clock \/ (clock' = clock + 1 /\ \A v \in Workers : OnTime(v))
    BY <1>8 DEF Tick, vars, schedulers, history
  <2> QED BY <1>0, <1>6, <2>1
<1> QED BY <1>3, <1>4, <1>5, <1>7, <1>8 DEF Next

\* As long as there are fewer faults than workers, some worker has seen to
\* every fire until now.
LEMMA AwakeMissesNone == KnownInv /\ OthersAwake => NoneMissed
<1> SUFFICES ASSUME KnownInv, OthersAwake, faults < Cardinality(Workers),
                    NEW o \in Expected(clock)
             PROVE  o \in ever \cup held
  BY DEF NoneMissed
<1>0. TypeOK /\ faults \in Int /\ clock \in Int /\ clock <= Horizon
  BY Numbers DEF KnownInv, TypeOK
<1>1. PICK F \in SUBSET Workers :
        Cardinality(F) <= faults /\ \A v \in Workers \ F : Awake(v)
  BY DEF OthersAwake
<1>2. IsFiniteSet(F) /\ Cardinality(F) \in Int /\ Cardinality(Workers) \in Int
  BY CronAssumption, FS_Subset, FS_CardinalityType
<1>3. F # Workers
  BY <1>0, <1>1, <1>2
<1>4. PICK w \in Workers : Awake(w)
  BY <1>1, <1>3
<1>5. PICK t \in Int : clock <= t /\ Covers(ever \cup held, t)
  <2>1. wake[w] \in Int /\ pc[w] \in {"down", "asleep", "asked", "cleared"}
    BY <1>0, Numbers DEF TypeOK
  <2> QED BY <1>0, <1>4, <2>1 DEF Awake, InTime
<1>6. o \in (Start + Poll) .. Horizon /\ o <= t /\ NextAfter(schedule, o - 1) = o
  BY <1>0, <1>5, Numbers DEF Expected
<1> QED BY <1>5, <1>6 DEF Covers

\* With prompt passes and a poll no longer than the cron's period, as long as
\* there are fewer faults than workers, every occurrence is staged before it is
\* due, or held back behind an earlier one (_cron_scheduler).
THEOREM StagedInTime ==
  ASSUME Prompt, PollKeepsUp PROVE Spec => []NoneMissed
<1> DEFINE Inv == KnownInv /\ OthersAwake
<1>1. Init => Inv
  BY InitKnown, InitAwake
<1>2. Inv /\ [Next]_vars => Inv'
  BY StepKnows, StepAwake
<1>3. Inv => NoneMissed
  BY AwakeMissesNone
<1> HIDE DEF Inv
<1> QED BY <1>1, <1>2, <1>3, PTL DEF Spec

-----------------------------------------------------------------------------
(* What an expression fires at, on the wall clock.                         *)

\* Occurrence o stands for the wall minute m.
Serves(z, m, o) ==
  IF m \in Skipped(z, z.at) THEN o = z.at ELSE Wall(z, o) = m /\ ~Fold(z, o)

\* The latest minute shown, without the maximum.
LEMMA ShownIs ==
  ASSUME NEW z \in [at : Int, by : Int], NEW t \in Int
  PROVE  Shown(z, t) = IF z.at <= t /\ z.by < 0 /\ t + z.by < z.at THEN z.at - 1
                       ELSE Wall(z, t)
<1>1. CASE z.at <= t /\ z.by < 0
  <2> DEFINE a == z.at - 1
             b == t + z.by
             top == IF a >= b THEN a ELSE b
  <2>1. a \in Int /\ b \in Int /\ top \in Int /\ a <= top /\ b <= top
          /\ (top = a \/ top = b)
    OBVIOUS
  <2>2. Wall(z, t) = b
    BY <1>1 DEF Wall
  <2>3. Shown(z, t) = Max({a, b})
    BY <1>1, <2>2 DEF Shown
  <2>4. a = z.at - 1 /\ b = t + z.by
    OBVIOUS
  <2> HIDE DEF a, b, top
  <2>5. Max({a, b}) \in {a, b} /\ \A x \in {a, b} : x <= Max({a, b})
    BY <2>1, MaxIs
  <2>6. Max({a, b}) = top
    BY <2>1, <2>5
  <2> QED BY <1>1, <2>1, <2>2, <2>3, <2>4, <2>6 DEF top
<1>2. CASE ~(z.at <= t /\ z.by < 0)
  BY <1>2 DEF Shown
<1> QED BY <1>1, <1>2

\* Only the minute of the change skips any.
LEMMA SkipsAtTheChange ==
  ASSUME NEW z \in [at : Int, by : Int], NEW t \in Int, NEW m \in Skipped(z, t)
  PROVE  t = z.at
BY DEF Skipped, Wall

\* A wall minute shown in a span of time is served in it, by one occurrence.
LEMMA ServedOnce ==
  ASSUME NEW z \in [at : Int, by : Int], NEW a \in Int, NEW c \in Int,
         NEW m \in (Shown(z, a) + 1) .. Shown(z, c)
  PROVE  \E o \in (a + 1) .. c :
           Serves(z, m, o) /\ \A p \in Int : Serves(z, m, p) => p = o
<1>1. Shown(z, a) \in Int /\ Shown(z, c) \in Int /\ m \in Int
  BY ShownIs DEF Wall
<1>2. /\ Shown(z, a) < m /\ m <= Shown(z, c)
  BY <1>1
<1> DEFINE s == IF m \in Skipped(z, z.at) THEN z.at
                ELSE IF m < z.at THEN m ELSE m - z.by
<1>3. Serves(z, m, s)
  BY <1>1 DEF Serves, Skipped, Wall, Fold
<1>4. \A p \in Int : Serves(z, m, p) => p = s
  BY <1>1 DEF Serves, Skipped, Wall, Fold
<1>5. s \in (a + 1) .. c
  BY <1>1, <1>2, ShownIs DEF Skipped, Wall
<1> QED BY <1>3, <1>4, <1>5

\* An occurrence in a span of time serves minutes shown in that span.
LEMMA ServesInTime ==
  ASSUME NEW z \in [at : Int, by : Int], NEW a \in Int, NEW c \in Int,
         NEW o \in (a + 1) .. c, NEW m \in Int, Serves(z, m, o)
  PROVE  m \in (Shown(z, a) + 1) .. Shown(z, c)
<1>1. Shown(z, a) \in Int /\ Shown(z, c) \in Int
  BY ShownIs DEF Wall
<1>2. Shown(z, a) < m
  BY ShownIs DEF Serves, Skipped, Wall, Fold
<1>3. m <= Shown(z, c)
  BY ShownIs DEF Serves, Skipped, Wall, Fold
<1> QED BY <1>1, <1>2, <1>3

\* A change by which the minutes of a rate map to themselves leaves it alone.
LEMMA ShiftedTimes ==
  ASSUME NEW times \in SUBSET (0 .. (Day - 1)), NEW by \in Int,
         {(m + by) % Day : m \in times} = times, NEW t \in Int
  PROVE  (t + by) % Day \in times <=> t % Day \in times
<1>0. Day \in Nat \ {0}
  BY Numbers
<1>1. ASSUME t % Day \in times PROVE (t + by) % Day \in times
  <2> DEFINE r == t % Day
             q == t \div Day
             r2 == (r + by) % Day
             q2 == (r + by) \div Day
  <2>1. r \in 0 .. (Day - 1) /\ q \in Int /\ t = q * Day + r
    BY <1>0, ModIs, DivIs
  <2> HIDE DEF r, q
  <2>2. r2 \in 0 .. (Day - 1) /\ q2 \in Int /\ r + by = q2 * Day + r2
    <3>1. r + by \in Int
      BY <2>1
    <3> QED BY <1>0, <3>1, ModIs, DivIs
  <2>3. r2 \in times
    BY <1>1 DEF r
  <2> HIDE DEF r2, q2
  <2>4. q + q2 \in Int /\ t + by \in Int /\ t + by = (q + q2) * Day + r2
    BY <1>0, <2>1, <2>2
  <2>5. (t + by) % Day = r2
    BY <1>0, <2>2, <2>4, ModUnique
  <2> QED BY <2>3, <2>5
<1>2. ASSUME (t + by) % Day \in times PROVE t % Day \in times
  <2>1. PICK m \in times : (m + by) % Day = (t + by) % Day
    BY <1>2
  <2> DEFINE r == (t + by) % Day
             p == (t + by) \div Day
             q == (m + by) \div Day
  <2>2. p \in Int /\ t + by = p * Day + r /\ r \in Int
    <3>1. t + by \in Int
      OBVIOUS
    <3>2. r \in 0 .. (Day - 1) /\ t + by = p * Day + r /\ p \in Int
      BY <1>0, <3>1, ModIs, DivIs
    <3> QED BY <3>2
  <2>3. q \in Int /\ m + by = q * Day + r /\ m \in Int
    <3>1. m \in Int /\ m + by \in Int
      BY <1>0
    <3>2. m + by = q * Day + ((m + by) % Day) /\ q \in Int
      BY <1>0, <3>1, ModIs, DivIs
    <3> QED BY <2>1, <3>1, <3>2
  <2> HIDE DEF r, p, q
  <2>4. p - q \in Int /\ t = (p - q) * Day + m
    <3>1. p * Day \in Int /\ q * Day \in Int /\ (p - q) * Day = p * Day - q * Day
      BY <1>0, <2>2, <2>3
    <3> QED BY <2>2, <2>3, <3>1
  <2>5. t % Day = m
    BY <1>0, <2>4, ModUnique
  <2> QED BY <2>5
<1> QED BY <1>1, <1>2

\* Without coalesce and with a worker that nothing happened to, what was staged
\* and has come due is what the expression fires at.
LEMMA PassedAreFires ==
  ASSUME KnownInv, NoneMissed, schedule.every = 0, ~schedule.coalesce,
         faults < Cardinality(Workers), NEW o \in Int
  PROVE  o \in Passed <=> o \in (Start + Poll) .. clock /\ FiresAt(schedule, o)
<1>0. schedule \in Schedules /\ clock \in Start .. Horizon /\ held = {}
        /\ ever \subseteq Occurrences
  BY DEF KnownInv, TypeOK, OnlyFires
<1>1. ASSUME o \in Passed
      PROVE  o \in (Start + Poll) .. clock /\ FiresAt(schedule, o)
  BY <1>0, <1>1, Numbers DEF Passed, KnownInv, OnlyFires
<1>2. ASSUME o \in (Start + Poll) .. clock, FiresAt(schedule, o)
      PROVE  o \in Passed
  <2>1. o - 1 \in Start .. Horizon /\ clock \in Int /\ Start + Poll \in Int
    BY <1>0, <1>2, Numbers
  <2> DEFINE n == NextAfter(schedule, o - 1)
  <2>2. /\ n \in ((o - 1) + 1) .. ((o - 1) + 2 * Day)
        /\ \A u \in ((o - 1) + 1) .. ((o - 1) + 2 * Day) : FiresAt(schedule, u) => n <= u
    BY <1>0, <2>1, NextOfExpression
  <2> HIDE DEF n
  <2>3. o \in ((o - 1) + 1) .. ((o - 1) + 2 * Day)
    BY Numbers
  <2>4. n = o
    BY <1>2, <2>2, <2>3, Numbers
  <2>5. o \in Expected(clock)
    BY <1>2, <2>4 DEF Expected, n
  <2>6. o \in ever
    BY <1>0, <2>5 DEF NoneMissed
  <2> QED BY <1>2, <2>1, <2>6 DEF Passed
<1> QED BY <1>1, <1>2

\* Then every date has its time of day once.
LEMMA DatesAreServed == KnownInv /\ NoneMissed => OnceADay
<1> DEFINE z == schedule.zone
           a == Start + Poll - 1
           due == {m \in (Shown(z, a) + 1) .. Shown(z, clock) : Matches(schedule, m)}
<1>1. SUFFICES ASSUME KnownInv, NoneMissed, schedule.every = 0, schedule.fixed,
                      ~schedule.coalesce, faults < Cardinality(Workers)
               PROVE  /\ \A m \in due : Cardinality(Serving(m, Passed)) = 1
                      /\ Passed \subseteq UNION {Serving(m, Passed) : m \in due}
  BY DEF OnceADay
<1>2. /\ schedule \in Schedules /\ z \in [at : Int, by : Int]
      /\ clock \in Int /\ a \in Int /\ a + 1 = Start + Poll /\ a + 1 \in Int
  BY <1>1, SchedulesAssumption, Numbers DEF KnownInv, TypeOK
<1>3. \A o \in Int : o \in Passed <=> o \in (a + 1) .. clock /\ FiresAt(schedule, o)
  BY <1>1, <1>2, PassedAreFires
<1>4. \A m : Serving(m, Passed) = {o \in Passed : Serves(z, m, o)}
  BY DEF Serving, Serves
<1>5. Passed \subseteq Int
  <2>1. ever \subseteq Occurrences
    BY <1>1 DEF KnownInv, TypeOK
  <2>2. Occurrences \subseteq Int
    BY Numbers DEF Occurrences
  <2> QED BY <2>1, <2>2 DEF Passed
<1> HIDE DEF z, a
<1>6. ASSUME NEW m \in due PROVE Cardinality(Serving(m, Passed)) = 1
  <2>1. m \in (Shown(z, a) + 1) .. Shown(z, clock) /\ Matches(schedule, m)
    OBVIOUS
  <2>2. PICK o \in (a + 1) .. clock :
          Serves(z, m, o) /\ \A p \in Int : Serves(z, m, p) => p = o
    BY <1>2, <2>1, ServedOnce
  <2>3. FiresAt(schedule, o)
    <3>1. CASE m \in Skipped(z, z.at)
      <4>1. o = z.at
        BY <2>2, <3>1 DEF Serves
      <4> QED BY <1>1, <2>1, <3>1, <4>1 DEF FiresAt, z
    <3>2. CASE m \notin Skipped(z, z.at)
      <4>1. Wall(z, o) = m /\ ~Fold(z, o)
        BY <2>2, <3>2 DEF Serves
      <4> QED BY <2>1, <4>1 DEF FiresAt, z
    <3> QED BY <3>1, <3>2
  <2>4. o \in Passed /\ o \in Int
    BY <1>2, <1>3, <2>2, <2>3
  <2>5. Serving(m, Passed) = {o}
    <3>1. Serving(m, Passed) = {p \in Passed : Serves(z, m, p)}
      BY <1>4
    <3>2. \A p \in Passed : Serves(z, m, p) <=> p = o
      BY <1>5, <2>2
    <3> QED BY <2>4, <3>1, <3>2
  <2> QED BY <2>5, FS_Singleton
<1>7. ASSUME NEW o \in Passed PROVE \E m \in due : o \in Serving(m, Passed)
  <2>1. o \in Int
    BY <1>5
  <2>2. o \in (a + 1) .. clock /\ FiresAt(schedule, o)
    BY <1>3, <2>1
  <2>3. PICK m \in Int : Matches(schedule, m) /\ Serves(z, m, o)
    <3>1. CASE ~Fold(z, o) /\ Matches(schedule, Wall(z, o))
      <4>1. Wall(z, o) \in Int /\ Wall(z, o) \notin Skipped(z, z.at)
        BY <1>2, <2>1 DEF Wall, Skipped
      <4> QED BY <3>1, <4>1 DEF Serves
    <3>2. ASSUME NEW w \in Skipped(z, o), Matches(schedule, w)
          PROVE  \E m \in Int : Matches(schedule, m) /\ Serves(z, m, o)
      <4>1. w \in Int
        BY <1>2, <2>1 DEF Skipped, Wall
      <4>2. o = z.at
        BY <1>2, <2>1, <3>2, SkipsAtTheChange
      <4> QED BY <3>2, <4>1, <4>2 DEF Serves
    <3> QED BY <1>1, <2>2, <3>1, <3>2 DEF FiresAt, z
  <2>4. m \in (Shown(z, a) + 1) .. Shown(z, clock)
    BY <1>2, <2>2, <2>3, ServesInTime
  <2>5. m \in due /\ o \in Serving(m, Passed)
    BY <1>4, <2>3, <2>4
  <2> QED BY <2>5
<1> QED BY <1>6, <1>7

\* Then a rate whose minutes the change maps to themselves keeps its interval.
LEMMA RateIsKept == KnownInv /\ NoneMissed => RateKept
<1> SUFFICES ASSUME KnownInv, NoneMissed, schedule.every = 0, ~schedule.fixed,
                    ~schedule.coalesce,
                    faults < Cardinality(Workers),
                    {(m + schedule.zone.by) % Day : m \in schedule.times} = schedule.times,
                    NEW t \in (Start + Poll) .. clock
             PROVE  t \in Passed <=> t % Day \in schedule.times
  BY DEF RateKept
<1>1. /\ schedule \in Schedules /\ schedule.times \in SUBSET (0 .. (Day - 1))
      /\ schedule.zone.by \in Int /\ t \in Int
  BY SchedulesAssumption, Numbers DEF KnownInv, TypeOK
<1>2. t \in Passed <=> FiresAt(schedule, t)
  BY <1>1, PassedAreFires
<1>3. FiresAt(schedule, t) <=> Wall(schedule.zone, t) % Day \in schedule.times
  BY DEF FiresAt, Matches
<1>4. (t + schedule.zone.by) % Day \in schedule.times <=> t % Day \in schedule.times
  BY <1>1, ShiftedTimes
<1> QED BY <1>2, <1>3, <1>4 DEF Wall

\* A time of day comes once for every date, whichever minutes the change of the
\* clock repeats or skips, and at no other time (_fires_at).
THEOREM EveryDateOnce ==
  ASSUME Prompt, PollKeepsUp PROVE Spec => []OnceADay
<1>1. Spec => []NoneMissed
  BY StagedInTime
<1>2. KnownInv /\ NoneMissed => OnceADay
  BY DatesAreServed
<1> QED BY <1>1, <1>2, InitKnown, StepKnows, PTL DEF Spec

\* A rate fires at the same minutes of real time before and after a change of the
\* clock that maps them to themselves (_fires_at).
THEOREM RatesRunOn ==
  ASSUME Prompt, PollKeepsUp PROVE Spec => []RateKept
<1>1. Spec => []NoneMissed
  BY StagedInTime
<1>2. KnownInv /\ NoneMissed => RateKept
  BY RateIsKept
<1> QED BY <1>1, <1>2, InitKnown, StepKnows, PTL DEF Spec
=============================================================================

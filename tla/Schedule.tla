------------------------------ MODULE Schedule ------------------------------
(***************************************************************************)
(* When a cron fires: a fixed interval, or a cron expression read in UTC   *)
(* or on the wall clock of a zone whose offset changes once.  Time counts  *)
(* minutes, and a day has Day of them.  An expression is the set of the    *)
(* minutes of the day it matches; the fields that pick dates are left out, *)
(* and so is parsing.                                                      *)
(***************************************************************************)
EXTENDS Integers, FiniteSetsExt

CONSTANT Day   \* minutes in a day

ASSUME ScheduleAssumption == Day \in Nat \ {0}

\* A zone's offset is 0 before the minute `at`, and `by` from then on.  UTC, and
\* tz=None, is a change by 0.
Wall(zone, t) == IF t < zone.at THEN t ELSE t + zone.by

\* fold = 1: the wall clock shows this minute for the second time.
Fold(zone, t) == zone.at <= t /\ t < zone.at - zone.by

\* The minutes the wall clock jumped over to reach t.
Skipped(zone, t) == (Wall(zone, t - 1) + 1) .. (Wall(zone, t) - 1)

Matches(s, wall) == wall % Day \in s.times

\* Mutants: a repeated time of day fires again; a skipped one does not fire; a
\* rate is treated like a time of day.
FiresInBothFolds(s, t) ==
  \/ Matches(s, Wall(s.zone, t))
  \/ s.fixed /\ \E w \in Skipped(s.zone, t) : Matches(s, w)

FiresOncePerMatch(s, t) ==
  \/ ~Fold(s.zone, t) /\ Matches(s, Wall(s.zone, t))
  \/ \E w \in Skipped(s.zone, t) : Matches(s, w)

\* A rate (`*` in the minute or the hour) follows real time.  A time of day
\* fires the first time the clock shows it, and as the gap ends if it never does.
FiresAt(s, t) ==
  \/ (~s.fixed \/ ~Fold(s.zone, t)) /\ Matches(s, Wall(s.zone, t))
  \/ s.fixed /\ \E w \in Skipped(s.zone, t) : Matches(s, w)

\* The code scans five years; here two days hold a match of any expression.
CronNext(s, after) == Min({t \in (after + 1) .. (after + 2 * Day) : FiresAt(s, t)})
CronPrev(s, before) == Max({t \in (before - 2 * Day) .. (before - 1) : FiresAt(s, t)})

IntervalNext(s, now) == ((now \div s.every) + 1) * s.every
IntervalPrev(s, fire) == ((fire - 1) \div s.every) * s.every

\* An interval has every > 0, an expression every = 0.
NextAfter(s, now) == IF s.every > 0 THEN IntervalNext(s, now) ELSE CronNext(s, now)
PreviousBefore(s, fire) ==
  IF s.every > 0 THEN IntervalPrev(s, fire) ELSE CronPrev(s, fire)
=============================================================================

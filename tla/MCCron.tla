------------------------------- MODULE MCCron -------------------------------
(* Small instances of Cron for TLC: days of four minutes, and clock changes by *)
(* two minutes at every minute of a day, in both directions.                   *)
EXTENDS Cron, TLC

Symmetric == Permutations(Workers)

UTC == [at |-> 0, by |-> 0]
Changes == {[at |-> t, by |-> d] : t \in 8 .. 11, d \in {-2, 2}}

Every(n, c) == [every |-> n, times |-> {}, fixed |-> FALSE, zone |-> UTC, coalesce |-> c]
Expression(ts, f, z) ==
  [every |-> 0, times |-> ts, fixed |-> f, zone |-> z, coalesce |-> FALSE]

AllSchedules ==
  {Every(2, TRUE), Every(3, FALSE)}
    \cup {Expression({1}, TRUE, z) : z \in Changes \cup {UTC}}
    \cup {Expression({0, 2}, FALSE, z) : z \in Changes}
    \cup {[Expression({1}, TRUE, UTC) EXCEPT !.coalesce = TRUE]}
=============================================================================

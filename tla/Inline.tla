------------------------------- MODULE Inline -------------------------------
(***************************************************************************)
(* ardiq.testing: inline mode, in which `enqueue` runs the task and comes  *)
(* back when it has finished.  Tasks enqueue other tasks, and tests call   *)
(* concurrently, all on one event loop: a step is what happens from one    *)
(* await that suspends to the next.                                        *)
(***************************************************************************)
EXTENDS Naturals, Relation

CONSTANTS
  Tasks,      \* task ids
  Callers,    \* coroutines of the test
  MaxTries,   \* a task's max_retries + 1
  MaxRuns,    \* bound: runs
  NoRun

ASSUME InlineAssumption == {MaxTries, MaxRuns} \subseteq Nat \ {0}

Runs == 1 .. MaxRuns

VARIABLES
  results, dead,  \* _results, _dead: the run that wrote it, NoRun if there is none
  running,        \* _running: the ids
  registered,     \* app._running: id -> the run an abort cancels
  at,             \* where each run is
  task, tries,    \* of each run
  cancelled,      \* runs whose next await raises CancelledError
  waits           \* the run that a caller, or a run's task, awaits

store == <<results, dead>>
vars  == <<store, running, registered, at, task, tries, cancelled, waits>>

Actors == Callers \cup Runs

\* Where a run is: "none", "scheduled" (its asyncio task exists and has not begun),
\* "running", "hooks" (the attempt failed and the error hooks run), "over", or
\* "dropped": cancelled outside the attempt.
Over == {"over", "dropped"}

Init ==
  /\ results = [t \in Tasks |-> NoRun] /\ dead = [t \in Tasks |-> NoRun]
  /\ running = {} /\ registered = [t \in Tasks |-> NoRun]
  /\ at = [r \in Runs |-> "none"] /\ task \in [Runs -> Tasks]
  /\ tries = [r \in Runs |-> 0] /\ cancelled = {}
  /\ waits = [a \in Actors |-> NoRun]

Waiting(a) == waits[a] # NoRun /\ at[waits[a]] \notin Over

\* A test's coroutine, or the code of a task, that has the loop's attention.
Active(a) == ~Waiting(a) /\ (a \in Runs => at[a] = "running" /\ a \notin cancelled)

-----------------------------------------------------------------------------
\* Mutant: a second enqueue of a running id awaits the run there is.
EnqueueJoins(a, r) ==
  /\ at[r] = "none" /\ \A q \in Runs : at[q] = "none" => r <= q
  /\ IF task[r] \in running
     THEN /\ \E q \in Runs : /\ task[q] = task[r] /\ at[q] \in {"running", "hooks"}
                           /\ waits' = [waits EXCEPT ![a] = q]
          /\ UNCHANGED <<results, at>>
     ELSE /\ results' = [results EXCEPT ![task[r]] = NoRun]
          /\ at' = [at EXCEPT ![r] = "scheduled"]
          /\ waits' = [waits EXCEPT ![a] = r]

\* An id that is running already is let go; else ensure_future(_run), awaited.
Enqueue(a, r) ==
  /\ at[r] = "none" /\ \A q \in Runs : at[q] = "none" => r <= q
  /\ IF task[r] \in running THEN UNCHANGED <<results, at, waits>>
     ELSE /\ results' = [results EXCEPT ![task[r]] = NoRun]
          /\ at' = [at EXCEPT ![r] = "scheduled"]
          /\ waits' = [waits EXCEPT ![a] = r]

Call(a, r) ==
  /\ Active(a) /\ Enqueue(a, r)
  /\ UNCHANGED <<dead, running, registered, task, tries, cancelled>>

\* dead_get and dead_replay do not suspend; the letter is gone, run or not.
Replay(a, r) ==
  /\ Active(a) /\ dead[task[r]] # NoRun
  /\ dead' = [dead EXCEPT ![task[r]] = NoRun]
  /\ Enqueue(a, r)
  /\ UNCHANGED <<running, registered, task, tries, cancelled>>

Delete(a, t) ==
  /\ Active(a) /\ dead[t] # NoRun
  /\ dead' = [dead EXCEPT ![t] = NoRun]
  /\ UNCHANGED <<results, running, registered, at, task, tries, cancelled, waits>>

-----------------------------------------------------------------------------
\* An attempt, up to the first await of the task's code.
Attempt(r) ==
  /\ running' = running \cup {task[r]}
  /\ registered' = [registered EXCEPT ![task[r]] = r]
  /\ at' = [at EXCEPT ![r] = "running"]
  /\ tries' = [tries EXCEPT ![r] = @ + 1]

Begin(r) ==
  /\ at[r] = "scheduled" /\ r \notin cancelled
  /\ Attempt(r)
  /\ UNCHANGED <<store, task, cancelled, waits>>

Unregister(r) == registered' = [registered EXCEPT ![task[r]] = NoRun]

\* The end of _run: its finally block pops the id, whoever put it there.
Ends(r, how) ==
  /\ at' = [at EXCEPT ![r] = how]
  /\ running' = running \ {task[r]}

Keep(r, isDead) ==
  /\ results' = [results EXCEPT ![task[r]] = r]
  /\ dead' = IF isDead THEN [dead EXCEPT ![task[r]] = r] ELSE dead

\* The task returned, or was cancelled: _execute_task returns at once.
Succeed(r) ==
  /\ at[r] = "running" /\ ~Waiting(r)
  /\ cancelled' = cancelled \ {r}
  /\ Unregister(r) /\ Keep(r, FALSE) /\ Ends(r, "over")
  /\ UNCHANGED <<task, tries, waits>>

\* It raised: out of app._running, then the hooks.
Raise(r) ==
  /\ Active(r) /\ r \in Runs
  /\ Unregister(r)
  /\ at' = [at EXCEPT ![r] = "hooks"]
  /\ UNCHANGED <<store, running, task, tries, cancelled, waits>>

\* The hooks are over: another attempt right away, or a dead letter.
AfterHooks(r) ==
  /\ at[r] = "hooks" /\ r \notin cancelled
  /\ IF tries[r] < MaxTries
     THEN Attempt(r) /\ UNCHANGED store
     ELSE Keep(r, TRUE) /\ Ends(r, "over") /\ UNCHANGED <<registered, tries>>
  /\ UNCHANGED <<task, cancelled, waits>>

-----------------------------------------------------------------------------
\* asyncio: a cancel goes to what the task awaits, down to the last one.
Awaits == [p, q \in Runs |-> Waiting(p) /\ waits[p] = q]
Innermost(r) ==
  {q \in Runs : ~Waiting(q) /\ ReflexiveTransitiveClosure(Awaits, Runs)[r, q]}

Abort(a, t) ==
  /\ Active(a) /\ registered[t] # NoRun
  /\ cancelled' = cancelled \cup Innermost(registered[t])
  /\ UNCHANGED <<store, running, registered, at, task, tries, waits>>

\* Cancelled before it began or while its hooks ran: it ends without a result, and
\* a run that awaits it is cancelled in turn.
Dropped(r) ==
  /\ r \in cancelled /\ at[r] \in {"scheduled", "hooks"}
  /\ IF at[r] = "hooks" THEN Ends(r, "dropped")
     ELSE at' = [at EXCEPT ![r] = "dropped"] /\ UNCHANGED running
  /\ cancelled' = (cancelled \ {r})
                    \cup {p \in Runs : waits[p] = r /\ at[p] = "running"}
  /\ UNCHANGED <<store, registered, task, tries, waits>>

-----------------------------------------------------------------------------
RunStep(r) == Begin(r) \/ Succeed(r) \/ AfterHooks(r) \/ Dropped(r)

Next ==
  \/ \E a \in Actors, r \in Runs : Call(a, r) \/ Replay(a, r)
  \/ \E a \in Actors, t \in Tasks : Delete(a, t) \/ Abort(a, t)
  \/ \E r \in Runs : RunStep(r) \/ Raise(r)

\* The loop runs what is ready, and a task's code ends.
Spec == Init /\ [][Next]_vars
FairSpec == Spec /\ \A r \in Runs : WF_vars(RunStep(r))

-----------------------------------------------------------------------------
\* Every enqueue that runs a task comes back, though tasks enqueue each other and
\* themselves, and the result is there (or the id was enqueued once more): the
\* promise of inline().  Only a cancelled enqueue comes back without one.
EnqueueReturns ==
  \A r \in Runs :
    at[r] = "scheduled" ~>
      \/ at[r] = "dropped"
      \/ at[r] = "over" /\ results[task[r]] # NoRun
      \/ \E q \in Runs : q > r /\ task[q] = task[r] /\ at[q] # "none"
=============================================================================

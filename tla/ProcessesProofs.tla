-------------------------- MODULE ProcessesProofs --------------------------
(***************************************************************************)
(* What holds of the processes for any number of workers, requests, aborts *)
(* and crashes.                                                            *)
(***************************************************************************)
EXTENDS Processes, Integers, TLAPS

LEMMA InitTyped == ASSUME Init PROVE TypeOK
<1> USE DEF Init
<1>1. /\ sup \in SupervisorSteps /\ worker \in [Workers -> WorkerSteps]
      /\ supSignals \subseteq Signals /\ polled \subseteq Workers
  BY DEF SupervisorSteps, WorkerSteps
<1>2. signals \in [Workers -> SUBSET Signals]
  OBVIOUS
<1>3. /\ run \in [Tasked -> RunSteps] /\ child \in [Tasked -> ChildSteps]
      /\ killing \in [Tasked -> {"none", "TERM", "KILL"}]
      /\ message \in [Tasked -> {"none", "answer", "gone"}]
  BY DEF RunSteps, ChildSteps
<1>4. stubborn \in [Tasked -> BOOLEAN] /\ timedOut \in [Tasked -> BOOLEAN]
  OBVIOUS
<1>5. \A w \in Tasked : run[w] = "none" /\ child[w] = "none"
  OBVIOUS
<1> QED BY <1>1, <1>2, <1>3, <1>4, <1>5 DEF TypeOK

LEMMA DeliverTyped ==
  ASSUME TypeOK, NEW s \in Signals, Deliver(s)
  PROVE  signals' \in [Workers -> SUBSET Signals]
  BY DEF TypeOK, Deliver

LEMMA SupervisorTyped == ASSUME TypeOK, SupervisorStep PROVE TypeOK'
<1> USE DEF TypeOK, SupervisorSteps, supervisor, budget, runVars
<1>1. CASE InstallHandlers
  BY <1>1 DEF InstallHandlers
<1>2. CASE SupervisorEnds
  BY <1>2 DEF SupervisorEnds
<1>3. ASSUME NEW w \in Workers, Spawn(w) PROVE TypeOK'
  BY <1>3 DEF Spawn, WorkerSteps
<1>4. ASSUME NEW w \in Workers, Poll(w) PROVE TypeOK'
  <2>1. CASE worker[w] \in NonZero /\ sup = "watching"
    <3>1. Deliver("TERM") /\ sup' = "stopping" /\ failed' = TRUE
      BY <1>4, <2>1 DEF Poll, StopChildren
    <3>2. signals' \in [Workers -> SUBSET Signals]
      BY <3>1, DeliverTyped DEF Signals
    <3> QED BY <1>4, <3>1, <3>2 DEF Poll
  <2>2. CASE ~(worker[w] \in NonZero /\ sup = "watching")
    BY <1>4, <2>2 DEF Poll
  <2> QED BY <2>1, <2>2
<1>5. ASSUME NEW s \in Signals, SupervisorSignal(s) PROVE TypeOK'
  <2>1. CASE sup = "starting"
    BY <1>5, <2>1 DEF SupervisorSignal
  <2>2. CASE sup # "starting"
    <3>1. Deliver("TERM") /\ sup' = "stopping"
      BY <1>5, <2>2 DEF SupervisorSignal, StopChildren
    <3>2. signals' \in [Workers -> SUBSET Signals]
      BY <3>1, DeliverTyped DEF Signals
    <3> QED BY <1>5, <3>1, <3>2 DEF SupervisorSignal
  <2> QED BY <2>1, <2>2
<1> QED BY <1>1, <1>2, <1>3, <1>4, <1>5 DEF SupervisorStep

LEMMA WorkerTyped ==
  ASSUME TypeOK, NEW w \in Workers, WorkerStep(w) \/ Return(w) PROVE TypeOK'
<1> USE DEF TypeOK, SupervisorSteps, supervisor, budget, runVars
<1>1. CASE Boot(w)
  BY <1>1 DEF Boot, WorkerSteps
<1>2. CASE Exit(w)
  BY <1>2 DEF Exit, Dies, WorkerSteps, Ended
<1>3. ASSUME NEW s \in Signals, HandleSignal(w, s) PROVE TypeOK'
  BY <1>3 DEF HandleSignal, Dies, WorkerSteps, Ended, NonZero
<1>4. CASE Return(w)
  BY <1>4 DEF Return, WorkerSteps
<1> QED BY <1>1, <1>2, <1>3, <1>4 DEF WorkerStep

LEMMA RunTyped ==
  ASSUME TypeOK, NEW w \in Tasked,
         StartRun(w) \/ RunStep(w) \/ Timeout(w) \/ Abort(w)
  PROVE  TypeOK'
<1> USE DEF TypeOK, supervisor, budget, runVars, RunSteps, ChildSteps
<1>1. CASE StartRun(w)
  BY <1>1 DEF StartRun
<1>2. CASE Receive(w)
  BY <1>2 DEF Receive
<1>3. CASE GiveUp(w)
  BY <1>3 DEF GiveUp
<1>4. CASE Joined(w)
  BY <1>4 DEF Joined
<1>5. CASE Timeout(w)
  BY <1>5 DEF Timeout, Interrupt
<1>6. CASE Abort(w)
  BY <1>6 DEF Abort, Interrupt
<1> QED BY <1>1, <1>2, <1>3, <1>4, <1>5, <1>6 DEF RunStep

LEMMA ChildTyped ==
  ASSUME TypeOK, NEW w \in Tasked, ChildStep(w) \/ ChildAnswers(w) \/ ChildCrashes(w)
  PROVE  TypeOK'
<1> USE DEF TypeOK, supervisor, budget, runVars, RunSteps, ChildSteps
<1>1. CASE ChildAnswers(w)
  BY <1>1 DEF ChildAnswers
<1>2. CASE child[w] # "none" /\ ChildDies(w)
  BY <1>2 DEF ChildDies
<1> QED
  BY <1>1, <1>2 DEF ChildStep, ChildExits, ChildKilled, ParentGone, ChildCrashes

LEMMA OutsideTyped ==
  ASSUME TypeOK,
         KillSupervisor \/ (\E s \in Signals : Ask(s)) \/ (\E w \in Workers : Crash(w))
  PROVE  TypeOK'
<1> USE DEF TypeOK, supervisor, budget, runVars
<1>1. CASE KillSupervisor
  BY <1>1 DEF KillSupervisor, SupervisorSteps
<1>2. ASSUME NEW s \in Signals, Ask(s) PROVE TypeOK'
  <2>1. signals' \in [Workers -> SUBSET Signals]
    BY <1>2, DeliverTyped DEF Ask
  <2> QED BY <1>2, <2>1 DEF Ask
<1>3. ASSUME NEW w \in Workers, Crash(w) PROVE TypeOK'
  BY <1>3 DEF Crash, Dies, WorkerSteps, Ended, NonZero
<1> QED BY <1>1, <1>2, <1>3

LEMMA NextTyped == ASSUME TypeOK, [Next]_vars PROVE TypeOK'
<1>1. CASE UNCHANGED vars
  BY <1>1 DEF TypeOK, vars, supervisor, runVars, budget
<1>2. CASE Next
  BY <1>2, SupervisorTyped, WorkerTyped, RunTyped, ChildTyped, OutsideTyped
     DEF Next, Environment
<1> QED BY <1>1, <1>2

\* Type correctness, for any number of workers of which any may run a process task.
THEOREM TypesHold == Spec => []TypeOK
<1>1. Init => TypeOK
  BY InitTyped
<1>2. TypeOK /\ [Next]_vars => TypeOK'
  BY NextTyped
<1> QED BY <1>1, <1>2, PTL DEF Spec

-----------------------------------------------------------------------------
(* NoRunLeftBehind.  A child that is still executing has said nothing, so  *)
(* each step its run takes towards its end costs a cancellation.           *)

Silent(w) == child[w] \in {"none", "running"} => message[w] = "none"

Paid(w) ==
  /\ run[w] \in {"terminating", "killed"} => Cancels(w) >= 1
  /\ run[w] = "joining" /\ child[w] = "running" => Cancels(w) >= 2
  /\ run[w] = "over" /\ child[w] = "running" => Cancels(w) >= 3

RunInv == TypeOK /\ \A w \in Tasked : Silent(w) /\ Paid(w)

\* A step that leaves a run, its child and the pipe between them alone.
LEMMA RunUntouched ==
  ASSUME NEW w \in Tasked, Silent(w), Paid(w),
         UNCHANGED <<run[w], child[w], message[w], timedOut[w], aborts[w]>>
  PROVE  Silent(w)' /\ Paid(w)'
  BY DEF Silent, Paid, Cancels

LEMMA CancelCounted ==
  ASSUME RunInv, NEW w \in Tasked, Timeout(w) \/ Abort(w)
  PROVE  Cancels(w)' = Cancels(w) + 1 /\ Cancels(w) \in Nat
<1> USE DEF RunInv, TypeOK, Cancels
<1>1. CASE Timeout(w)
  BY <1>1 DEF Timeout
<1>2. CASE Abort(w)
  BY <1>2 DEF Abort
<1> QED BY <1>1, <1>2

LEMMA CancelPaid ==
  ASSUME RunInv, NEW w \in Tasked, Timeout(w) \/ Abort(w)
  PROVE  Silent(w)' /\ Paid(w)'
<1>1. Interrupt(w) /\ UNCHANGED <<child, message>>
  BY DEF Timeout, Abort
<1>2. Cancels(w)' = Cancels(w) + 1 /\ Cancels(w) \in Nat
  BY CancelCounted
<1>3. run \in [Tasked -> RunSteps] /\ Silent(w) /\ Paid(w)
  BY DEF RunInv, TypeOK
<1>4. Silent(w)'
  BY <1>1, <1>3 DEF Silent
<1>5. Paid(w)'
  <2>1. CASE run[w] = "waiting" /\ run'[w] = "terminating"
    BY <1>1, <1>2, <2>1 DEF Paid
  <2>2. CASE run[w] \in {"terminating", "killed"} /\ run'[w] = "joining"
    BY <1>1, <1>2, <1>3, <2>2 DEF Paid
  <2>3. CASE run[w] = "joining" /\ run'[w] = "over"
    BY <1>1, <1>2, <1>3, <2>3 DEF Paid
  <2> QED BY <1>1, <1>3, <2>1, <2>2, <2>3 DEF Interrupt
<1> QED BY <1>4, <1>5

LEMMA RunPaid ==
  ASSUME RunInv, NEW w \in Tasked, StartRun(w) \/ RunStep(w)
  PROVE  Silent(w)' /\ Paid(w)'
<1> USE DEF RunInv, TypeOK, Silent, Paid, Cancels
<1>1. CASE StartRun(w)
  BY <1>1 DEF StartRun
<1>2. CASE Receive(w)
  BY <1>2 DEF Receive
<1>3. CASE GiveUp(w)
  BY <1>3 DEF GiveUp
<1>4. CASE Joined(w)
  BY <1>4 DEF Joined
<1> QED BY <1>1, <1>2, <1>3, <1>4 DEF RunStep

LEMMA ChildPaid ==
  ASSUME RunInv, NEW w \in Tasked, ChildStep(w) \/ ChildAnswers(w) \/ ChildCrashes(w)
  PROVE  Silent(w)' /\ Paid(w)'
<1> USE DEF RunInv, TypeOK, Silent, Paid, Cancels
<1>1. CASE ChildAnswers(w)
  BY <1>1 DEF ChildAnswers
<1>2. CASE ChildDies(w)
  BY <1>2 DEF ChildDies
<1> QED
  BY <1>1, <1>2 DEF ChildStep, ChildExits, ChildKilled, ParentGone, ChildCrashes

\* Only a run's own steps change it.
LEMMA OthersUntouched ==
  ASSUME RunInv, NEW w \in Tasked, NEW v \in Tasked, v # w,
         \/ StartRun(w) \/ RunStep(w) \/ Timeout(w) \/ Abort(w)
         \/ ChildStep(w) \/ ChildAnswers(w) \/ ChildCrashes(w)
  PROVE  UNCHANGED <<run[v], child[v], message[v], timedOut[v], aborts[v]>>
<1> USE DEF RunInv, TypeOK
<1>1. CASE StartRun(w) \/ RunStep(w)
  BY <1>1 DEF StartRun, RunStep, Receive, GiveUp, Joined
<1>2. CASE Timeout(w) \/ Abort(w)
  BY <1>2 DEF Timeout, Abort, Interrupt
<1>3. CASE ChildAnswers(w)
  BY <1>3 DEF ChildAnswers
<1>4. CASE ChildDies(w)
  BY <1>4 DEF ChildDies
<1> QED
  BY <1>1, <1>2, <1>3, <1>4
     DEF ChildStep, ChildExits, ChildKilled, ParentGone, ChildCrashes

LEMMA OthersQuiet ==
  ASSUME \/ SupervisorStep \/ KillSupervisor
         \/ \E w \in Workers : WorkerStep(w) \/ Return(w) \/ Crash(w)
         \/ \E s \in Signals : Ask(s)
  PROVE  UNCHANGED <<run, child, message, timedOut, aborts>>
<1>1. CASE SupervisorStep
  BY <1>1 DEF SupervisorStep, InstallHandlers, SupervisorEnds, Spawn, Poll,
              SupervisorSignal, runVars
<1>2. ASSUME NEW w \in Workers, WorkerStep(w) \/ Return(w) \/ Crash(w)
      PROVE  UNCHANGED <<run, child, message, timedOut, aborts>>
  BY <1>2 DEF WorkerStep, Boot, Exit, HandleSignal, Return, Crash, runVars
<1>3. CASE KillSupervisor \/ \E s \in Signals : Ask(s)
  BY <1>3 DEF KillSupervisor, Ask, runVars
<1> QED BY <1>1, <1>2, <1>3

LEMMA RunInvKept == ASSUME RunInv, [Next]_vars PROVE RunInv'
<1>1. TypeOK'
  BY NextTyped DEF RunInv
<1>2. ASSUME NEW v \in Tasked PROVE Silent(v)' /\ Paid(v)'
  <2> USE DEF RunInv
  <2>1. CASE UNCHANGED <<run, child, message, timedOut, aborts>>
    BY <2>1, RunUntouched
  <2>2. ASSUME NEW w \in Tasked,
               \/ StartRun(w) \/ RunStep(w) \/ Timeout(w) \/ Abort(w)
               \/ ChildStep(w) \/ ChildAnswers(w) \/ ChildCrashes(w)
        PROVE  Silent(v)' /\ Paid(v)'
    <3>1. CASE v = w
      BY <2>2, <3>1, CancelPaid, RunPaid, ChildPaid
    <3>2. CASE v # w
      BY <2>2, <3>2, OthersUntouched, RunUntouched
    <3> QED BY <3>1, <3>2
  <2>3. CASE UNCHANGED vars
    BY <2>1, <2>3 DEF vars, runVars
  <2> QED BY <2>1, <2>2, <2>3, OthersQuiet DEF Next, Environment
<1> QED BY <1>1, <1>2 DEF RunInv

\* A run that is over has left its function executing only if it was cancelled
\* three times, whatever the signals, crashes and answers in between.
THEOREM RunsEndWithTheirChild == Spec => []NoRunLeftBehind
<1>1. Init => RunInv
  BY InitTyped DEF Init, RunInv, Silent, Paid
<1>2. RunInv /\ [Next]_vars => RunInv'
  BY RunInvKept
<1>3. RunInv => NoRunLeftBehind
  BY DEF RunInv, TypeOK, Paid, Cancels, NoRunLeftBehind
<1> QED BY <1>1, <1>2, <1>3, PTL DEF Spec

-----------------------------------------------------------------------------
(* ForcedOnlyWhenAskedTwice, where no terminal signals the workers behind  *)
(* the supervisor's back.  Every SIGTERM that a worker gets from the       *)
(* supervisor comes from a request or from the death of a sibling.         *)

One(b) == IF b THEN 1 ELSE 0

\* Rounds of terminate() so far, at most.
Rounds ==
  requests + One(failed) - One("INT" \in supSignals) - One("TERM" \in supSignals)

Asked(w) ==
  /\ signals[w] \subseteq {"TERM"}
  /\ signals[w] # {} \/ worker[w] = "stopping" => Rounds >= 1
  /\ signals[w] # {} /\ worker[w] = "stopping" => Rounds >= 2
  /\ worker[w] = "forced" => Rounds >= 2

StopInv ==
  /\ TypeOK
  /\ sup \in {"starting", "watching"} => ~failed
  /\ Rounds >= 0
  /\ \A w \in Workers : Asked(w)

\* No step takes a round back, so a worker that is left alone stays asked.
LEMMA AskedLater ==
  ASSUME NEW w \in Workers, Asked(w), UNCHANGED <<worker[w], signals[w]>>,
         Rounds \in Int, Rounds' \in Int, Rounds' >= Rounds
  PROVE  Asked(w)'
  BY DEF Asked

LEMMA AskedAgain ==
  ASSUME NEW w \in Workers, StopInv, Deliver("TERM"), UNCHANGED worker,
         Rounds \in Int, Rounds' = Rounds + 1
  PROVE  Asked(w)'
<1>1. signals'[w] \in {signals[w], signals[w] \cup {"TERM"}}
  BY DEF Deliver, StopInv, TypeOK
<1>2. Asked(w) /\ Rounds >= 0
  BY DEF StopInv
<1> QED BY <1>1, <1>2 DEF Asked

LEMMA RoundsInt == (TypeOK => Rounds \in Int) /\ (TypeOK' => Rounds' \in Int)
  BY DEF TypeOK, Rounds, One

LEMMA StopInvSupervisor == ASSUME StopInv, SupervisorStep PROVE StopInv'
<1> USE DEF StopInv, SupervisorSteps, supervisor, budget
<1>1. TypeOK' /\ Rounds \in Int /\ Rounds' \in Int
  BY SupervisorTyped, RoundsInt
<1>2. CASE \/ InstallHandlers \/ SupervisorEnds
  <2>1. Rounds' = Rounds /\ UNCHANGED <<worker, signals, failed>>
    BY <1>2 DEF InstallHandlers, SupervisorEnds, Rounds, One
  <2>2. \A w \in Workers : Asked(w)'
    BY <1>1, <2>1, AskedLater
  <2> QED BY <1>1, <1>2, <2>1, <2>2 DEF InstallHandlers, SupervisorEnds
<1>3. ASSUME NEW v \in Workers, Spawn(v) PROVE StopInv'
  <2>1. Rounds' = Rounds /\ UNCHANGED <<signals, sup, failed>>
    BY <1>3 DEF Spawn, Rounds, One
  <2>2. ASSUME NEW w \in Workers PROVE Asked(w)'
    <3>1. CASE w = v
      BY <1>3, <2>1, <3>1 DEF Spawn, Asked, TypeOK
    <3>2. CASE w # v
      BY <1>1, <1>3, <2>1, <3>2, AskedLater DEF Spawn, TypeOK
    <3> QED BY <3>1, <3>2
  <2> QED BY <1>1, <2>1, <2>2
<1>4. ASSUME NEW v \in Workers, Poll(v) PROVE StopInv'
  <2>1. UNCHANGED <<worker, requests, supSignals>>
    BY <1>4 DEF Poll
  <2>2. CASE worker[v] \in NonZero /\ sup = "watching"
    <3>1. Deliver("TERM") /\ sup' = "stopping" /\ failed' = TRUE /\ ~failed
      BY <1>4, <2>2 DEF Poll, StopChildren
    <3>2. Rounds' = Rounds + 1
      BY <2>1, <3>1 DEF Rounds, One, TypeOK
    <3>3. \A w \in Workers : Asked(w)'
      BY <1>1, <2>1, <3>1, <3>2, AskedAgain
    <3> QED BY <1>1, <3>1, <3>2, <3>3
  <2>3. CASE ~(worker[v] \in NonZero /\ sup = "watching")
    <3>1. Rounds' = Rounds /\ UNCHANGED <<signals, sup, failed>>
      BY <1>4, <2>1, <2>3 DEF Poll, Rounds, One
    <3>2. \A w \in Workers : Asked(w)'
      BY <1>1, <2>1, <3>1, AskedLater
    <3> QED BY <1>1, <3>1, <3>2
  <2> QED BY <2>2, <2>3
<1>5. ASSUME NEW s \in Signals, SupervisorSignal(s) PROVE StopInv'
  <2>1. Rounds' = Rounds + 1 /\ UNCHANGED <<worker, failed>>
    BY <1>5 DEF SupervisorSignal, Rounds, One, Signals, TypeOK
  <2>2. CASE sup = "starting"
    <3>1. UNCHANGED signals /\ sup' = "gone"
      BY <1>5, <2>2 DEF SupervisorSignal
    <3>2. \A w \in Workers : Asked(w)'
      BY <1>1, <2>1, <3>1, AskedLater
    <3> QED BY <1>1, <2>1, <3>1, <3>2
  <2>3. CASE sup # "starting"
    <3>1. Deliver("TERM") /\ sup' = "stopping"
      BY <1>5, <2>3 DEF SupervisorSignal, StopChildren
    <3>2. \A w \in Workers : Asked(w)'
      BY <1>1, <2>1, <3>1, AskedAgain
    <3> QED BY <1>1, <2>1, <3>1, <3>2
  <2> QED BY <2>2, <2>3
<1> QED BY <1>2, <1>3, <1>4, <1>5 DEF SupervisorStep

\* A worker's own steps leave the rounds and its siblings alone.
LEMMA StopInvWorker ==
  ASSUME StopInv, NEW v \in Workers, WorkerStep(v) \/ Return(v) \/ Crash(v)
  PROVE  StopInv'
<1> USE DEF StopInv, supervisor, budget
<1>1. TypeOK'
  BY WorkerTyped, OutsideTyped
<1>2. Rounds' = Rounds /\ UNCHANGED <<sup, failed>>
  BY DEF WorkerStep, Boot, Exit, HandleSignal, Return, Crash, Rounds, One
<1>3. Rounds \in Int /\ Asked(v)
  BY RoundsInt
<1>4. ASSUME NEW w \in Workers, w # v PROVE Asked(w)'
  <2>1. UNCHANGED <<worker[w], signals[w]>>
    BY <1>4 DEF TypeOK, WorkerStep, Boot, Exit, HandleSignal, Return, Crash, Dies
  <2> QED BY <1>2, <1>3, <1>4, <2>1, AskedLater
<1>5. Asked(v)'
  <2> USE DEF TypeOK, Asked
  <2>1. CASE Boot(v) \/ Return(v)
    BY <1>2, <1>3, <2>1 DEF Boot, Return
  <2>2. CASE Exit(v) \/ Crash(v)
    BY <1>2, <1>3, <2>2 DEF Exit, Crash, Dies
  <2>3. ASSUME NEW s \in Signals, HandleSignal(v, s) PROVE Asked(v)'
    <3>1. s \in signals[v] /\ Rounds >= 1 /\ s = "TERM"
      BY <1>3, <2>3 DEF HandleSignal
    <3>2. CASE worker[v] = "up" /\ worker'[v] = "stopping" /\ signals'[v] = signals[v] \ {s}
      BY <1>2, <1>3, <3>1, <3>2
    <3>3. CASE worker[v] = "stopping" /\ worker'[v] = "forced" /\ signals'[v] = {}
      BY <1>2, <1>3, <3>1, <3>3
    <3>4. CASE worker'[v] \in {"crashed", "exited"} /\ signals'[v] = {}
      BY <1>2, <3>4
    <3> QED BY <2>3, <3>2, <3>3, <3>4 DEF HandleSignal, Dies
  <2> QED BY <2>1, <2>2, <2>3 DEF WorkerStep
<1> QED BY <1>1, <1>2, <1>3, <1>4, <1>5

LEMMA StopInvRequest ==
  ASSUME ~Terminal, StopInv, KillSupervisor \/ \E s \in Signals : Ask(s)
  PROVE  StopInv'
<1> USE DEF StopInv
<1>1. TypeOK' /\ Rounds \in Int /\ Rounds' \in Int
  BY OutsideTyped, RoundsInt
<1>2. UNCHANGED <<worker, signals, failed>> /\ sup' \in {sup, "gone"}
  BY DEF KillSupervisor, Ask
<1>3. Rounds' >= Rounds
  <2>1. CASE KillSupervisor
    BY <1>1, <2>1 DEF KillSupervisor, Rounds, One
  <2>2. ASSUME NEW s \in Signals, Ask(s) PROVE Rounds' >= Rounds
    BY <2>2 DEF Ask, Rounds, One, TypeOK, Signals
  <2> QED BY <2>1, <2>2
<1>4. \A w \in Workers : Asked(w)'
  BY <1>1, <1>2, <1>3, AskedLater
<1> QED BY <1>1, <1>2, <1>3, <1>4

LEMMA StopInvOthers ==
  ASSUME StopInv, TypeOK', UNCHANGED <<supervisor, worker, signals, requests>>
  PROVE  StopInv'
<1> USE DEF StopInv, supervisor
<1>1. Rounds' = Rounds /\ Rounds \in Int
  BY RoundsInt DEF Rounds
<1> QED BY <1>1, AskedLater

LEMMA StopInvKept == ASSUME ~Terminal, StopInv, [Next]_vars PROVE StopInv'
<1>1. TypeOK'
  BY NextTyped DEF StopInv
<1>2. ASSUME NEW w \in Tasked,
             \/ StartRun(w) \/ RunStep(w) \/ Timeout(w) \/ Abort(w)
             \/ ChildStep(w) \/ ChildAnswers(w) \/ ChildCrashes(w)
      PROVE  UNCHANGED <<supervisor, worker, signals, requests>>
  BY <1>2 DEF StartRun, RunStep, Receive, GiveUp, Joined, Timeout, Abort, ChildStep,
     ChildExits, ChildKilled, ParentGone, ChildAnswers, ChildCrashes, ChildDies, budget
<1>3. CASE UNCHANGED vars
  BY <1>1, <1>3, StopInvOthers DEF vars, budget
<1>4. CASE Next
  BY <1>1, <1>2, <1>4, StopInvSupervisor, StopInvWorker, StopInvRequest, StopInvOthers
     DEF Next, Environment
<1> QED BY <1>3, <1>4

\* Without a terminal, a worker leaves a running task behind only after two
\* requests, or a request and a sibling's death: for any number of workers.
THEOREM ForcedOnlyTwice ==
  ASSUME ~Terminal PROVE Spec => []ForcedOnlyWhenAskedTwice
<1>1. ASSUME Init PROVE StopInv
  <2>1. requests = 0 /\ failed = FALSE /\ supSignals = {}
    BY <1>1 DEF Init
  <2>2. Rounds = 0
    BY <2>1 DEF Rounds, One
  <2>3. \A w \in Workers : signals[w] = {} /\ worker[w] = "unborn"
    BY <1>1 DEF Init
  <2> QED BY <1>1, <2>1, <2>2, <2>3, InitTyped DEF StopInv, Asked
<1>2. StopInv /\ [Next]_vars => StopInv'
  BY StopInvKept
<1>3. StopInv => ForcedOnlyWhenAskedTwice
  BY DEF StopInv, TypeOK, Asked, Rounds, One, ForcedOnlyWhenAskedTwice
<1> QED BY <1>1, <1>2, <1>3, PTL DEF Spec

-----------------------------------------------------------------------------
(* ExitTells.  The supervisor sees each of its children end before it      *)
(* ends; and as long as nobody asks, only the death of a worker makes it   *)
(* stop the others.                                                        *)

\* What it has seen: a child it no longer polls has ended, and so it stays.
Seen ==
  /\ sup \in {"watching", "stopping", "ended"} => \A w \in Workers : worker[w] # "unborn"
  /\ \A w \in Workers \ polled : worker[w] \in Ended
  /\ sup = "ended" => polled = {}

\* No child before its worker is up, none after its worker exited by itself.
Accompanied(w) ==
  /\ worker[w] \in {"unborn", "booting"} => child[w] = "none"
  /\ worker[w] = "exited" => child[w] \in {"none", "dead"}

\* Nobody asked: no signal but the supervisor's own, which follows a death.
Unasked ==
  /\ supSignals = {}
  /\ sup = "stopping" => failed
  /\ \A w \in Workers \ polled : worker[w] \in NonZero => failed
  /\ failed => \E w \in Workers : worker[w] \in NonZero

ExitInv ==
  /\ TypeOK
  /\ Seen
  /\ \A w \in Tasked : Accompanied(w)
  /\ requests = 0 => Unasked

LEMMA ExitInvStarts == ASSUME Init PROVE ExitInv
<1>1. TypeOK /\ sup = "starting" /\ polled = Workers /\ failed = FALSE
      /\ supSignals = {} /\ worker = [w \in Workers |-> "unborn"]
      /\ child = [w \in Tasked |-> "none"]
  BY InitTyped DEF Init
<1>2. Tasked \subseteq Workers
  BY ProcessesAssumption
<1>3. Seen /\ Unasked
  BY <1>1 DEF Seen, Unasked
<1>4. \A w \in Tasked : Accompanied(w)
  BY <1>1, <1>2 DEF Accompanied
<1> QED BY <1>1, <1>3, <1>4 DEF ExitInv

LEMMA ExitInvSupervisor == ASSUME ExitInv, SupervisorStep PROVE ExitInv'
<1> USE DEF ExitInv
<1>1. TypeOK' /\ Tasked \subseteq Workers
  BY SupervisorTyped, ProcessesAssumption
<1>2. UNCHANGED <<child, requests>>
  BY DEF SupervisorStep, InstallHandlers, SupervisorEnds, Spawn, Poll,
         SupervisorSignal, runVars, budget
<1>3. CASE InstallHandlers \/ SupervisorEnds
  <2>1. UNCHANGED <<worker, polled, failed, supSignals>>
    BY <1>3 DEF InstallHandlers, SupervisorEnds
  <2>2. Seen'
    BY <1>3, <2>1 DEF InstallHandlers, SupervisorEnds, Seen
  <2>3. requests = 0 => Unasked'
    BY <1>3, <2>1 DEF InstallHandlers, SupervisorEnds, Unasked
  <2> QED BY <1>1, <1>2, <2>1, <2>2, <2>3 DEF Accompanied
<1>4. ASSUME NEW v \in Workers, Spawn(v) PROVE ExitInv'
  <2>1. /\ worker[v] = "unborn" /\ worker'[v] = "booting"
        /\ \A w \in Workers : w # v => worker'[w] = worker[w]
        /\ UNCHANGED <<sup, polled, failed, supSignals>>
    BY <1>4 DEF Spawn, TypeOK, supervisor
  <2>2. Seen'
    BY <2>1 DEF Seen, Ended, NonZero
  <2>3. requests = 0 => Unasked'
    BY <2>1 DEF Unasked, NonZero
  <2>4. \A w \in Tasked : Accompanied(w)'
    BY <1>1, <1>2, <2>1 DEF Accompanied
  <2> QED BY <1>1, <1>2, <2>2, <2>3, <2>4
<1>5. ASSUME NEW v \in Workers, Poll(v) PROVE ExitInv'
  <2>1. /\ UNCHANGED <<worker, supSignals>> /\ polled' = polled \ {v}
        /\ v \in polled /\ worker[v] \in Ended
        /\ sup \in {"watching", "stopping"} /\ sup' \in {"watching", "stopping"}
        /\ worker[v] \in NonZero /\ sup = "watching" => failed' /\ sup' = "stopping"
        /\ ~(worker[v] \in NonZero /\ sup = "watching") => UNCHANGED <<failed, sup>>
    BY <1>5 DEF Poll, StopChildren
  <2>2. Seen'
    BY <2>1 DEF Seen
  <2>3. requests = 0 => Unasked'
    <3>1. CASE worker[v] \in NonZero /\ sup = "watching"
      BY <2>1, <3>1 DEF Unasked
    <3>2. CASE ~(worker[v] \in NonZero /\ sup = "watching")
      BY <2>1, <3>2 DEF Unasked
    <3> QED BY <3>1, <3>2
  <2> QED BY <1>1, <1>2, <2>1, <2>2, <2>3 DEF Accompanied
<1>6. ASSUME NEW s \in Signals, SupervisorSignal(s) PROVE ExitInv'
  <2>1. /\ UNCHANGED <<worker, polled, failed>> /\ supSignals # {}
        /\ sup = "starting" => sup' = "gone"
        /\ sup # "starting" => sup \in {"watching", "stopping"} /\ sup' = "stopping"
    BY <1>6 DEF SupervisorSignal, StopChildren
  <2>2. requests # 0
    BY <2>1 DEF Unasked
  <2>3. Seen'
    BY <2>1 DEF Seen
  <2> QED BY <1>1, <1>2, <2>1, <2>2, <2>3 DEF Accompanied
<1> QED BY <1>3, <1>4, <1>5, <1>6 DEF SupervisorStep

\* How a worker's own step moves it.
LEMMA WorkerMoves ==
  ASSUME TypeOK, NEW v \in Workers, WorkerStep(v) \/ Return(v) \/ Crash(v)
  PROVE  /\ UNCHANGED <<supervisor, child, requests>>
         /\ \A w \in Workers : w # v => worker'[w] = worker[w]
         /\ worker[v] \notin Ended \cup {"unborn"} /\ worker'[v] \notin {"unborn", "booting"}
         /\ worker'[v] = "exited" =>
              worker[v] = "booting" \/ (v \in Tasked => child[v] \in {"none", "dead"})
<1> USE DEF TypeOK, Ended, NonZero, runVars, budget
<1>1. CASE Boot(v)
  BY <1>1 DEF Boot
<1>2. CASE Exit(v)
  BY <1>2 DEF Exit, Dies
<1>3. ASSUME NEW s \in Signals, HandleSignal(v, s)
      PROVE  /\ UNCHANGED <<supervisor, child, requests>>
             /\ \A w \in Workers : w # v => worker'[w] = worker[w]
             /\ worker[v] \notin Ended \cup {"unborn"}
             /\ worker'[v] \notin {"unborn", "booting"}
             /\ worker'[v] = "exited" => worker[v] = "booting"
  BY <1>3 DEF HandleSignal, Dies
<1>4. CASE Return(v)
  BY <1>4 DEF Return
<1>5. CASE Crash(v)
  BY <1>5 DEF Crash, Alive, Dies
<1> QED BY <1>1, <1>2, <1>3, <1>4, <1>5 DEF WorkerStep

LEMMA ExitInvWorker ==
  ASSUME ExitInv, NEW v \in Workers, WorkerStep(v) \/ Return(v) \/ Crash(v)
  PROVE  ExitInv'
<1> USE DEF ExitInv
<1>1. TypeOK' /\ Tasked \subseteq Workers
  BY WorkerTyped, OutsideTyped, ProcessesAssumption
<1>2. /\ UNCHANGED <<sup, supSignals, polled, failed, child, requests>>
      /\ \A w \in Workers : w # v => worker'[w] = worker[w]
      /\ worker[v] \notin Ended \cup {"unborn"} /\ worker'[v] \notin {"unborn", "booting"}
      /\ worker'[v] = "exited" =>
           worker[v] = "booting" \/ (v \in Tasked => child[v] \in {"none", "dead"})
  BY WorkerMoves DEF supervisor
<1>3. v \in polled
  BY <1>2 DEF Seen
<1>4. Seen'
  BY <1>2, <1>3 DEF Seen
<1>5. requests = 0 => Unasked'
  BY <1>2, <1>3 DEF Unasked, Ended
<1>6. \A w \in Tasked : Accompanied(w)'
  BY <1>1, <1>2 DEF Accompanied
<1> QED BY <1>1, <1>2, <1>4, <1>5, <1>6

LEMMA ExitInvRequest ==
  ASSUME ExitInv, KillSupervisor \/ \E s \in Signals : Ask(s) PROVE ExitInv'
<1> USE DEF ExitInv
<1>1. UNCHANGED <<worker, child, polled, failed>> /\ sup' \in {sup, "gone"}
  BY DEF KillSupervisor, Ask, runVars
<1>2. requests' = 0 => requests = 0 /\ UNCHANGED supSignals
  BY DEF KillSupervisor, Ask, TypeOK
<1>3. Seen' /\ (requests' = 0 => Unasked')
  BY <1>1, <1>2 DEF Seen, Unasked
<1> QED BY <1>1, <1>3, OutsideTyped DEF Accompanied

\* A child comes from a worker that is up, and a dead one stays dead.
LEMMA ExitInvRun ==
  ASSUME ExitInv, NEW v \in Tasked,
         \/ StartRun(v) \/ RunStep(v) \/ Timeout(v) \/ Abort(v)
         \/ ChildStep(v) \/ ChildAnswers(v) \/ ChildCrashes(v)
  PROVE  ExitInv'
<1> USE DEF ExitInv
<1>1. TypeOK'
  BY RunTyped, ChildTyped
<1>2. UNCHANGED <<sup, supSignals, polled, failed, worker, requests>>
  BY DEF StartRun, RunStep, Receive, GiveUp, Joined, Timeout, Abort, ChildStep,
     ChildExits, ChildKilled, ParentGone, ChildAnswers, ChildCrashes, ChildDies,
     supervisor, budget
<1>3. Seen' /\ (requests' = 0 => Unasked')
  BY <1>2 DEF Seen, Unasked
<1>4. ASSUME NEW w \in Tasked PROVE Accompanied(w)'
  <2> USE DEF TypeOK, Accompanied
  <2>1. CASE StartRun(v)
    BY <1>2, <2>1 DEF StartRun
  <2>2. CASE RunStep(v) \/ Timeout(v) \/ Abort(v)
    BY <1>2, <2>2 DEF RunStep, Receive, GiveUp, Joined, Timeout, Abort
  <2>3. CASE ChildAnswers(v)
    BY <1>2, <2>3 DEF ChildAnswers
  <2>4. CASE child[v] # "none" /\ ChildDies(v)
    BY <1>2, <2>4 DEF ChildDies
  <2> QED
    BY <2>1, <2>2, <2>3, <2>4 DEF ChildStep, ChildExits, ChildKilled, ParentGone, ChildCrashes
<1> QED BY <1>1, <1>2, <1>3, <1>4

LEMMA ExitInvKept == ASSUME ExitInv, [Next]_vars PROVE ExitInv'
<1>1. CASE UNCHANGED vars
  BY <1>1, NextTyped DEF ExitInv, Seen, Unasked, Accompanied, vars, supervisor, runVars, budget
<1>2. CASE Next
  BY <1>2, ExitInvSupervisor, ExitInvWorker, ExitInvRequest, ExitInvRun
     DEF Next, Environment
<1> QED BY <1>1, <1>2

\* The supervisor's exit tells the truth about any number of workers, whatever
\* died and whoever was signalled: all of them have ended, those that exited by
\* themselves took their child along, and unless a stop was requested its code is
\* nonzero exactly when a worker's was.
THEOREM ExitTellsTheTruth == Spec => []ExitTells
<1>1. Init => ExitInv
  BY ExitInvStarts
<1>2. ExitInv /\ [Next]_vars => ExitInv'
  BY ExitInvKept
<1>3. ExitInv => ExitTells
  BY ProcessesAssumption DEF ExitInv, Seen, Unasked, Accompanied, ExitTells
<1> QED BY <1>1, <1>2, <1>3, PTL DEF Spec
=============================================================================

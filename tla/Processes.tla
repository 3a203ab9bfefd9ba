----------------------------- MODULE Processes -----------------------------
(***************************************************************************)
(* The processes of `ardiq run --workers N`: the supervisor, its workers,  *)
(* and the child process in which a worker runs a task that was registered *)
(* with executor="process".  What a signal does to each of them, who waits *)
(* for whom, and what is left running when one of them dies.               *)
(***************************************************************************)
EXTENDS Naturals, FiniteSets

CONSTANTS
  Workers,
  Tasked,       \* the workers that run a process task, one each
  Terminal,     \* Ctrl-C in a terminal reaches the whole foreground process group
  MaxRequests,  \* bound: stop requests of the operator
  MaxAborts,    \* bound: aborts of one run
  MaxCrashes    \* bound: kill -9 of a worker or of the supervisor

Signals == {"INT", "TERM"}

ASSUME ProcessesAssumption ==
  /\ IsFiniteSet(Workers) /\ Tasked \subseteq Workers
  /\ Terminal \in BOOLEAN
  /\ MaxRequests \in Nat /\ MaxAborts \in Nat /\ MaxCrashes \in Nat

VARIABLES
  \* _supervise
  sup,        \* see SupervisorSteps
  supSignals, \* sent to it and not yet handled
  polled,     \* `running`: children it has not seen exit
  failed,     \* whether it will exit with a worker's nonzero code
  \* serve
  worker,     \* see WorkerSteps
  signals,    \* sent to each worker and not yet handled
  \* run_in_process and the child
  run,        \* where the worker's call of run_in_process is
  child,      \* the task's process
  stubborn,   \* it handles SIGTERM itself and goes on
  killing,    \* the strongest signal sent to it
  message,    \* what the pipe ends with, "none" so far
  timedOut,   \* whether the task's timeout was delivered, at most once
  aborts,     \* aborts delivered to the run
  requests, crashes

supervisor == <<sup, supSignals, polled, failed>>
runVars    == <<run, child, stubborn, killing, message, timedOut, aborts>>
budget     == <<requests, crashes>>
vars == <<supervisor, worker, signals, runVars, budget>>

\* "starting": before signal.signal.  "gone": killed by a signal.
SupervisorSteps == {"starting", "watching", "stopping", "ended", "gone"}

\* "booting": before add_signal_handler.  "leaving": app.run() returned, the
\* atexit handlers run.  "exited" with code 0, "forced" by _force_exit,
\* "crashed" with any other nonzero code.
NonZero == {"forced", "crashed"}
Ended == NonZero \cup {"exited"}
WorkerSteps == {"unborn", "booting", "up", "stopping", "leaving"} \cup Ended

\* "waiting": for the child's answer.  "terminating": the KILL_AFTER_S after
\* terminate().  "killed": for the end of the pipe after kill().
RunSteps == {"none", "waiting", "terminating", "killed", "joining", "over"}

\* "sent": it wrote its result or its error to the pipe and is on its way out.
ChildSteps == {"none", "running", "sent", "dead"}

TypeOK ==
  /\ sup \in SupervisorSteps /\ supSignals \subseteq Signals
  /\ polled \subseteq Workers /\ failed \in BOOLEAN
  /\ worker \in [Workers -> WorkerSteps]
  /\ signals \in [Workers -> SUBSET Signals]
  /\ run \in [Tasked -> RunSteps]
  /\ child \in [Tasked -> ChildSteps]
  /\ stubborn \in [Tasked -> BOOLEAN]
  /\ killing \in [Tasked -> {"none", "TERM", "KILL"}]
  /\ message \in [Tasked -> {"none", "answer", "gone"}]
  /\ timedOut \in [Tasked -> BOOLEAN]
  /\ aborts \in [Tasked -> Nat]
  /\ requests \in Nat /\ crashes \in Nat
  /\ \A w \in Tasked : (child[w] = "none" <=> run[w] = "none")
                       /\ (child[w] = "dead" => message[w] # "none")

Init ==
  /\ sup = "starting" /\ supSignals = {}
  /\ polled = Workers /\ failed = FALSE
  /\ worker = [w \in Workers |-> "unborn"]
  /\ signals = [w \in Workers |-> {}]
  /\ run = [w \in Tasked |-> "none"]
  /\ child = [w \in Tasked |-> "none"]
  /\ stubborn = [w \in Tasked |-> FALSE]
  /\ killing = [w \in Tasked |-> "none"]
  /\ message = [w \in Tasked |-> "none"]
  /\ timedOut = [w \in Tasked |-> FALSE]
  /\ aborts = [w \in Tasked |-> 0]
  /\ requests = 0 /\ crashes = 0

-----------------------------------------------------------------------------
(* The supervisor.                                                         *)

Alive(w) == worker[w] \notin Ended \cup {"unborn"}

\* Mutant: the first child that is gone already ends the loop over the children.
DeliverUntilGone(s) ==
  signals' = IF \E w \in Workers : worker[w] \in Ended THEN signals
             ELSE [w \in Workers |-> IF Alive(w) THEN signals[w] \cup {s} ELSE signals[w]]

\* A signal that is pending already is not queued a second time.
Deliver(s) ==
  signals' = [w \in Workers |-> IF Alive(w) THEN signals[w] \cup {s} ELSE signals[w]]

StopChildren == sup' = "stopping" /\ Deliver("TERM")

\* Popen, one child after the other; then the handlers.
Spawn(w) ==
  /\ sup = "starting" /\ worker[w] = "unborn"
  /\ worker' = [worker EXCEPT ![w] = "booting"]
  /\ UNCHANGED <<supervisor, signals, runVars, budget>>

InstallHandlers ==
  /\ sup = "starting" /\ \A w \in Workers : worker[w] # "unborn"
  /\ sup' = "watching"
  /\ UNCHANGED <<supSignals, polled, failed, worker, signals, runVars, budget>>

\* Before signal.signal both signals end the supervisor and leave its children
\* running; afterwards each of them stops the children, however often it comes.
SupervisorSignal(s) ==
  /\ s \in supSignals /\ sup \in {"starting", "watching", "stopping"}
  /\ supSignals' = supSignals \ {s}
  /\ IF sup = "starting" THEN sup' = "gone" /\ UNCHANGED signals ELSE StopChildren
  /\ UNCHANGED <<polled, failed, worker, runVars, budget>>

\* Mutant: the code of a child that died is not kept.
PollForgetsCode(w) ==
  /\ sup \in {"watching", "stopping"}
  /\ w \in polled /\ worker[w] \in Ended
  /\ polled' = polled \ {w}
  /\ IF worker[w] \in NonZero /\ sup = "watching"
     THEN StopChildren ELSE UNCHANGED <<sup, signals>>
  /\ UNCHANGED <<supSignals, failed, worker, runVars, budget>>

\* One child found dead by the loop of _supervise.
Poll(w) ==
  /\ sup \in {"watching", "stopping"}
  /\ w \in polled /\ worker[w] \in Ended
  /\ polled' = polled \ {w}
  /\ IF worker[w] \in NonZero /\ sup = "watching"
     THEN failed' = TRUE /\ StopChildren
     ELSE UNCHANGED <<failed, sup, signals>>
  /\ UNCHANGED <<supSignals, worker, runVars, budget>>

SupervisorEnds ==
  /\ sup \in {"watching", "stopping"} /\ polled = {}
  /\ sup' = "ended"
  /\ UNCHANGED <<supSignals, polled, failed, worker, signals, runVars, budget>>

-----------------------------------------------------------------------------
(* A worker process: serve, _force_exit, _exit_without_finalizing.         *)

Dies(w, how) ==
  /\ worker' = [worker EXCEPT ![w] = how]
  /\ signals' = [signals EXCEPT ![w] = {}]

\* Imports, asyncio.run, add_signal_handler.
Boot(w) ==
  /\ worker[w] = "booting"
  /\ worker' = [worker EXCEPT ![w] = "up"]
  /\ UNCHANGED <<supervisor, signals, runVars, budget>>

\* _on_signal: the first one asks app.stop() to drain, the second one exits at
\* once.  Before the handlers are there and after the loop is closed a signal does
\* what it does to any Python program; _run swallows a KeyboardInterrupt.
HandleSignal(w, s) ==
  /\ s \in signals[w]
  /\ \/ worker[w] = "up"
        /\ worker' = [worker EXCEPT ![w] = "stopping"]
        /\ signals' = [signals EXCEPT ![w] = @ \ {s}]
     \/ worker[w] = "stopping" /\ Dies(w, "forced")
     \/ worker[w] \in {"booting", "leaving"} /\ Dies(w, "crashed")
     \/ worker[w] = "booting" /\ s = "INT" /\ Dies(w, "exited")
  /\ UNCHANGED <<supervisor, runVars, budget>>

RunOver(w) == w \in Tasked => run[w] \in {"none", "over"}

\* app.run() returns once nothing runs: after stop(), in burst mode when the
\* queue is drained, or when the producer failed.  multiprocessing's atexit
\* handler then terminates a child that is still there.
Return(w) ==
  /\ worker[w] \in {"up", "stopping"} /\ RunOver(w)
  /\ worker' = [worker EXCEPT ![w] = "leaving"]
  /\ killing' = [v \in Tasked |->
       IF v = w /\ killing[v] = "none" /\ child[v] \in {"running", "sent"}
       THEN "TERM" ELSE killing[v]]
  /\ UNCHANGED <<supervisor, signals, run, child, stubborn, message, timedOut,
                 aborts, budget>>

\* ... and joins it, before os._exit(0).
Exit(w) ==
  /\ worker[w] = "leaving"
  /\ w \in Tasked => child[w] \in {"none", "dead"}
  /\ Dies(w, "exited")
  /\ UNCHANGED <<supervisor, runVars, budget>>

-----------------------------------------------------------------------------
(* run_in_process, in a worker that is there to run it.                    *)

Works(w) == worker[w] \in {"up", "stopping"}

Cancels(w) == aborts[w] + IF timedOut[w] THEN 1 ELSE 0

StartRun(w) ==
  /\ worker[w] = "up" /\ run[w] = "none"
  /\ run' = [run EXCEPT ![w] = "waiting"]
  /\ child' = [child EXCEPT ![w] = "running"]
  /\ \E b \in BOOLEAN : stubborn' = [stubborn EXCEPT ![w] = b]
  /\ UNCHANGED <<supervisor, worker, signals, killing, message, timedOut, aborts, budget>>

\* The reader thread got the answer, or the end of the pipe.
Receive(w) ==
  /\ Works(w) /\ run[w] \in {"waiting", "terminating", "killed"}
  /\ message[w] # "none"
  /\ run' = [run EXCEPT ![w] = "joining"]
  /\ UNCHANGED <<supervisor, worker, signals, child, stubborn, killing, message,
                 timedOut, aborts, budget>>

\* Mutant: the process is only joined where its answer was awaited.
InterruptUnjoined(w) ==
  \/ /\ run[w] = "waiting"
     /\ run' = [run EXCEPT ![w] = "terminating"]
     /\ killing' = [killing EXCEPT ![w] = "TERM"]
  \/ /\ run[w] \in {"terminating", "killed", "joining"}
     /\ run' = [run EXCEPT ![w] = "over"]
     /\ UNCHANGED killing

\* A CancelledError where the run awaits.  The first one terminates the child; one
\* that arrives in the except block skips the kill and goes to the finally block;
\* one that arrives there leaves the join.
Interrupt(w) ==
  \/ /\ run[w] = "waiting"
     /\ run' = [run EXCEPT ![w] = "terminating"]
     /\ killing' = [killing EXCEPT ![w] = "TERM"]
  \/ /\ run[w] \in {"terminating", "killed"}
     /\ run' = [run EXCEPT ![w] = "joining"]
     /\ UNCHANGED killing
  \/ /\ run[w] = "joining"
     /\ run' = [run EXCEPT ![w] = "over"]
     /\ UNCHANGED killing

\* asyncio.wait_for(coro, reg.timeout), in the run's own asyncio task.
Timeout(w) ==
  /\ Works(w) /\ ~timedOut[w]
  /\ timedOut' = [timedOut EXCEPT ![w] = TRUE]
  /\ Interrupt(w)
  /\ UNCHANGED <<supervisor, worker, signals, child, stubborn, message, aborts, budget>>

\* _abort_watcher: one cancel per publish, as long as the run is registered.
Abort(w) ==
  /\ Works(w) /\ aborts[w] < MaxAborts
  /\ aborts' = [aborts EXCEPT ![w] = @ + 1]
  /\ Interrupt(w)
  /\ UNCHANGED <<supervisor, worker, signals, child, stubborn, message, timedOut, budget>>

\* Mutant: gives up without a kill().
GiveUpQuietly(w) ==
  /\ Works(w) /\ run[w] = "terminating" /\ message[w] = "none"
  /\ run' = [run EXCEPT ![w] = "killed"]
  /\ UNCHANGED <<supervisor, worker, signals, child, stubborn, killing, message,
                 timedOut, aborts, budget>>

\* KILL_AFTER_S passed.
GiveUp(w) ==
  /\ Works(w) /\ run[w] = "terminating" /\ message[w] = "none"
  /\ run' = [run EXCEPT ![w] = "killed"]
  /\ killing' = [killing EXCEPT ![w] = "KILL"]
  /\ UNCHANGED <<supervisor, worker, signals, child, stubborn, message, timedOut,
                 aborts, budget>>

Joined(w) ==
  /\ Works(w) /\ run[w] = "joining" /\ child[w] = "dead"
  /\ run' = [run EXCEPT ![w] = "over"]
  /\ UNCHANGED <<supervisor, worker, signals, child, stubborn, killing, message,
                 timedOut, aborts, budget>>

-----------------------------------------------------------------------------
(* The child.                                                              *)

\* The end of the process closes the only write end of the pipe.
ChildDies(w) ==
  /\ child' = [child EXCEPT ![w] = "dead"]
  /\ message' = [message EXCEPT ![w] = IF @ = "none" THEN "gone" ELSE @]
  /\ UNCHANGED <<supervisor, worker, signals, run, stubborn, killing, timedOut,
                 aborts, budget>>

\* The task returns or raises; _child sends the result or a portable error.
ChildAnswers(w) ==
  /\ child[w] = "running"
  /\ child' = [child EXCEPT ![w] = "sent"]
  /\ message' = [message EXCEPT ![w] = "answer"]
  /\ UNCHANGED <<supervisor, worker, signals, run, stubborn, killing, timedOut,
                 aborts, budget>>

ChildExits(w)   == child[w] = "sent" /\ ChildDies(w)
ChildCrashes(w) == child[w] = "running" /\ ChildDies(w)

ChildKilled(w) ==
  /\ child[w] \in {"running", "sent"}
  /\ killing[w] = "KILL" \/ (killing[w] = "TERM" /\ ~stubborn[w])
  /\ ChildDies(w)

\* _exit_with_parent: its watching thread sees the worker end.
ParentGone(w) ==
  /\ child[w] \in {"running", "sent"} /\ worker[w] \in Ended
  /\ ChildDies(w)

-----------------------------------------------------------------------------
(* The operator, and what nobody can handle.                               *)

\* `kill` sends a signal to the supervisor; Ctrl-C in a terminal sends SIGINT to
\* the foreground process group, which the children are part of: _supervise
\* starts them by a plain Popen.
Ask(s) ==
  /\ requests < MaxRequests /\ sup \in {"starting", "watching", "stopping"}
  /\ requests' = requests + 1
  /\ supSignals' = supSignals \cup {s}
  /\ IF s = "INT" /\ Terminal THEN Deliver(s) ELSE UNCHANGED signals
  /\ UNCHANGED <<sup, polled, failed, worker, runVars, crashes>>

\* kill -9, out of memory, an exception out of app.run().
Crash(w) ==
  /\ crashes < MaxCrashes /\ crashes' = crashes + 1
  /\ Alive(w) /\ Dies(w, "crashed")
  /\ UNCHANGED <<supervisor, runVars, requests>>

KillSupervisor ==
  /\ crashes < MaxCrashes /\ crashes' = crashes + 1
  /\ sup \in {"starting", "watching", "stopping"}
  /\ sup' = "gone"
  /\ UNCHANGED <<supSignals, polled, failed, worker, signals, runVars, requests>>

-----------------------------------------------------------------------------
SupervisorStep ==
  \/ InstallHandlers \/ SupervisorEnds
  \/ \E w \in Workers : Spawn(w) \/ Poll(w)
  \/ \E s \in Signals : SupervisorSignal(s)

WorkerStep(w) == Boot(w) \/ Exit(w) \/ \E s \in Signals : HandleSignal(w, s)

RunStep(w) == Receive(w) \/ GiveUp(w) \/ Joined(w)

ChildStep(w) == ChildExits(w) \/ ChildKilled(w) \/ ParentGone(w)

Environment ==
  \/ KillSupervisor
  \/ \E s \in Signals : Ask(s)
  \/ \E w \in Workers : Crash(w)
  \/ \E w \in Tasked : Abort(w) \/ ChildAnswers(w) \/ ChildCrashes(w)

Next ==
  \/ SupervisorStep
  \/ \E w \in Workers : WorkerStep(w) \/ Return(w)
  \/ \E w \in Tasked : StartRun(w) \/ RunStep(w) \/ Timeout(w) \/ ChildStep(w)
  \/ Environment

Spec == Init /\ [][Next]_vars

(***************************************************************************)
(* Fairness.  Processes, the event loop and the reader thread get to run;  *)
(* a stopped worker whose tasks are over returns; the process task has a   *)
(* timeout.  Nothing makes the task itself end, or handle SIGTERM, and     *)
(* nothing makes an unasked worker return.                                 *)
(***************************************************************************)
Fairness ==
  /\ WF_vars(SupervisorStep)
  /\ \A w \in Workers : /\ WF_vars(WorkerStep(w))
                        /\ WF_vars(worker[w] = "stopping" /\ Return(w))
  /\ \A w \in Tasked : WF_vars(RunStep(w)) /\ WF_vars(Timeout(w)) /\ WF_vars(ChildStep(w))

FairSpec == Spec /\ Fairness

-----------------------------------------------------------------------------
\* A worker leaves a running task behind only when it was told to stop twice: by
\* two requests, or by one and by the death of a sibling.  The documentation
\* promises that tasks finish unless a second signal comes.
ForcedOnlyWhenAskedTwice ==
  \A w \in Workers : worker[w] = "forced" => requests + (IF failed THEN 1 ELSE 0) >= 2

\* The exit of the supervisor tells about its workers: none is left, none that
\* exited by itself left its child behind, and unless somebody asked for a stop
\* the code is nonzero exactly when a worker died.
ExitTells ==
  sup = "ended" =>
    /\ \A w \in Workers : worker[w] \in Ended
    /\ \A w \in Tasked : worker[w] = "exited" => child[w] \in {"none", "dead"}
    /\ requests = 0 => (failed <=> \E w \in Workers : worker[w] \in NonZero)

\* A run that is over is not still running somewhere: after a timeout, an abort,
\* and also after both, the task's function is no longer being executed.  A third
\* cancellation would leave it.
NoRunLeftBehind ==
  \A w \in Tasked : run[w] = "over" /\ child[w] = "running" => Cancels(w) > 2

\* A child that was cancelled, or whose worker died, ends, also one that ignores
\* SIGTERM.  A second cancellation within KILL_AFTER_S voids the promise: it
\* skips the kill.
ChildrenEnd ==
  \A w \in Tasked :
    (run[w] # "none" /\ (Cancels(w) = 1 \/ worker[w] \in Ended))
      ~> (child[w] = "dead" \/ Cancels(w) > 1)

\* A supervisor that is stopping ends, and with it all of its workers, whatever
\* they run, if no run is cancelled twice.
StopEnds ==
  sup = "stopping" ~> (sup \in {"ended", "gone"} \/ \E w \in Tasked : Cancels(w) > 1)
=============================================================================

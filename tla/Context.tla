------------------------------ MODULE Context ------------------------------
(***************************************************************************)
(* airmap::boost::Context (boost/context.{h,cpp}): the event loop every    *)
(* client, monitor and command of the SDK runs on, and the threads that    *)
(* run it, stop it and hand it tasks (qt/client.cpp: ContextRunner is one  *)
(* such pair of threads).                                                  *)
(*                                                                         *)
(* state_ and return_code_ are atomics without a lock around them, so a    *)
(* step is one access to one of them, or one call of the io_service.  The  *)
(* io_service is external: a queue of handlers, run one at a time by the   *)
(* thread that is inside run(), until it is stopped, for good: nothing     *)
(* calls reset().                                                          *)
(***************************************************************************)
EXTENDS Naturals, Sequences

CONSTANTS
    Threads,
    Tasks,      \* functors handed to dispatch() and schedule_in()
    Throwing,   \* those that throw
    None,       \* no value
    MaxRuns,    \* bound: calls of run() or exec()
    MaxStops    \* bound: calls of stop()

ASSUME TasksAssumption == Throwing \subseteq Tasks

ASSUME BoundsAssumption == MaxRuns \in Nat /\ MaxStops \in Nat

ReturnCode == {"success", "error", "already_running"}

\* What callers pass to stop().
StopCode == {"success", "error"}

VARIABLES
    state,          \* state_
    return_code,    \* return_code_
    stopped,        \* io_service_->stopped()
    queue,          \* handlers ready to run
    timers,         \* functors whose deadline_timer has not expired
    armed,          \* a signal_set is waiting for its first signal
    pc,             \* where each thread is
    running,        \* whether the thread is inside io_service_->run()'s loop
    rc,             \* the argument of the stop() the thread is in ("success" elsewhere)
    result,         \* what the thread's last run() returned
    runs, stops,    \* calls made so far
    hist            \* history, below

(***************************************************************************)
(* History of the run() of each thread: asked, stop() was called since the *)
(* call of run(); fresh, the io_service had not been stopped when state_   *)
(* was claimed; cause, the codes of the stop() calls accepted for it;      *)
(* disturbed, such a stop() came before it reset return_code_, or another  *)
(* run() began before it read return_code_.                                *)
(***************************************************************************)
History == [asked : BOOLEAN, fresh : BOOLEAN, cause : SUBSET StopCode, disturbed : BOOLEAN]

Idle == [asked |-> FALSE, fresh |-> FALSE, cause |-> {}, disturbed |-> FALSE]

vars == <<state, return_code, stopped, queue, timers, armed, pc, running, rc,
          result, runs, stops, hist>>

\* "run": called, state_ not looked at; "claimed": state_ set to running;
\* "loop": return_code_ reset; "released": state_ set to stopped, return_code_
\* not read; "accepted", "stored": inside a stop() that passed its first test.
Place == {"idle", "run", "claimed", "loop", "released", "accepted", "stored"}

TypeOK ==
    /\ state \in {"stopped", "stopping", "running"}
    /\ return_code \in ReturnCode
    /\ stopped \in BOOLEAN
    /\ queue \in Seq(Tasks \cup {"signal"})
    /\ timers \in SUBSET Tasks
    /\ armed \in BOOLEAN
    /\ pc \in [Threads -> Place]
    /\ running \in [Threads -> BOOLEAN]
    /\ rc \in [Threads -> StopCode]
    /\ result \in [Threads -> ReturnCode \cup {None}]
    /\ runs \in Nat /\ stops \in Nat
    /\ hist \in [Threads -> History]

Init ==
    /\ state = "stopped"
    /\ return_code = "success"
    /\ stopped = FALSE
    /\ queue = <<>>
    /\ timers = {}
    /\ armed = FALSE
    /\ pc = [t \in Threads |-> "idle"]
    /\ running = [t \in Threads |-> FALSE]
    /\ rc = [t \in Threads |-> "success"]
    /\ result = [t \in Threads |-> None]
    /\ runs = 0 /\ stops = 0
    /\ hist = [t \in Threads |-> Idle]

-----------------------------------------------------------------------------
(***************************************************************************)
(* run() and exec().                                                       *)
(***************************************************************************)
Go(t, place) == pc' = [pc EXCEPT ![t] = place]

CallRun(t) ==
    /\ pc[t] = "idle" /\ runs < MaxRuns
    /\ runs' = runs + 1
    /\ hist' = [hist EXCEPT ![t] = Idle]
    /\ Go(t, "run")
    /\ UNCHANGED <<state, return_code, stopped, queue, timers, armed, running, rc,
                   result, stops>>

\* exec() waits for one signal, and then is run().
CallExec(t) ==
    /\ pc[t] = "idle" /\ runs < MaxRuns
    /\ runs' = runs + 1
    /\ armed' = TRUE
    /\ hist' = [hist EXCEPT ![t] = Idle]
    /\ Go(t, "run")
    /\ UNCHANGED <<state, return_code, stopped, queue, timers, running, rc,
                   result, stops>>

\* Mutant: a context that is shutting down may be run as well.
RunClaimStopping(t) ==
    /\ pc[t] = "run" /\ state # "running"
    /\ state' = "running"
    /\ running' = [running EXCEPT ![t] = TRUE]
    /\ Go(t, "claimed")
    /\ hist' = [u \in Threads |->
                  IF u = t THEN [hist[u] EXCEPT !.fresh = ~stopped] ELSE hist[u]]
    /\ UNCHANGED <<return_code, stopped, queue, timers, armed, rc, result, runs, stops>>

RunClaim(t) ==
    /\ pc[t] = "run" /\ state = "stopped"
    /\ state' = "running"
    /\ running' = [running EXCEPT ![t] = TRUE]
    /\ Go(t, "claimed")
    /\ hist' = [u \in Threads |->
                  IF u = t THEN [hist[u] EXCEPT !.fresh = ~stopped]
                  ELSE [hist[u] EXCEPT !.disturbed = @ \/ pc[u] = "released"]]
    /\ UNCHANGED <<return_code, stopped, queue, timers, armed, rc, result, runs, stops>>

RunRefused(t) ==
    /\ pc[t] = "run" /\ state # "stopped"
    /\ result' = [result EXCEPT ![t] = "already_running"]
    /\ Go(t, "idle")
    /\ UNCHANGED <<state, return_code, stopped, queue, timers, armed, running, rc,
                   runs, stops, hist>>

\* Mutant: return_code_ is emptied instead.
RunResetToNone(t) ==
    /\ pc[t] = "claimed"
    /\ return_code' = None
    /\ Go(t, "loop")
    /\ UNCHANGED <<state, stopped, queue, timers, armed, running, rc, result, runs, stops, hist>>

RunReset(t) ==
    /\ pc[t] = "claimed"
    /\ return_code' = "success"
    /\ Go(t, "loop")
    /\ UNCHANGED <<state, stopped, queue, timers, armed, running, rc, result, runs, stops, hist>>

\* stopped never becomes FALSE again, so leaving the loop and storing state_
\* make one step.
RunRelease(t) ==
    /\ pc[t] = "loop" /\ stopped
    /\ state' = "stopped"
    /\ running' = [running EXCEPT ![t] = FALSE]
    /\ Go(t, "released")
    /\ UNCHANGED <<return_code, stopped, queue, timers, armed, rc, result, runs, stops, hist>>

RunReturn(t) ==
    /\ pc[t] = "released"
    /\ result' = [result EXCEPT ![t] = return_code]
    /\ Go(t, "idle")
    /\ UNCHANGED <<state, return_code, stopped, queue, timers, armed, running, rc,
                   runs, stops, hist>>

-----------------------------------------------------------------------------
(***************************************************************************)
(* stop(), called from a thread of its own or from a handler.              *)
(***************************************************************************)
InRun(t) == pc[t] = "run" \/ running[t]

InStop(t) == pc[t] \in {"accepted", "stored"}

\* Mutants: a second stop() is accepted as well, or one that finds the context
\* not running yet.
StopBeginsAgain(t, code) ==
    /\ IF state # "stopped"
       THEN /\ state' = "stopping"
            /\ rc' = [rc EXCEPT ![t] = code]
            /\ Go(t, "accepted")
       ELSE UNCHANGED <<state, rc, pc>>
    /\ UNCHANGED hist

StopUnconditionally(t, code) ==
    /\ state' = IF state = "running" THEN "stopping" ELSE state
    /\ rc' = [rc EXCEPT ![t] = code]
    /\ Go(t, "accepted")
    /\ hist' = [u \in Threads |-> [hist[u] EXCEPT !.asked = @ \/ InRun(u)]]

\* The compare-and-exchange of stop(code) by t; it returns at once if it fails.
StopBegins(t, code) ==
    /\ IF state = "running"
       THEN /\ state' = "stopping"
            /\ rc' = [rc EXCEPT ![t] = code]
            /\ Go(t, "accepted")
       ELSE UNCHANGED <<state, rc, pc>>
    /\ hist' = [u \in Threads |->
                  [hist[u] EXCEPT
                     !.asked     = @ \/ InRun(u),
                     !.cause     = IF state = "running" /\ running[u] THEN @ \cup {code} ELSE @,
                     !.disturbed = @ \/ (state = "running" /\ pc[u] = "claimed")]]

CallStop(t, code) ==
    /\ pc[t] = "idle" /\ stops < MaxStops
    /\ stops' = stops + 1
    /\ StopBegins(t, code)
    /\ UNCHANGED <<return_code, stopped, queue, timers, armed, running, result, runs>>

StopStore(t) ==
    /\ pc[t] = "accepted"
    /\ return_code' = rc[t]
    /\ Go(t, "stored")
    /\ UNCHANGED <<state, stopped, queue, timers, armed, running, rc, result, runs, stops, hist>>

\* Mutant: the io_service is not told.
StopServiceForgotten(t) ==
    /\ pc[t] = "stored"
    /\ Go(t, IF running[t] THEN "loop" ELSE "idle")
    /\ UNCHANGED <<state, return_code, stopped, queue, timers, armed, running, rc, result,
                   runs, stops, hist>>

StopService(t) ==
    /\ pc[t] = "stored"
    /\ stopped' = TRUE
    /\ rc' = [rc EXCEPT ![t] = "success"]
    /\ Go(t, IF running[t] THEN "loop" ELSE "idle")
    /\ UNCHANGED <<state, return_code, queue, timers, armed, running, result,
                   runs, stops, hist>>

-----------------------------------------------------------------------------
(***************************************************************************)
(* Handlers.                                                               *)
(***************************************************************************)
Known == timers \cup {queue[i] : i \in DOMAIN queue}

Dispatch(task) ==
    /\ task \notin Known
    /\ queue' = Append(queue, task)
    /\ UNCHANGED <<state, return_code, stopped, timers, armed, pc, running, rc, result,
                   runs, stops, hist>>

ScheduleIn(task) ==
    /\ task \notin Known
    /\ timers' = timers \cup {task}
    /\ UNCHANGED <<state, return_code, stopped, queue, armed, pc, running, rc, result,
                   runs, stops, hist>>

Elapse(task) ==
    /\ task \in timers
    /\ timers' = timers \ {task}
    /\ queue' = Append(queue, task)
    /\ UNCHANGED <<state, return_code, stopped, armed, pc, running, rc, result,
                   runs, stops, hist>>

\* Only the first signal reaches the handler: async_wait is called once.
Signal ==
    /\ armed
    /\ armed' = FALSE
    /\ queue' = Append(queue, "signal")
    /\ UNCHANGED <<state, return_code, stopped, timers, pc, running, rc, result,
                   runs, stops, hist>>

\* Mutant: an exception leaves the loop.
HandleTaskOrLeave(t) ==
    /\ pc[t] = "loop" /\ ~stopped
    /\ queue # <<>> /\ Head(queue) # "signal"
    /\ queue' = Tail(queue)
    /\ IF Head(queue) \in Throwing
       THEN /\ state' = "stopped"
            /\ running' = [running EXCEPT ![t] = FALSE]
            /\ Go(t, "released")
       ELSE UNCHANGED <<state, running, pc>>
    /\ UNCHANGED <<return_code, stopped, timers, armed, rc, result, runs, stops, hist>>

\* The loop catches what a functor throws and runs the io_service again.
HandleTask(t) ==
    /\ pc[t] = "loop" /\ ~stopped
    /\ queue # <<>> /\ Head(queue) # "signal"
    /\ queue' = Tail(queue)
    /\ UNCHANGED <<state, return_code, stopped, timers, armed, pc, running, rc, result,
                   runs, stops, hist>>

\* Every signal handler of the SDK stops the context with success.
HandleSignal(t) ==
    /\ pc[t] = "loop" /\ ~stopped
    /\ queue # <<>> /\ Head(queue) = "signal"
    /\ queue' = Tail(queue)
    /\ StopBegins(t, "success")
    /\ UNCHANGED <<return_code, stopped, timers, armed, running, result, runs, stops>>

-----------------------------------------------------------------------------
Step(t) ==
    \/ RunClaim(t) \/ RunRefused(t) \/ RunReset(t) \/ RunRelease(t) \/ RunReturn(t)
    \/ StopStore(t) \/ StopService(t)
    \/ HandleTask(t) \/ HandleSignal(t)

Next ==
    \/ \E t \in Threads :
          CallRun(t) \/ CallExec(t) \/ (\E code \in StopCode : CallStop(t, code)) \/ Step(t)
    \/ \E task \in Tasks : Dispatch(task) \/ ScheduleIn(task) \/ Elapse(task)
    \/ Signal

Spec == Init /\ [][Next]_vars

\* A thread that can take a step of run() or stop() takes it in the end.
FairSpec == Spec /\ \A t \in Threads : WF_vars(Step(t))

-----------------------------------------------------------------------------
(***************************************************************************)
(* Properties.                                                             *)
(***************************************************************************)
\* One thread at a time is between the two stores of state_ in run(), and
\* state_ says whether there is one, however runs and stops interleave: this
\* is what makes every callback of the SDK single-threaded.
OneRunner ==
    /\ \A t, u \in Threads : running[t] /\ running[u] => t = u
    /\ (state # "stopped") <=> \E t \in Threads : running[t]

\* An accepted stop() is the only one until the run it stops has left its loop.
OneStopper ==
    ~stopped => \A t, u \in Threads : InStop(t) /\ InStop(u) => t = u

Returned(t) == pc[t] = "idle" /\ result[t] \in StopCode

\* "block the current thread until either an error occured or the user
\* explicitly requests a Context instance to stop": true of the first run(),
\* which returns only after a stop() that found it running, and with the code
\* of that stop() except in two windows: the stop() came before return_code_
\* was reset, or another run() began before return_code_ was read.
FirstRunReturnsItsStop ==
    \A t \in Threads :
        Returned(t) /\ hist[t].fresh =>
            /\ hist[t].cause # {}
            /\ hist[t].disturbed \/ hist[t].cause = {result[t]}

\* An accepted stop() gets the run it stops to return, also when it is called
\* from a handler of that very run.
StopEndsRunning ==
    \A t \in Threads : (running[t] /\ state = "stopping") ~> (pc[t] = "idle")

\* A task is not lost while the context runs: it is executed unless the context
\* is stopped, whatever the tasks before it throw.
TaskRuns ==
    \A task \in Tasks :
        (task \in Known \ timers /\ \E t \in Threads : pc[t] = "loop")
            ~> (task \notin Known \ timers \/ stopped)

\* "stop requests an instance to shut down its operation and return from run"
\* (context.h:80): a stop() that is called while a thread is in run() gets that
\* run to return.
StopEndsEveryRun ==
    \A t \in Threads : (hist[t].asked /\ pc[t] # "idle") ~> (pc[t] = "idle")

=============================================================================

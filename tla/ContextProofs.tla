--------------------------- MODULE ContextProofs ---------------------------
(***************************************************************************)
(* What is true of the context for any number of threads, tasks, runs and  *)
(* stops.  The inductive invariant says where a thread that owns the run   *)
(* can be (Placed), that it alone does (OneRunner), that a stop() in       *)
(* progress is the only one and has made state_ "stopping" (Stopping), and *)
(* what the first run() and its stop() know of each other (Told).          *)
(***************************************************************************)
EXTENDS Context, TLAPS

\* A thread is inside run() after claiming state_ exactly where it may be.
Placed ==
    \A t \in Threads :
        /\ pc[t] \in {"claimed", "loop"} => running[t]
        /\ running[t] => pc[t] \in {"claimed", "loop", "accepted", "stored"}

Stopping ==
    /\ OneStopper
    /\ ~stopped => \A t \in Threads : InStop(t) => state = "stopping"

Inv == TypeOK /\ Placed /\ OneRunner /\ Stopping

\* A run() that has not claimed state_ has no history; one that has and was not
\* stopped has no cause yet.
Begun(t) ==
    /\ pc[t] = "run" => ~hist[t].fresh /\ ~hist[t].disturbed /\ hist[t].cause = {}
    /\ running[t] /\ state = "running" => hist[t].cause = {}
    /\ running[t] /\ state = "running" /\ hist[t].fresh => ~stopped

\* While the first run() is being stopped, the thread in stop() carries its
\* cause, and after storing it return_code_ is that code.
Carried(t, u) ==
    /\ InStop(u) /\ hist[t].cause = {rc[u]}
    /\ hist[t].disturbed \/ pc[t] # "claimed"
    /\ pc[u] = "stored" => hist[t].disturbed \/ return_code = rc[u]

Stopped(t) ==
    hist[t].fresh /\ running[t] /\ state = "stopping" /\ ~stopped
        => \E u \in Threads : Carried(t, u)

\* Then nobody touches return_code_ until it is read, or the run is disturbed.
Kept(t) ==
    /\ \A u \in Threads : ~InStop(u)
    /\ hist[t].cause = {return_code}

Left(t) ==
    /\ hist[t].fresh /\ running[t] /\ stopped
          => /\ state = "stopping"
             /\ hist[t].cause # {}
             /\ hist[t].disturbed \/ pc[t] # "claimed"
             /\ \A u \in Threads : ~InStop(u)
             /\ hist[t].disturbed \/ Kept(t)
    /\ hist[t].fresh /\ pc[t] = "released"
          => /\ hist[t].cause # {}
             /\ hist[t].disturbed \/ (Kept(t) /\ state = "stopped")

\* Afterwards the thread may call stop() for others, which changes nothing.
Over(t) ==
    hist[t].fresh /\ ~running[t] /\ pc[t] \in {"idle", "accepted", "stored"}
            /\ result[t] \in StopCode
        => /\ hist[t].cause # {}
           /\ hist[t].disturbed \/ hist[t].cause = {result[t]}

Told == \A t \in Threads : Begun(t) /\ Stopped(t) /\ Left(t) /\ Over(t)

ToldInv == Inv /\ Told

\* The context starts with nobody in run() or stop().
LEMMA InitInv == Init => Inv
<1> SUFFICES ASSUME Init PROVE Inv
  OBVIOUS
<1>1. TypeOK
  <2>1. queue \in Seq(Tasks \cup {"signal"})
    BY DEF Init
  <2>2. hist \in [Threads -> History]
    BY DEF Init, History, Idle
  <2>3. /\ state \in {"stopped", "stopping", "running"} /\ return_code \in ReturnCode
        /\ timers \in SUBSET Tasks /\ pc \in [Threads -> Place] /\ rc \in [Threads -> StopCode]
        /\ result \in [Threads -> ReturnCode \cup {None}] /\ runs \in Nat /\ stops \in Nat
    BY DEF Init, ReturnCode, StopCode, Place
  <2>4. stopped \in BOOLEAN /\ armed \in BOOLEAN /\ running \in [Threads -> BOOLEAN]
    BY DEF Init
  <2> QED
    BY <2>1, <2>2, <2>3, <2>4 DEF TypeOK
<1>2. \A t \in Threads : pc[t] = "idle" /\ running[t] = FALSE
  BY DEF Init
<1>3. Placed /\ OneRunner /\ Stopping
  BY <1>2 DEF Init, Placed, OneRunner, Stopping, OneStopper, InStop
<1> QED
  BY <1>1, <1>3 DEF Inv

\* What stop() notes in the history of the runs is a history.
LEMMA HistoryStep ==
    ASSUME TypeOK, NEW t \in Threads, NEW code \in StopCode, StopBegins(t, code)
    PROVE  hist' \in [Threads -> History]
<1>1. ASSUME NEW u \in Threads PROVE hist'[u] \in History
  <2> DEFINE h == hist[u]
  <2>1. h \in [asked : BOOLEAN, fresh : BOOLEAN, cause : SUBSET StopCode, disturbed : BOOLEAN]
    BY DEF TypeOK, History
  <2>2. hist'[u] = [h EXCEPT !.asked = @ \/ InRun(u),
                             !.cause = IF state = "running" /\ running[u] THEN @ \cup {code} ELSE @,
                             !.disturbed = @ \/ (state = "running" /\ pc[u] = "claimed")]
    BY DEF StopBegins
  <2> DEFINE a == h.asked \/ InRun(u)
             c == IF state = "running" /\ running[u] THEN h.cause \cup {code} ELSE h.cause
             d == h.disturbed \/ (state = "running" /\ pc[u] = "claimed")
  <2>3. hist'[u] = [asked |-> a, fresh |-> h.fresh, cause |-> c, disturbed |-> d]
    BY <2>1, <2>2, Zenon
  <2>4. a \in BOOLEAN /\ d \in BOOLEAN /\ h.fresh \in BOOLEAN
    BY <2>1
  <2>5. c \in SUBSET StopCode
    BY <2>1
  <2> HIDE DEF a, c, d, h
  <2> QED
    BY <2>3, <2>4, <2>5 DEF History
<1>2. hist' = [u \in Threads |-> hist'[u]]
  BY DEF StopBegins
<1> QED
  BY <1>1, <1>2

\* A handler may be put at the end of the queue.
LEMMA AppendType ==
    ASSUME queue \in Seq(Tasks \cup {"signal"}), NEW x \in Tasks \cup {"signal"}
    PROVE  Append(queue, x) \in Seq(Tasks \cup {"signal"})
OBVIOUS

\* Every step keeps the types, whatever it does to the history.
LEMMA TypeStep == TypeOK /\ [Next]_vars => TypeOK'
<1> SUFFICES ASSUME TypeOK, [Next]_vars PROVE TypeOK'
  OBVIOUS
<1> USE DEF TypeOK
<1>1. ASSUME NEW t \in Threads, CallRun(t) PROVE TypeOK'
  BY <1>1 DEF CallRun, Go, Place, History, Idle
<1>2. ASSUME NEW t \in Threads, CallExec(t) PROVE TypeOK'
  BY <1>2 DEF CallExec, Go, Place, History, Idle
<1>3. ASSUME NEW t \in Threads, NEW code \in StopCode, CallStop(t, code) PROVE TypeOK'
  <2>1. hist' \in [Threads -> History]
    BY <1>3, HistoryStep DEF CallStop
  <2>2. state' \in {"stopped", "stopping", "running"} /\ pc' \in [Threads -> Place]
        /\ rc' \in [Threads -> StopCode]
    BY <1>3 DEF CallStop, StopBegins, Go, Place
  <2> QED
    BY <1>3, <2>1, <2>2 DEF CallStop
<1>4. ASSUME NEW t \in Threads, RunClaim(t) PROVE TypeOK'
  BY <1>4 DEF RunClaim, Go, Place, History
<1>5. ASSUME NEW t \in Threads, RunRefused(t) PROVE TypeOK'
  BY <1>5 DEF RunRefused, Go, Place, ReturnCode
<1>6. ASSUME NEW t \in Threads, RunReset(t) PROVE TypeOK'
  BY <1>6 DEF RunReset, Go, Place, ReturnCode
<1>7. ASSUME NEW t \in Threads, RunRelease(t) PROVE TypeOK'
  BY <1>7 DEF RunRelease, Go, Place
<1>8. ASSUME NEW t \in Threads, RunReturn(t) PROVE TypeOK'
  BY <1>8 DEF RunReturn, Go, Place
<1>9. ASSUME NEW t \in Threads, StopStore(t) PROVE TypeOK'
  BY <1>9 DEF StopStore, Go, Place, StopCode, ReturnCode
<1>10. ASSUME NEW t \in Threads, StopService(t) PROVE TypeOK'
  BY <1>10 DEF StopService, Go, Place, StopCode
<1>11. ASSUME NEW t \in Threads, HandleTask(t) PROVE TypeOK'
  BY <1>11 DEF HandleTask
<1>12. ASSUME NEW t \in Threads, HandleSignal(t) PROVE TypeOK'
  <2>1. hist' \in [Threads -> History]
    BY <1>12, HistoryStep DEF HandleSignal, StopCode
  <2>2. state' \in {"stopped", "stopping", "running"} /\ pc' \in [Threads -> Place]
        /\ rc' \in [Threads -> StopCode]
    BY <1>12 DEF HandleSignal, StopBegins, Go, Place, StopCode
  <2> QED
    BY <1>12, <2>1, <2>2 DEF HandleSignal
<1>13. ASSUME NEW task \in Tasks, Dispatch(task) \/ ScheduleIn(task) \/ Elapse(task) PROVE TypeOK'
  <2>1. queue' \in Seq(Tasks \cup {"signal"})
    <3>1. CASE queue' = queue
      BY <3>1
    <3>2. CASE queue' = Append(queue, task)
      BY <3>2, AppendType
    <3> QED
      BY <1>13, <3>1, <3>2 DEF Dispatch, ScheduleIn, Elapse
  <2> QED
    BY <1>13, <2>1 DEF Dispatch, ScheduleIn, Elapse
<1>14. ASSUME Signal PROVE TypeOK'
  <2>1. queue' \in Seq(Tasks \cup {"signal"})
    BY <1>14, AppendType DEF Signal
  <2> QED
    BY <1>14, <2>1 DEF Signal
<1>15. CASE UNCHANGED vars
  BY <1>15 DEF vars
<1> QED
  BY <1>1, <1>2, <1>3, <1>4, <1>5, <1>6, <1>7, <1>8, <1>9, <1>10, <1>11, <1>12, <1>13, <1>14,
     <1>15 DEF Next, Step

\* Where threads are and what state_ says of them, after any step.
LEMMA PlaceStep == Inv /\ [Next]_vars => (Placed /\ OneRunner /\ Stopping)'
<1> SUFFICES ASSUME Inv, [Next]_vars PROVE (Placed /\ OneRunner /\ Stopping)'
  OBVIOUS
<1> DEFINE P == (Placed /\ OneRunner /\ Stopping)'
<1>0. /\ pc \in [Threads -> Place] /\ running \in [Threads -> BOOLEAN]
      /\ stopped \in BOOLEAN /\ state \in {"stopped", "stopping", "running"}
  BY DEF Inv, TypeOK
<1> USE <1>0 DEF Inv, Placed, OneRunner, Stopping, OneStopper, InStop, Go
<1>1. ASSUME NEW t \in Threads, CallRun(t) \/ CallExec(t) PROVE P
  BY <1>1 DEF CallRun, CallExec
<1>2. ASSUME NEW t \in Threads, NEW code \in StopCode, StopBegins(t, code),
             pc[t] = "idle" \/ pc[t] = "loop", UNCHANGED <<running, stopped>>
      PROVE  P
  <2>1. CASE state = "running"
    BY <1>2, <2>1, ZenonT(60) DEF StopBegins
  <2>2. CASE state # "running"
    BY <1>2, <2>2 DEF StopBegins
  <2> QED
    BY <2>1, <2>2
<1>3. ASSUME NEW t \in Threads, NEW code \in StopCode, CallStop(t, code) PROVE P
  BY <1>2, <1>3 DEF CallStop
<1>4. ASSUME NEW t \in Threads, RunClaim(t) PROVE P
  BY <1>4 DEF RunClaim
<1>5. ASSUME NEW t \in Threads, RunRefused(t) \/ RunReturn(t) PROVE P
  BY <1>5 DEF RunRefused, RunReturn
<1>6. ASSUME NEW t \in Threads, RunReset(t) PROVE P
  BY <1>6 DEF RunReset
<1>7. ASSUME NEW t \in Threads, RunRelease(t) PROVE P
  BY <1>7 DEF RunRelease
<1>8. ASSUME NEW t \in Threads, StopStore(t) PROVE P
  BY <1>8 DEF StopStore
<1>9. ASSUME NEW t \in Threads, StopService(t) PROVE P
  BY <1>9 DEF StopService
<1>10. ASSUME NEW t \in Threads, HandleSignal(t) PROVE P
  BY <1>2, <1>10 DEF HandleSignal, StopCode
<1>11. ASSUME UNCHANGED <<state, stopped, pc, running>> PROVE P
  BY <1>11
<1>12. ASSUME NEW task \in Tasks, Dispatch(task) \/ ScheduleIn(task) \/ Elapse(task)
       PROVE  UNCHANGED <<state, stopped, pc, running>>
  BY <1>12 DEF Dispatch, ScheduleIn, Elapse
<1>13. ASSUME NEW t \in Threads, HandleTask(t) PROVE UNCHANGED <<state, stopped, pc, running>>
  BY <1>13 DEF HandleTask
<1>14. CASE Signal \/ UNCHANGED vars
  BY <1>11, <1>14 DEF Signal, vars
<1> QED
  BY <1>1, <1>3, <1>4, <1>5, <1>6, <1>7, <1>8, <1>9, <1>10, <1>11, <1>12, <1>13, <1>14
     DEF Next, Step

\* What stop() notes, field by field.
LEMMA HistoryOfStop ==
    ASSUME TypeOK, NEW t \in Threads, NEW code \in StopCode, StopBegins(t, code), NEW u \in Threads
    PROVE  /\ hist'[u].fresh = hist[u].fresh
           /\ hist'[u].cause = IF state = "running" /\ running[u] THEN hist[u].cause \cup {code}
                              ELSE hist[u].cause
           /\ hist'[u].disturbed <=> hist[u].disturbed \/ (state = "running" /\ pc[u] = "claimed")
<1> DEFINE h == hist[u]
<1>1. h \in [asked : BOOLEAN, fresh : BOOLEAN, cause : SUBSET StopCode, disturbed : BOOLEAN]
  BY DEF TypeOK, History
<1>2. hist'[u] = [h EXCEPT !.asked = @ \/ InRun(u),
                           !.cause = IF state = "running" /\ running[u] THEN @ \cup {code} ELSE @,
                           !.disturbed = @ \/ (state = "running" /\ pc[u] = "claimed")]
  BY DEF StopBegins
<1> QED
  BY <1>1, <1>2, Zenon

\* What a run() that claims state_ notes, field by field.
LEMMA HistoryOfClaim ==
    ASSUME TypeOK, NEW t \in Threads, RunClaim(t), NEW u \in Threads
    PROVE  /\ hist'[u].cause = hist[u].cause
           /\ u = t => (hist'[u].fresh <=> ~stopped) /\ (hist'[u].disturbed <=> hist[u].disturbed)
           /\ u # t => /\ hist'[u].fresh = hist[u].fresh
                       /\ hist'[u].disturbed <=> hist[u].disturbed \/ pc[u] = "released"
<1> DEFINE h == hist[u]
<1>1. h \in [asked : BOOLEAN, fresh : BOOLEAN, cause : SUBSET StopCode, disturbed : BOOLEAN]
  BY DEF TypeOK, History
<1>2. CASE u = t
  <2>1. hist'[u] = [h EXCEPT !.fresh = ~stopped]
    BY <1>2 DEF RunClaim
  <2> QED
    BY <1>1, <1>2, <2>1, Zenon
<1>3. CASE u # t
  <2>1. hist'[u] = [h EXCEPT !.disturbed = @ \/ pc[u] = "released"]
    BY <1>3 DEF RunClaim
  <2> QED
    BY <1>1, <1>3, <2>1, Zenon
<1> QED
  BY <1>2, <1>3

\* A stop() that begins: it becomes the carrier of the cause, or does nothing.
LEMMA ToldStop ==
    ASSUME ToldInv, NEW t \in Threads, NEW code \in StopCode, StopBegins(t, code),
           pc[t] = "idle" \/ pc[t] = "loop", UNCHANGED <<running, stopped, return_code, result>>
    PROVE  Told'
<1>0. /\ pc \in [Threads -> Place] /\ running \in [Threads -> BOOLEAN] /\ stopped \in BOOLEAN
      /\ rc \in [Threads -> StopCode] /\ state \in {"stopped", "stopping", "running"}
  BY DEF ToldInv, Inv, TypeOK
<1>1. SUFFICES ASSUME NEW w \in Threads
              PROVE  Begun(w)' /\ Stopped(w)' /\ Left(w)' /\ Over(w)'
  BY DEF Told
<1>2. Begun(w) /\ Stopped(w) /\ Left(w) /\ Over(w)
  BY DEF ToldInv, Told
<1>3. /\ hist'[w].fresh = hist[w].fresh
      /\ hist'[w].cause = IF state = "running" /\ running[w] THEN hist[w].cause \cup {code}
                         ELSE hist[w].cause
      /\ hist'[w].disturbed <=> hist[w].disturbed \/ (state = "running" /\ pc[w] = "claimed")
  BY HistoryOfStop DEF ToldInv, Inv
<1>4. CASE state # "running"
  <2>1. /\ UNCHANGED <<state, rc, pc>>
        /\ hist'[w].cause = hist[w].cause /\ hist'[w].disturbed <=> hist[w].disturbed
    BY <1>3, <1>4 DEF StopBegins
  <2>2. Begun(w)'
    BY <1>2, <1>3, <1>4, <2>1 DEF Begun
  <2>3. Stopped(w)'
    BY <1>2, <1>3, <2>1 DEF Stopped, Carried, InStop
  <2>4. Left(w)'
    BY <1>2, <1>3, <2>1 DEF Left, Kept, InStop
  <2>5. Over(w)'
    BY <1>2, <1>3, <2>1 DEF Over
  <2> QED
    BY <2>2, <2>3, <2>4, <2>5
<1>5. CASE state = "running"
  <2>1. /\ state' = "stopping" /\ rc' = [rc EXCEPT ![t] = code]
        /\ pc' = [pc EXCEPT ![t] = "accepted"]
    BY <1>5 DEF StopBegins, Go
  <2>2. \E o \in Threads : running[o]
    BY <1>5 DEF ToldInv, Inv, OneRunner
  <2>3. Begun(w)'
    BY <1>0, <1>2, <1>3, <2>1, <1>5 DEF Begun, ToldInv, Inv, Placed
  <2>4. Stopped(w)'
    <3>1. SUFFICES ASSUME hist[w].fresh, running[w], ~stopped PROVE Carried(w, t)'
      BY <1>3 DEF Stopped
    <3>2. hist'[w].cause = {code} /\ rc'[t] = code /\ pc'[t] = "accepted"
      BY <1>0, <1>2, <1>3, <1>5, <2>1, <3>1 DEF Begun
    <3>3. hist'[w].disturbed \/ pc'[w] # "claimed"
      BY <1>0, <1>3, <1>5, <2>1
    <3> QED
      BY <3>2, <3>3 DEF Carried, InStop
  <2>5. Left(w)'
    <3>1. ~(hist[w].fresh /\ running[w] /\ stopped)
      BY <1>2, <1>5 DEF Begun
    <3>2. CASE hist[w].fresh /\ pc'[w] = "released"
      <4>1. pc[w] = "released" /\ hist[w].disturbed /\ hist[w].cause # {}
        BY <1>0, <1>2, <1>5, <2>1, <3>2 DEF Left
      <4> QED
        BY <1>3, <1>5, <3>1, <4>1 DEF Left
    <3>3. CASE ~(hist[w].fresh /\ pc'[w] = "released")
      BY <1>3, <3>1, <3>3 DEF Left
    <3> QED
      BY <3>2, <3>3
  <2>6. Over(w)'
    <3>1. SUFFICES ASSUME hist[w].fresh, ~running[w], pc'[w] \in {"idle", "accepted", "stored"},
                          result[w] \in StopCode
                   PROVE  hist'[w].cause # {} /\ (hist'[w].disturbed \/ hist'[w].cause = {result[w]})
      BY <1>3 DEF Over
    <3>2. pc[w] \in {"idle", "accepted", "stored"}
      BY <1>0, <2>1, <3>1 DEF ToldInv, Inv, Placed
    <3> QED
      BY <1>2, <1>3, <3>1, <3>2 DEF Over
  <2> QED
    BY <2>3, <2>4, <2>5, <2>6
<1> QED
  BY <1>4, <1>5

\* A run() that claims state_: it starts without a cause, and disturbs whoever
\* has not read return_code_ yet.
LEMMA ToldClaim == ASSUME ToldInv, NEW t \in Threads, RunClaim(t) PROVE Told'
<1>0. /\ pc \in [Threads -> Place] /\ running \in [Threads -> BOOLEAN] /\ stopped \in BOOLEAN
  BY DEF ToldInv, Inv, TypeOK
<1>1. SUFFICES ASSUME NEW w \in Threads
              PROVE  Begun(w)' /\ Stopped(w)' /\ Left(w)' /\ Over(w)'
  BY DEF Told
<1>2. Begun(w) /\ Stopped(w) /\ Left(w) /\ Over(w)
  BY DEF ToldInv, Told
<1>3. /\ pc[t] = "run" /\ state = "stopped" /\ state' = "running"
      /\ running' = [running EXCEPT ![t] = TRUE] /\ pc' = [pc EXCEPT ![t] = "claimed"]
      /\ UNCHANGED <<return_code, stopped, result>>
  BY DEF RunClaim, Go
<1>4. /\ hist'[w].cause = hist[w].cause
      /\ w = t => (hist'[w].fresh <=> ~stopped) /\ (hist'[w].disturbed <=> hist[w].disturbed)
      /\ w # t => /\ hist'[w].fresh = hist[w].fresh
                  /\ hist'[w].disturbed <=> hist[w].disturbed \/ pc[w] = "released"
  BY HistoryOfClaim DEF ToldInv, Inv
<1>5. ~running[w]
  BY <1>0, <1>3 DEF ToldInv, Inv, OneRunner
<1>6. CASE w = t
  <2>1. Begun(w)'
    BY <1>0, <1>2, <1>3, <1>4, <1>6 DEF Begun
  <2>2. Stopped(w)'
    BY <1>3 DEF Stopped
  <2>3. Left(w)' /\ Over(w)'
    BY <1>0, <1>3, <1>4, <1>6 DEF Left, Over
  <2> QED
    BY <2>1, <2>2, <2>3
<1>7. CASE w # t
  <2>1. pc'[w] = pc[w] /\ ~running'[w]
    BY <1>0, <1>3, <1>5, <1>7
  <2>2. Begun(w)'
    BY <1>2, <1>4, <1>7, <2>1 DEF Begun
  <2>3. Stopped(w)'
    BY <1>3 DEF Stopped
  <2>4. Left(w)'
    BY <1>2, <1>4, <1>7, <2>1 DEF Left
  <2>5. Over(w)'
    BY <1>2, <1>3, <1>4, <1>5, <1>7, <2>1 DEF Over
  <2> QED
    BY <2>2, <2>3, <2>4, <2>5
<1> QED
  BY <1>6, <1>7

\* The other steps of run().
LEMMA ToldRun ==
    ASSUME ToldInv, NEW t \in Threads,
           RunRefused(t) \/ RunReset(t) \/ RunRelease(t) \/ RunReturn(t)
    PROVE  Told'
<1>0. /\ pc \in [Threads -> Place] /\ running \in [Threads -> BOOLEAN] /\ stopped \in BOOLEAN
      /\ result \in [Threads -> ReturnCode \cup {None}]
  BY DEF ToldInv, Inv, TypeOK
<1>1. SUFFICES ASSUME NEW w \in Threads
              PROVE  Begun(w)' /\ Stopped(w)' /\ Left(w)' /\ Over(w)'
  BY DEF Told
<1>2. Begun(w) /\ Stopped(w) /\ Left(w) /\ Over(w)
  BY DEF ToldInv, Told
<1>3. UNCHANGED <<stopped, hist, rc>>
  BY DEF RunRefused, RunReset, RunRelease, RunReturn
<1>4. CASE RunRefused(t)
  <2>1. /\ pc[t] = "run" /\ pc' = [pc EXCEPT ![t] = "idle"] /\ UNCHANGED <<state, return_code, running>>
        /\ result' = [result EXCEPT ![t] = "already_running"]
    BY <1>4 DEF RunRefused, Go
  <2>2. Begun(w)'
    BY <1>0, <1>2, <1>3, <2>1 DEF Begun
  <2>3. Stopped(w)'
    BY <1>0, <1>2, <1>3, <2>1 DEF Stopped, Carried, InStop
  <2>4. Left(w)'
    BY <1>0, <1>2, <1>3, <2>1 DEF Left, Kept, InStop
  <2>5. Over(w)'
    BY <1>0, <1>2, <1>3, <2>1 DEF Over, StopCode
  <2> QED
    BY <2>2, <2>3, <2>4, <2>5
<1>5. CASE RunReset(t)
  <2>1. /\ pc[t] = "claimed" /\ pc' = [pc EXCEPT ![t] = "loop"] /\ UNCHANGED <<state, running, result>>
        /\ running[t]
    BY <1>0, <1>5 DEF RunReset, Go, ToldInv, Inv, Placed
  <2>2. running[w] => w = t
    BY <2>1 DEF ToldInv, Inv, OneRunner
  <2>3. Begun(w)'
    BY <1>0, <1>2, <1>3, <2>1 DEF Begun
  <2>4. Stopped(w)'
    BY <1>0, <1>2, <1>3, <2>1, <2>2 DEF Stopped, Carried, InStop
  <2>5. Left(w)'
    <3>1. state # "stopped"
      BY <2>1 DEF ToldInv, Inv, OneRunner
    <3> QED
      BY <1>0, <1>2, <1>3, <2>1, <2>2, <3>1 DEF Left, Kept, InStop
  <2>6. Over(w)'
    BY <1>0, <1>2, <1>3, <2>1 DEF Over
  <2> QED
    BY <2>3, <2>4, <2>5, <2>6
<1>6. CASE RunRelease(t)
  <2>1. /\ pc[t] = "loop" /\ stopped /\ pc' = [pc EXCEPT ![t] = "released"]
        /\ running' = [running EXCEPT ![t] = FALSE] /\ state' = "stopped"
        /\ UNCHANGED <<result, return_code>> /\ running[t]
    BY <1>0, <1>6 DEF RunRelease, Go, ToldInv, Inv, Placed
  <2>2. ~running'[w]
    BY <1>0, <2>1 DEF ToldInv, Inv, OneRunner
  <2>3. Begun(w)'
    BY <1>0, <1>2, <1>3, <2>1, <2>2 DEF Begun
  <2>4. Stopped(w)'
    BY <2>2 DEF Stopped
  <2>5. Left(w)'
    <3>1. state # "stopped"
      BY <2>1 DEF ToldInv, Inv, OneRunner
    <3> QED
      BY <1>0, <1>2, <1>3, <2>1, <2>2, <3>1 DEF Left, Kept, InStop
  <2>6. Over(w)'
    BY <1>0, <1>2, <1>3, <2>1, <2>2 DEF Over, ToldInv, Inv, OneRunner
  <2> QED
    BY <2>3, <2>4, <2>5, <2>6
<1>7. CASE RunReturn(t)
  <2>1. /\ pc[t] = "released" /\ pc' = [pc EXCEPT ![t] = "idle"]
        /\ result' = [result EXCEPT ![t] = return_code] /\ UNCHANGED <<state, return_code, running>>
    BY <1>7 DEF RunReturn, Go
  <2>2. Begun(w)'
    BY <1>0, <1>2, <1>3, <2>1 DEF Begun
  <2>3. Stopped(w)'
    BY <1>0, <1>2, <1>3, <2>1 DEF Stopped, Carried, InStop
  <2>4. Left(w)'
    BY <1>0, <1>2, <1>3, <2>1 DEF Left, Kept, InStop
  <2>5. Over(w)'
    BY <1>0, <1>2, <1>3, <2>1 DEF Over, Left, Kept
  <2> QED
    BY <2>2, <2>3, <2>4, <2>5
<1> QED
  BY <1>4, <1>5, <1>6, <1>7

\* stop() stores its code, then stops the io_service.
LEMMA ToldStore ==
    ASSUME ToldInv, NEW t \in Threads, StopStore(t) \/ StopService(t)
    PROVE  Told'
<1>0. /\ pc \in [Threads -> Place] /\ running \in [Threads -> BOOLEAN] /\ stopped \in BOOLEAN
      /\ rc \in [Threads -> StopCode] /\ state \in {"stopped", "stopping", "running"}
  BY DEF ToldInv, Inv, TypeOK
<1>1. SUFFICES ASSUME NEW w \in Threads
              PROVE  Begun(w)' /\ Stopped(w)' /\ Left(w)' /\ Over(w)'
  BY DEF Told
<1>2. Begun(w) /\ Stopped(w) /\ Left(w) /\ Over(w)
  BY DEF ToldInv, Told
<1>3. UNCHANGED <<state, hist, running, result>> /\ InStop(t)
  BY DEF StopStore, StopService, InStop
<1>4. ~stopped => state = "stopping" /\ \A u \in Threads : InStop(u) => u = t
  BY <1>3 DEF ToldInv, Inv, Stopping, OneStopper
<1>5. CASE StopStore(t)
  <2>1. /\ pc[t] = "accepted" /\ pc' = [pc EXCEPT ![t] = "stored"] /\ return_code' = rc[t]
        /\ UNCHANGED <<stopped, rc>>
    BY <1>5 DEF StopStore, Go
  <2>2. Begun(w)'
    BY <1>0, <1>2, <1>3, <2>1 DEF Begun
  <2>3. Stopped(w)'
    BY <1>0, <1>2, <1>3, <1>4, <2>1 DEF Stopped, Carried, InStop
  <2>4. Left(w)'
    BY <1>0, <1>2, <1>3, <2>1 DEF Left, Kept
  <2>5. Over(w)'
    BY <1>0, <1>2, <1>3, <2>1 DEF Over
  <2> QED
    BY <2>2, <2>3, <2>4, <2>5
<1>6. CASE StopService(t)
  <2>1. /\ pc[t] = "stored" /\ pc' = [pc EXCEPT ![t] = IF running[t] THEN "loop" ELSE "idle"]
        /\ stopped' = TRUE /\ UNCHANGED return_code
    BY <1>6 DEF StopService, Go
  <2>2. Begun(w)'
    <3>1. CASE ~stopped
      BY <1>0, <1>2, <1>3, <1>4, <2>1, <3>1 DEF Begun
    <3>2. CASE stopped
      BY <1>0, <1>2, <1>3, <2>1, <3>2 DEF Begun
    <3> QED
      BY <3>1, <3>2
  <2>3. Stopped(w)'
    BY <2>1 DEF Stopped
  <2>4. Left(w)'
    <3>1. CASE hist[w].fresh /\ running[w]
      <4>1. CASE stopped
        BY <1>2, <1>3, <3>1, <4>1 DEF Left
      <4>2. CASE ~stopped
        <5>1. state = "stopping" /\ Carried(w, t)
          BY <1>2, <1>4, <3>1, <4>2 DEF Stopped, Carried
        <5>2. \A u \in Threads : ~InStop(u)'
          BY <1>0, <1>4, <2>1, <4>2 DEF InStop
        <5>3. pc'[w] # "released"
          BY <1>0, <2>1, <3>1 DEF ToldInv, Inv, Placed
        <5>4. pc'[w] = "claimed" => pc[w] = "claimed"
          BY <1>0, <2>1
        <5>5. hist[w].disturbed \/ hist[w].cause = {return_code}
          BY <2>1, <5>1 DEF Carried
        <5> QED
          BY <1>3, <2>1, <5>1, <5>2, <5>3, <5>4, <5>5 DEF Left, Kept, Carried
      <4> QED
        BY <4>1, <4>2
    <3>2. CASE hist[w].fresh /\ ~running[w]
      <4>1. pc'[w] = "released" => pc[w] = "released"
        BY <1>0, <2>1
      <4>2. pc[w] = "released" => hist[w].disturbed /\ hist[w].cause # {}
        BY <1>2, <1>3, <3>2 DEF Left, Kept
      <4> QED
        BY <1>3, <3>2, <4>1, <4>2 DEF Left
    <3>3. CASE ~hist[w].fresh
      BY <1>3, <3>3 DEF Left
    <3> QED
      BY <3>1, <3>2, <3>3
  <2>5. Over(w)'
    <3>1. ~running[w] /\ pc'[w] \in {"idle", "accepted", "stored"}
             => pc[w] \in {"idle", "accepted", "stored"}
      BY <1>0, <2>1
    <3> QED
      BY <1>2, <1>3, <3>1 DEF Over
  <2> QED
    BY <2>2, <2>3, <2>4, <2>5
<1> QED
  BY <1>5, <1>6

\* A call of run() starts a history of its own.
LEMMA ToldCall ==
    ASSUME ToldInv, NEW t \in Threads, CallRun(t) \/ CallExec(t)
    PROVE  Told'
<1>0. /\ pc \in [Threads -> Place] /\ running \in [Threads -> BOOLEAN] /\ stopped \in BOOLEAN
      /\ hist \in [Threads -> History]
  BY DEF ToldInv, Inv, TypeOK
<1>1. SUFFICES ASSUME NEW w \in Threads
              PROVE  Begun(w)' /\ Stopped(w)' /\ Left(w)' /\ Over(w)'
  BY DEF Told
<1>2. Begun(w) /\ Stopped(w) /\ Left(w) /\ Over(w)
  BY DEF ToldInv, Told
<1>3. /\ pc[t] = "idle" /\ pc' = [pc EXCEPT ![t] = "run"] /\ hist' = [hist EXCEPT ![t] = Idle]
      /\ UNCHANGED <<state, return_code, stopped, running, rc, result>>
  BY DEF CallRun, CallExec, Go
<1>4. ~running[t]
  BY <1>0, <1>3 DEF ToldInv, Inv, Placed
<1>5. CASE w = t
  <2>1. ~hist'[w].fresh /\ ~hist'[w].disturbed /\ hist'[w].cause = {}
    BY <1>0, <1>3, <1>5 DEF Idle
  <2>2. pc'[w] = "run" /\ ~running'[w]
    BY <1>0, <1>3, <1>4, <1>5
  <2> QED
    BY <2>1, <2>2 DEF Begun, Stopped, Left, Over
<1>6. CASE w # t
  <2>1. hist'[w] = hist[w] /\ pc'[w] = pc[w]
    BY <1>0, <1>3, <1>6
  <2>2. \A u \in Threads : InStop(u)' <=> InStop(u)
    BY <1>0, <1>3 DEF InStop
  <2>3. \A u \in Threads : pc'[u] = "stored" <=> pc[u] = "stored"
    BY <1>0, <1>3
  <2>4. Begun(w)' /\ Over(w)'
    BY <1>2, <1>3, <2>1 DEF Begun, Over
  <2>5. Stopped(w)'
    BY <1>2, <1>3, <2>1, <2>2, <2>3 DEF Stopped, Carried
  <2>6. Left(w)'
    BY <1>2, <1>3, <2>1, <2>2 DEF Left, Kept
  <2> QED
    BY <2>4, <2>5, <2>6
<1> QED
  BY <1>5, <1>6

\* Every step keeps the whole invariant.
LEMMA InvStep == ToldInv /\ [Next]_vars => ToldInv'
<1> SUFFICES ASSUME ToldInv, [Next]_vars PROVE Told'
  BY TypeStep, PlaceStep DEF ToldInv, Inv
<1>1. ASSUME NEW t \in Threads, NEW code \in StopCode, CallStop(t, code) PROVE Told'
  BY <1>1, ToldStop DEF CallStop
<1>2. ASSUME NEW t \in Threads, HandleSignal(t) PROVE Told'
  BY <1>2, ToldStop DEF HandleSignal, StopCode
<1>3. ASSUME UNCHANGED <<state, return_code, stopped, pc, running, rc, result, hist>> PROVE Told'
  BY <1>3 DEF ToldInv, Told, Begun, Stopped, Carried, Left, Kept, Over, InStop
<1>4. ASSUME NEW t \in Threads, HandleTask(t) PROVE Told'
  BY <1>3, <1>4 DEF HandleTask
<1>5. ASSUME NEW task \in Tasks, Dispatch(task) \/ ScheduleIn(task) \/ Elapse(task) PROVE Told'
  BY <1>3, <1>5 DEF Dispatch, ScheduleIn, Elapse
<1>6. CASE Signal \/ UNCHANGED vars
  BY <1>3, <1>6 DEF Signal, vars
<1> QED
  BY <1>1, <1>2, <1>4, <1>5, <1>6, ToldClaim, ToldRun, ToldStore, ToldCall DEF Next, Step

-----------------------------------------------------------------------------
\* The inductive invariant holds of every behaviour of the context.
THEOREM ContextInvariant == Spec => []ToldInv
<1>1. Init => ToldInv
  <2> SUFFICES ASSUME Init PROVE Told
    BY InitInv DEF ToldInv
  <2>1. ASSUME NEW t \in Threads
        PROVE  pc[t] = "idle" /\ running[t] = FALSE /\ result[t] = None /\ hist[t] = Idle
    BY DEF Init
  <2>2. ASSUME NEW t \in Threads PROVE ~hist[t].fresh
    <3>1. Idle.fresh = FALSE
      BY DEF Idle
    <3> QED
      BY <2>1, <3>1
  <2> QED
    BY <2>1, <2>2 DEF Told, Begun, Stopped, Left, Over
<1> QED
  BY <1>1, InvStep, PTL DEF Spec

\* state_, return_code_ and the threads' places keep their types.
THEOREM ContextTypes == Spec => []TypeOK
<1>1. ToldInv => TypeOK
  BY DEF ToldInv, Inv
<1> QED
  BY <1>1, ContextInvariant, PTL

\* However many threads call run() and stop(), one at a time executes handlers,
\* and state_ says whether there is one.
THEOREM RunsAreExclusive == Spec => []OneRunner
<1>1. ToldInv => OneRunner
  BY DEF ToldInv, Inv
<1> QED
  BY <1>1, ContextInvariant, PTL

\* However many threads call stop(), one at a time is stopping the first run().
THEOREM StopsAreExclusive == Spec => []OneStopper
<1>1. ToldInv => OneStopper
  BY DEF ToldInv, Inv, Stopping
<1> QED
  BY <1>1, ContextInvariant, PTL

\* The first run() returns only for a stop() that found it running, with the code
\* of that stop() outside the two windows the property names.
THEOREM FirstRunIsAnswered == Spec => []FirstRunReturnsItsStop
<1>1. ToldInv => FirstRunReturnsItsStop
  <2> SUFFICES ASSUME ToldInv, NEW t \in Threads, Returned(t), hist[t].fresh
               PROVE  hist[t].cause # {} /\ (hist[t].disturbed \/ hist[t].cause = {result[t]})
    BY DEF FirstRunReturnsItsStop
  <2>1. ~running[t]
    BY DEF ToldInv, Inv, Placed, Returned
  <2> QED
    BY <2>1 DEF ToldInv, Told, Over, Returned
<1> QED
  BY <1>1, ContextInvariant, PTL

=============================================================================

-------------------------- MODULE Scheduler_proofs --------------------------
(***************************************************************************)
(* Proofs about Scheduler for every set of calls and tasks, every delay    *)
(* and every clock bound: type correctness, the agreement of the heap and  *)
(* the cancellation map, the absence of lost wakeups, the exact condition  *)
(* under which a task can run early, and the refinement of TimerService.   *)
(***************************************************************************)
EXTENDS Scheduler, TLAPS

(***************************************************************************)
(* Type correctness.                                                       *)
(***************************************************************************)
\* Every step keeps the types of the scheduler's variables.
LEMMA TypeStep == TypeOK /\ [Next]_vars => TypeOK'
<1> SUFFICES ASSUME TypeOK, [Next]_vars PROVE TypeOK'
  OBVIOUS
<1> USE SchedulerAssumption DEF TypeOK, PC
<1>1. ASSUME NEW t \in Tasks, NEW c \in Calls, NEW d \in 0 .. MaxDelay, ScheduleTask(t, c, d)
      PROVE  TypeOK'
  BY <1>1 DEF ScheduleTask
<1>2. ASSUME NEW c \in Calls, CancelByCallID(c)
      PROVE  TypeOK'
  BY <1>2 DEF CancelByCallID, CancelTasks, CancelPanics
<1>3. CASE Look
  BY <1>3 DEF Look, Heads
<1>4. CASE WakeReceived
  BY <1>4 DEF WakeReceived
<1>5. CASE TimerFires
  BY <1>5 DEF TimerFires
<1>6. CASE PopHead
  BY <1>6 DEF PopHead, Heads
<1>7. CASE PopPanics
  BY <1>7 DEF PopPanics
<1>8. CASE ForgetTask
  BY <1>8 DEF ForgetTask
<1>9. ASSUME NEW t \in Tasks, ActionStarts(t)
      PROVE  TypeOK'
  BY <1>9 DEF ActionStarts
<1>10. CASE Tick
  BY <1>10 DEF Tick
<1>11. CASE UNCHANGED vars
  BY <1>11 DEF vars
<1>12. QED
  BY <1>1, <1>2, <1>3, <1>4, <1>5, <1>6, <1>7, <1>8, <1>9, <1>10, <1>11 DEF Next, Run

\* The variables of the scheduler keep their types: in particular the local
\* variable `task` of executeNextTask names a task in its second critical section.
THEOREM TypeCorrect == Spec => []TypeOK
<1>1. Init => TypeOK
  <2>1. 0 \in 0 .. Horizon
    BY SchedulerAssumption
  <2>2. QED
    BY <2>1, Zenon DEF Init, TypeOK, PC
<1>2. QED
  BY <1>1, TypeStep, PTL DEF Spec

(***************************************************************************)
(* The inductive invariant.  Lives says where a task can be: a scheduled   *)
(* task is in the heap, revoked, popped or running, and in one place only. *)
(***************************************************************************)
Lives ==
  /\ \A t \in pq : callOf[t] \in Calls /\ t \notin spawned \cup started \cup revoked
  /\ \A t \in spawned : callOf[t] \in Calls /\ t \notin started \cup revoked
  /\ \A t \in started : callOf[t] \in Calls /\ t \notin revoked
  /\ \A t \in revoked : callOf[t] \in Calls
  /\ \A t \in Tasks : callOf[t] # NoCall => t \in pq \cup spawned \cup started \cup revoked
  /\ (pc = "forget") => current \in (spawned \cup started) /\ callOf[current] \in Calls

IInv == Lives /\ MapMatchesHeap /\ SleepsNoLongerThanHead /\ PopsDueTask

\* A cancellation removes from the heap exactly the tasks of its call.
LEMMA CancelTakesAll ==
  ASSUME TypeOK, MapMatchesHeap, ~down, NEW c \in Calls, cancellationMap[c] \subseteq pq
  PROVE  cancellationMap[c] = {t \in pq : callOf[t] = c}
BY DEF TypeOK, MapMatchesHeap

\* Every step keeps each task in exactly one place.
LEMMA LivesStep == TypeOK /\ Lives /\ MapMatchesHeap /\ [Next]_vars => Lives'
<1> SUFFICES ASSUME TypeOK, Lives, MapMatchesHeap, [Next]_vars PROVE Lives'
  OBVIOUS
<1> USE SchedulerAssumption DEF TypeOK, PC, Lives
<1>1. ASSUME NEW t \in Tasks, NEW c \in Calls, NEW d \in 0 .. MaxDelay, ScheduleTask(t, c, d)
      PROVE  Lives'
  BY <1>1 DEF ScheduleTask
<1>2. ASSUME NEW c \in Calls, CancelByCallID(c)
      PROVE  Lives'
  <2>1. CASE CancelTasks(c)
    <3>1. cancellationMap[c] = {t \in pq : callOf[t] = c}
      BY <1>2, <2>1, CancelTakesAll DEF CancelByCallID, CancelTasks
    <3>2. QED
      BY <1>2, <2>1, <3>1 DEF CancelByCallID, CancelTasks
  <2>2. CASE CancelPanics(c)
    BY <1>2, <2>2 DEF CancelByCallID, CancelPanics
  <2>3. QED
    BY <1>2, <2>1, <2>2 DEF CancelByCallID
<1>3. CASE Look
  BY <1>3 DEF Look, Heads
<1>4. CASE WakeReceived
  BY <1>4 DEF WakeReceived
<1>5. CASE TimerFires
  BY <1>5 DEF TimerFires
<1>6. CASE PopHead
  BY <1>6 DEF PopHead, Heads
<1>7. CASE PopPanics
  BY <1>7 DEF PopPanics
<1>8. CASE ForgetTask
  BY <1>8 DEF ForgetTask
<1>9. ASSUME NEW t \in Tasks, ActionStarts(t)
      PROVE  Lives'
  BY <1>9 DEF ActionStarts
<1>10. CASE Tick
  BY <1>10 DEF Tick
<1>11. CASE UNCHANGED vars
  BY <1>11 DEF vars
<1>12. QED
  BY <1>1, <1>2, <1>3, <1>4, <1>5, <1>6, <1>7, <1>8, <1>9, <1>10, <1>11 DEF Next, Run

\* Every step keeps the heap and the cancellation map in agreement.
LEMMA MapStep == TypeOK /\ Lives /\ MapMatchesHeap /\ [Next]_vars => MapMatchesHeap'
<1> SUFFICES ASSUME TypeOK, Lives, MapMatchesHeap, [Next]_vars PROVE MapMatchesHeap'
  OBVIOUS
<1> USE SchedulerAssumption DEF TypeOK, PC, Lives, MapMatchesHeap
<1>1. ASSUME NEW t \in Tasks, NEW c \in Calls, NEW d \in 0 .. MaxDelay, ScheduleTask(t, c, d)
      PROVE  MapMatchesHeap'
  BY <1>1 DEF ScheduleTask
<1>2. ASSUME NEW c \in Calls, CancelByCallID(c)
      PROVE  MapMatchesHeap'
  BY <1>2 DEF CancelByCallID, CancelTasks, CancelPanics
<1>3. CASE Look
  BY <1>3 DEF Look, Heads
<1>4. CASE WakeReceived
  BY <1>4 DEF WakeReceived
<1>5. CASE TimerFires
  BY <1>5 DEF TimerFires
<1>6. CASE PopHead
  BY <1>6 DEF PopHead, Heads
<1>7. CASE PopPanics
  BY <1>7 DEF PopPanics
<1>8. CASE ForgetTask
  BY <1>8 DEF ForgetTask
<1>9. ASSUME NEW t \in Tasks, ActionStarts(t)
      PROVE  MapMatchesHeap'
  BY <1>9 DEF ActionStarts
<1>10. CASE Tick
  BY <1>10 DEF Tick
<1>11. CASE UNCHANGED vars
  BY <1>11 DEF vars
<1>12. QED
  BY <1>1, <1>2, <1>3, <1>4, <1>5, <1>6, <1>7, <1>8, <1>9, <1>10, <1>11 DEF Next, Run

\* Every step keeps run() from sleeping past the head: whoever puts an earlier
\* task into the heap leaves a token, and run() arms the timer for a minimum.
LEMMA SleepStep ==
  TypeOK /\ SleepsNoLongerThanHead /\ [Next]_vars => SleepsNoLongerThanHead'
<1> SUFFICES ASSUME TypeOK, SleepsNoLongerThanHead, [Next]_vars
             PROVE  SleepsNoLongerThanHead'
  OBVIOUS
<1> USE SchedulerAssumption DEF TypeOK, PC, SleepsNoLongerThanHead
<1>1. ASSUME NEW t \in Tasks, NEW c \in Calls, NEW d \in 0 .. MaxDelay, ScheduleTask(t, c, d)
      PROVE  SleepsNoLongerThanHead'
  BY <1>1 DEF ScheduleTask
<1>2. ASSUME NEW c \in Calls, CancelByCallID(c)
      PROVE  SleepsNoLongerThanHead'
  BY <1>2 DEF CancelByCallID, CancelTasks, CancelPanics
<1>3. CASE Look
  BY <1>3 DEF Look, Heads
<1>4. CASE WakeReceived
  BY <1>4 DEF WakeReceived
<1>5. CASE TimerFires
  BY <1>5 DEF TimerFires
<1>6. CASE PopHead
  BY <1>6 DEF PopHead, Heads
<1>7. CASE PopPanics
  BY <1>7 DEF PopPanics
<1>8. CASE ForgetTask
  BY <1>8 DEF ForgetTask
<1>9. ASSUME NEW t \in Tasks, ActionStarts(t)
      PROVE  SleepsNoLongerThanHead'
  BY <1>9 DEF ActionStarts
<1>10. CASE Tick
  BY <1>10 DEF Tick
<1>11. CASE UNCHANGED vars
  BY <1>11 DEF vars
<1>12. QED
  BY <1>1, <1>2, <1>3, <1>4, <1>5, <1>6, <1>7, <1>8, <1>9, <1>10, <1>11 DEF Next, Run

\* Every step keeps a due task in the heap for executeNextTask, or records the
\* cancellation that took it.
LEMMA PopStep == TypeOK /\ Lives /\ PopsDueTask /\ [Next]_vars => PopsDueTask'
<1> SUFFICES ASSUME TypeOK, Lives, PopsDueTask, [Next]_vars PROVE PopsDueTask'
  OBVIOUS
<1> USE SchedulerAssumption DEF TypeOK, PC, PopsDueTask
<1>1. ASSUME NEW t \in Tasks, NEW c \in Calls, NEW d \in 0 .. MaxDelay, ScheduleTask(t, c, d)
      PROVE  PopsDueTask'
  <2>1. t \notin pq
    BY <1>1 DEF ScheduleTask, Lives
  <2>2. \A u \in pq : executeAt'[u] = executeAt[u]
    BY <1>1, <2>1 DEF ScheduleTask
  <2>3. pq' = pq \cup {t} /\ now' = now /\ pc' = pc /\ timerAt' = timerAt /\ raced' = raced
    BY <1>1 DEF ScheduleTask
  <2>4. ASSUME pc' \in {"armed", "pop"}, ~raced'
        PROVE  \E u \in pq' : executeAt'[u] <= DueBy'
    <3>1. PICK u \in pq : executeAt[u] <= DueBy
      BY <2>3, <2>4
    <3>2. QED
      BY <2>2, <2>3, <3>1 DEF DueBy
  <2>5. QED
    BY <2>4
<1>2. ASSUME NEW c \in Calls, CancelByCallID(c)
      PROVE  PopsDueTask'
  <2>1. CASE CancelTasks(c)
    <3>1. pc' = pc /\ raced' = (raced \/ pc \in {"armed", "pop"})
      BY <1>2, <2>1 DEF CancelByCallID, CancelTasks
    <3>2. ~(pc' \in {"armed", "pop"} /\ ~raced')
      BY <3>1, Zenon
    <3>3. QED
      BY <3>2
  <2>2. CASE CancelPanics(c)
    BY <1>2, <2>2 DEF CancelByCallID, CancelPanics, DueBy
  <2>3. QED
    BY <1>2, <2>1, <2>2 DEF CancelByCallID
<1>3. CASE Look
  BY <1>3 DEF Look, Heads, DueBy
<1>4. CASE WakeReceived
  BY <1>4 DEF WakeReceived, DueBy
<1>5. CASE TimerFires
  BY <1>5 DEF TimerFires, DueBy
<1>6. CASE PopHead
  BY <1>6 DEF PopHead, Heads, DueBy
<1>7. CASE PopPanics
  BY <1>7 DEF PopPanics, DueBy
<1>8. CASE ForgetTask
  BY <1>8 DEF ForgetTask, DueBy
<1>9. ASSUME NEW t \in Tasks, ActionStarts(t)
      PROVE  PopsDueTask'
  BY <1>9 DEF ActionStarts, DueBy
<1>10. CASE Tick
  BY <1>10 DEF Tick, DueBy
<1>11. CASE UNCHANGED vars
  BY <1>11 DEF vars, DueBy
<1>12. QED
  BY <1>1, <1>2, <1>3, <1>4, <1>5, <1>6, <1>7, <1>8, <1>9, <1>10, <1>11 DEF Next, Run

\* The invariant is inductive.
LEMMA Inductive ==
  /\ Init => IInv
  /\ TypeOK /\ IInv /\ [Next]_vars => IInv'
<1>1. Init => IInv
  BY SchedulerAssumption
     DEF Init, IInv, Lives, MapMatchesHeap, SleepsNoLongerThanHead, PopsDueTask
<1>2. QED
  BY <1>1, LivesStep, MapStep, SleepStep, PopStep DEF IInv

\* The invariant holds in every reachable state.
LEMMA IInvHolds == Spec => []IInv
BY Inductive, TypeCorrect, PTL DEF Spec

\* The heap and the cancellation map name the same tasks, except for the one
\* between the two critical sections of executeNextTask.
THEOREM MapAgrees == Spec => []MapMatchesHeap
<1>1. IInv => MapMatchesHeap
  BY DEF IInv
<1>2. QED
  BY <1>1, IInvHolds, PTL

\* run() never sleeps past the earliest deadline, for any interleaving of
\* ScheduleTask and CancelByCallID with its unlocked window.
THEOREM NoLostWakeup == Spec => []SleepsNoLongerThanHead
<1>1. IInv => SleepsNoLongerThanHead
  BY DEF IInv
<1>2. QED
  BY <1>1, IInvHolds, PTL

\* A pop finds a due task unless a cancellation raced with the loop.
THEOREM PopFindsDueTask == Spec => []PopsDueTask
<1>1. IInv => PopsDueTask
  BY DEF IInv
<1>2. QED
  BY <1>1, IInvHolds, PTL

\* The race between a cancellation and the loop is the only way a task can leave
\* the heap for execution before its ExecuteAt.
THEOREM OnlyTheRaceIsEarly == Spec => EarlyOnlyIfRaced
<1> DEFINE OnTime == \A t \in spawned' \ spawned : executeAt[t] <= now \/ raced
<1>1. TypeOK /\ IInv /\ [Next]_vars => [OnTime]_vars
  <2> SUFFICES ASSUME TypeOK, IInv, Next PROVE OnTime
    BY DEF OnTime
  <2>1. CASE PopHead
    <3> SUFFICES ASSUME NEW t \in spawned' \ spawned, ~raced PROVE executeAt[t] <= now
      OBVIOUS
    <3>1. t \in Heads /\ pc = "pop"
      BY <2>1 DEF PopHead
    <3>2. PICK u \in pq : executeAt[u] <= now
      BY <3>1 DEF IInv, PopsDueTask, DueBy
    <3>3. executeAt[t] <= executeAt[u]
      BY <3>1 DEF Heads
    <3>4. t \in Tasks /\ executeAt[t] \in Nat /\ executeAt[u] \in Nat /\ now \in Nat
      BY <3>1, SchedulerAssumption DEF TypeOK, Heads
    <3>5. QED
      BY <3>2, <3>3, <3>4
  <2>2. CASE ~PopHead
    <3>1. spawned' \subseteq spawned
      BY <2>2 DEF Next, Run, ScheduleTask, CancelByCallID, Look, WakeReceived, TimerFires,
                  PopPanics, ForgetTask, ActionStarts, Tick
    <3>2. QED
      BY <3>1
  <2>3. QED
    BY <2>1, <2>2
<1>2. QED
  BY <1>1, TypeCorrect, IInvHolds, PTL DEF Spec, EarlyOnlyIfRaced, OnTime

(***************************************************************************)
(* The scheduler implements TimerService.                                  *)
(***************************************************************************)
\* A task is in the heap exactly when the abstract service calls it pending.
LEMMA StatusPending ==
  ASSUME TypeOK, Lives, NEW t \in Tasks
  PROVE  /\ (statusOf[t] = "pending") <=> (t \in pq)
         /\ (statusOf[t] = "released") <=> (t \in spawned)
         /\ (statusOf[t] = "unused") <=> (callOf[t] = NoCall)
BY SchedulerAssumption DEF TypeOK, Lives, statusOf

\* A step that leaves a task's owner and places alone leaves its status alone.
LEMMA StatusFrame ==
  ASSUME UNCHANGED <<callOf, pq, spawned, started, revoked>>
  PROVE  statusOf' = statusOf
BY DEF statusOf

\* Every step of the scheduler is a step of the service or changes nothing of it.
LEMMA ServiceStep == TypeOK /\ IInv /\ [Next]_vars => [Service!Next]_(Service!vars)
<1> SUFFICES ASSUME TypeOK, Lives, MapMatchesHeap, [Next]_vars
             PROVE  [Service!Next]_(Service!vars)
  BY DEF IInv
<1> USE SchedulerAssumption
<1>1. ASSUME NEW t \in Tasks, NEW c \in Calls, NEW d \in 0 .. MaxDelay, ScheduleTask(t, c, d)
      PROVE  Service!Schedule(t, c)
  <2>1. t \notin pq \cup spawned \cup started \cup revoked
    BY <1>1 DEF ScheduleTask, Lives
  <2>2. \A u \in Tasks : statusOf'[u] = IF u = t THEN "pending" ELSE statusOf[u]
    BY <1>1, <2>1 DEF ScheduleTask, statusOf, TypeOK
  <2>3. statusOf' = [statusOf EXCEPT ![t] = "pending"]
    BY <2>2 DEF statusOf
  <2>4. QED
    BY <1>1, <2>3, StatusPending DEF ScheduleTask, Service!Schedule
<1>2. ASSUME NEW c \in Calls, CancelByCallID(c)
      PROVE  Service!Cancel(c) \/ Service!Crash
  <2>1. CASE CancelTasks(c)
    <3>1. cancellationMap[c] = {t \in pq : callOf[t] = c}
      BY <1>2, <2>1, CancelTakesAll DEF CancelByCallID, CancelTasks
    <3>2. Service!Pending(c) = {t \in pq : callOf[t] = c}
      BY StatusPending DEF Service!Pending, TypeOK
    <3>3. \A u \in Tasks : statusOf'[u] = IF u \in Service!Pending(c) THEN "cancelled" ELSE statusOf[u]
      BY <1>2, <2>1, <3>1, <3>2 DEF CancelByCallID, CancelTasks, statusOf, Lives
    <3>4. statusOf' = [u \in Tasks |-> IF u \in Service!Pending(c) THEN "cancelled" ELSE statusOf[u]]
      BY <3>3 DEF statusOf
    <3>5. QED
      BY <1>2, <2>1, <3>4 DEF CancelByCallID, CancelTasks, Service!Cancel
  <2>2. CASE CancelPanics(c)
    BY <1>2, <2>2, StatusFrame DEF CancelByCallID, CancelPanics, Service!Crash
  <2>3. QED
    BY <1>2, <2>1, <2>2 DEF CancelByCallID
<1>3. CASE Look \/ WakeReceived \/ TimerFires \/ ForgetTask \/ Tick
  BY <1>3, StatusFrame DEF Look, WakeReceived, TimerFires, ForgetTask, Tick, Service!vars
<1>4. CASE PopHead
  <2>1. PICK t \in Heads : pq' = pq \ {t} /\ spawned' = spawned \cup {t}
    BY <1>4 DEF PopHead
  <2>2. t \in Tasks /\ t \in pq
    BY <2>1 DEF Heads, TypeOK
  <2>3. \A u \in Tasks : statusOf'[u] = IF u = t THEN "released" ELSE statusOf[u]
    BY <1>4, <2>1, <2>2 DEF PopHead, statusOf, Lives
  <2>4. statusOf' = [statusOf EXCEPT ![t] = "released"]
    BY <2>3 DEF statusOf
  <2>5. Service!Release(t)
    BY <1>4, <2>2, <2>4, StatusPending DEF PopHead, Service!Release
  <2>6. QED
    BY <2>2, <2>5 DEF Service!Next
<1>5. CASE PopPanics
  BY <1>5, StatusFrame DEF PopPanics, Service!Crash, Service!Next
<1>6. ASSUME NEW t \in Tasks, ActionStarts(t)
      PROVE  Service!Run(t)
  <2>1. \A u \in Tasks : statusOf'[u] = IF u = t THEN "ran" ELSE statusOf[u]
    BY <1>6 DEF ActionStarts, statusOf, Lives
  <2>2. statusOf' = [statusOf EXCEPT ![t] = "ran"]
    BY <2>1 DEF statusOf
  <2>3. QED
    BY <1>6, <2>2, StatusPending DEF ActionStarts, Service!Run
<1>7. CASE UNCHANGED vars
  BY <1>7, StatusFrame DEF vars, Service!vars
<1>8. QED
  BY <1>1, <1>2, <1>3, <1>4, <1>5, <1>6, <1>7 DEF Next, Run, Service!Next

\* ScheduleManager keeps the promise the call handlers are written against: a task
\* runs at most once, never after a cancellation that found it in the heap, and a
\* cancellation touches no other call's tasks.
THEOREM SchedulerRefinesTimerService == Spec => ImplementsTimerService
<1>1. Init => Service!Init
  BY DEF Init, Service!Init, statusOf
<1>2. QED
  BY <1>1, ServiceStep, TypeCorrect, IInvHolds, PTL
     DEF Spec, ImplementsTimerService, Service!Spec
=============================================================================

------------------------------ MODULE Scheduler ------------------------------
(***************************************************************************)
(* ScheduleManager (main.schedular.go): one run() goroutine that sleeps    *)
(* until the earliest task is due, and any number of goroutines that call  *)
(* ScheduleTask and CancelByCallID.  The mutex is released between reading *)
(* the head of the heap and popping it, and between popping a task and     *)
(* taking it out of the cancellation map: each critical section is a step. *)
(*                                                                         *)
(* The heap is a set whose minima by ExecuteAt are its possible heads (a   *)
(* binary heap orders equal keys arbitrarily); a task outside the heap has *)
(* index -1 in the code.  The order inside a cancellationMap entry never   *)
(* matters, an empty list is an absent entry.                              *)
(***************************************************************************)
EXTENDS Naturals, FiniteSets

CONSTANTS
  Calls,      \* call identifiers
  Tasks,      \* identities of the *ScheduledTask objects ever allocated
  NoCall,     \* owner of a task that has not been scheduled
  NoTask,     \* value of the local variable `task` outside executeNextTask
  MaxDelay,   \* largest delay handed to ScheduleTask
  Horizon     \* bound of the clock

ASSUME SchedulerAssumption ==
  /\ NoCall \notin Calls
  /\ NoTask \notin Tasks
  /\ MaxDelay \in Nat
  /\ Horizon \in Nat

VARIABLES
  now,              \* the clock
  callOf,           \* task.CallID, NoCall before ScheduleTask
  executeAt,        \* task.ExecuteAt
  pq,               \* tasks in the heap
  cancellationMap,  \* CallID -> its tasks
  wakeUp,           \* the one-slot channel holds a token
  pc,               \* where run() is
  timerAt,          \* when the armed timer fires
  current,          \* the task executeNextTask has popped
  spawned,          \* popped tasks whose goroutine has not begun task.Action()
  started,          \* tasks whose Action has begun
  down,             \* a goroutine panicked: the process is gone
  revoked,          \* history: tasks in the heap when CancelByCallID of their call returned
  raced             \* history: a cancel took tasks out after run() read the head

vars == <<now, callOf, executeAt, pq, cancellationMap, wakeUp, pc, timerAt,
          current, spawned, started, down, revoked, raced>>

PC == {"look", "idle", "armed", "pop", "forget"}

(***************************************************************************)
(* Each object exists once; callOf and the sets below follow it.           *)
(***************************************************************************)
TypeOK ==
  /\ now \in 0 .. Horizon
  /\ callOf \in [Tasks -> Calls \cup {NoCall}]
  /\ executeAt \in [Tasks -> 0 .. Horizon]
  /\ pq \subseteq Tasks
  /\ cancellationMap \in [Calls -> SUBSET Tasks]
  /\ wakeUp \in BOOLEAN
  /\ pc \in PC
  /\ timerAt \in 0 .. Horizon
  /\ current \in Tasks \cup {NoTask}
  /\ (pc = "forget") => current \in Tasks
  /\ spawned \subseteq Tasks
  /\ started \subseteq Tasks
  /\ down \in BOOLEAN
  /\ revoked \subseteq Tasks
  /\ raced \in BOOLEAN

Init ==
  /\ now = 0
  /\ callOf = [t \in Tasks |-> NoCall]
  /\ executeAt = [t \in Tasks |-> 0]
  /\ pq = {}
  /\ cancellationMap = [c \in Calls |-> {}]
  /\ wakeUp = FALSE
  /\ pc = "look"
  /\ timerAt = 0
  /\ current = NoTask
  /\ spawned = {}
  /\ started = {}
  /\ down = FALSE
  /\ revoked = {}
  /\ raced = FALSE

\* The tasks that may be at index 0 of the heap.
Heads == {t \in pq : \A u \in pq : executeAt[t] <= executeAt[u]}

-----------------------------------------------------------------------------
(* Clients: any goroutine of the engine. *)

\* Mutant: ScheduleTask without the non-blocking send to wakeUp.
ScheduleTask_NoWake(t, c, delay) ==
  /\ ~down /\ callOf[t] = NoCall
  /\ now + delay <= Horizon
  /\ callOf' = [callOf EXCEPT ![t] = c]
  /\ executeAt' = [executeAt EXCEPT ![t] = now + delay]
  /\ pq' = pq \cup {t}
  /\ cancellationMap' = [cancellationMap EXCEPT ![c] = @ \cup {t}]
  /\ UNCHANGED <<now, wakeUp, pc, timerAt, current, spawned, started, down, revoked, raced>>

\* A new task goes into the heap and the map, and run() is poked so that it
\* recomputes the earliest deadline.
ScheduleTask(t, c, delay) ==
  /\ ~down /\ callOf[t] = NoCall
  /\ now + delay <= Horizon
  /\ callOf' = [callOf EXCEPT ![t] = c]
  /\ executeAt' = [executeAt EXCEPT ![t] = now + delay]
  /\ pq' = pq \cup {t}
  /\ cancellationMap' = [cancellationMap EXCEPT ![c] = @ \cup {t}]
  /\ wakeUp' = TRUE
  /\ UNCHANGED <<now, pc, timerAt, current, spawned, started, down, revoked, raced>>

\* Mutant: the loop over the call's tasks does not remove them from the heap.
CancelTasks_KeepInHeap(c) ==
  /\ cancellationMap[c] \subseteq pq
  /\ cancellationMap' = [cancellationMap EXCEPT ![c] = {}]
  /\ wakeUp' = TRUE
  /\ revoked' = revoked \cup {t \in pq : callOf[t] = c}
  /\ raced' = (raced \/ pc \in {"armed", "pop"})
  /\ UNCHANGED <<pq, down>>

\* Every task of the call is still in the heap: remove them and the entry.
CancelTasks(c) ==
  /\ cancellationMap[c] \subseteq pq
  /\ pq' = pq \ cancellationMap[c]
  /\ cancellationMap' = [cancellationMap EXCEPT ![c] = {}]
  /\ wakeUp' = TRUE
  /\ revoked' = revoked \cup {t \in pq : callOf[t] = c}
  /\ raced' = (raced \/ pc \in {"armed", "pop"})
  /\ UNCHANGED down

\* A task of the call has been popped and not yet taken out of the map: its
\* index is -1 and heap.Remove indexes outside the slice.
CancelPanics(c) ==
  /\ ~(cancellationMap[c] \subseteq pq)
  /\ down' = TRUE
  /\ UNCHANGED <<pq, cancellationMap, wakeUp, revoked, raced>>

\* A call without an entry is an early return that changes nothing.
CancelByCallID(c) ==
  /\ ~down /\ cancellationMap[c] # {}
  /\ CancelTasks(c) \/ CancelPanics(c)
  /\ UNCHANGED <<now, callOf, executeAt, pc, timerAt, current, spawned, started>>

-----------------------------------------------------------------------------
(* The run() goroutine. *)

\* Mutant: the timer is armed one unit short of the deadline.
Look_ShortTimer ==
  /\ ~down /\ pc = "look"
  /\ \/ /\ pq = {} /\ pc' = "idle" /\ UNCHANGED timerAt
     \/ \E t \in Heads : executeAt[t] <= now /\ pc' = "pop" /\ UNCHANGED timerAt
     \/ \E t \in Heads : executeAt[t] > now /\ pc' = "armed" /\ timerAt' = executeAt[t] - 1
  /\ raced' = FALSE
  /\ UNCHANGED <<now, callOf, executeAt, pq, cancellationMap, wakeUp, current,
                 spawned, started, down, revoked>>

\* The top of the loop, under the lock: nothing to do, a head that is due, or a
\* head to wait for.
Look ==
  /\ ~down /\ pc = "look"
  /\ \/ /\ pq = {} /\ pc' = "idle" /\ UNCHANGED timerAt
     \/ \E t \in Heads : executeAt[t] <= now /\ pc' = "pop" /\ UNCHANGED timerAt
     \/ \E t \in Heads : executeAt[t] > now /\ pc' = "armed" /\ timerAt' = executeAt[t]
  /\ raced' = FALSE
  /\ UNCHANGED <<now, callOf, executeAt, pq, cancellationMap, wakeUp, current,
                 spawned, started, down, revoked>>

\* <-s.wakeUp, either while idle or as an arm of the select.  When the timer has
\* expired too, select takes either arm.
WakeReceived ==
  /\ ~down /\ pc \in {"idle", "armed"}
  /\ wakeUp
  /\ wakeUp' = FALSE
  /\ pc' = "look"
  /\ UNCHANGED <<now, callOf, executeAt, pq, cancellationMap, timerAt, current,
                 spawned, started, down, revoked, raced>>

\* <-timer.C
TimerFires ==
  /\ ~down /\ pc = "armed"
  /\ timerAt <= now
  /\ pc' = "pop"
  /\ UNCHANGED <<now, callOf, executeAt, pq, cancellationMap, wakeUp, timerAt,
                 current, spawned, started, down, revoked, raced>>

\* executeNextTask pops whatever is the head now and spawns its goroutine.
PopHead ==
  /\ ~down /\ pc = "pop"
  /\ \E t \in Heads :
       /\ pq' = pq \ {t}
       /\ current' = t
       /\ spawned' = spawned \cup {t}
  /\ pc' = "forget"
  /\ UNCHANGED <<now, callOf, executeAt, cancellationMap, wakeUp, timerAt,
                 started, down, revoked, raced>>

\* heap.Pop of an empty heap indexes outside the slice.
PopPanics ==
  /\ ~down /\ pc = "pop" /\ pq = {}
  /\ down' = TRUE
  /\ UNCHANGED <<now, callOf, executeAt, pq, cancellationMap, wakeUp, pc, timerAt,
                 current, spawned, started, revoked, raced>>

\* Mutant: the popped task stays in the cancellation map.
ForgetTask_KeepInMap ==
  /\ ~down /\ pc = "forget"
  /\ current' = NoTask
  /\ pc' = "look"
  /\ UNCHANGED <<now, callOf, executeAt, pq, cancellationMap, wakeUp, timerAt,
                 spawned, started, down, revoked, raced>>

\* The second critical section of executeNextTask.
ForgetTask ==
  /\ ~down /\ pc = "forget"
  /\ cancellationMap' = [cancellationMap EXCEPT ![callOf[current]] = @ \ {current}]
  /\ current' = NoTask
  /\ pc' = "look"
  /\ UNCHANGED <<now, callOf, executeAt, pq, wakeUp, timerAt, spawned, started,
                 down, revoked, raced>>

\* The goroutine of a popped task gets to run task.Action().
ActionStarts(t) ==
  /\ ~down /\ t \in spawned
  /\ spawned' = spawned \ {t}
  /\ started' = started \cup {t}
  /\ UNCHANGED <<now, callOf, executeAt, pq, cancellationMap, wakeUp, pc, timerAt,
                 current, down, revoked, raced>>

Tick ==
  /\ ~down /\ now < Horizon
  /\ now' = now + 1
  /\ UNCHANGED <<callOf, executeAt, pq, cancellationMap, wakeUp, pc, timerAt,
                 current, spawned, started, down, revoked, raced>>

Run == Look \/ WakeReceived \/ TimerFires \/ PopHead \/ PopPanics \/ ForgetTask

Next ==
  \/ \E t \in Tasks, c \in Calls, d \in 0 .. MaxDelay : ScheduleTask(t, c, d)
  \/ \E c \in Calls : CancelByCallID(c)
  \/ Run
  \/ \E t \in Tasks : ActionStarts(t)
  \/ Tick

Spec == Init /\ [][Next]_vars

\* run() is a goroutine that never blocks while it can move, a spawned
\* goroutine is eventually scheduled, and time passes.
FairSpec ==
  /\ Spec
  /\ WF_vars(Run)
  /\ \A t \in Tasks : WF_vars(ActionStarts(t))
  /\ WF_vars(Tick)

-----------------------------------------------------------------------------
(* Properties. *)

\* The heap and the cancellation map name the same tasks, each under its own
\* call, except for the one task between the two critical sections of
\* executeNextTask (l.176-188), which only the map still holds.
MapMatchesHeap ==
  ~down => \A t \in Tasks, c \in Calls :
    t \in cancellationMap[c] <=>
      /\ callOf[t] = c
      /\ t \in pq \/ (pc = "forget" /\ t = current)

\* No wakeup is lost: when run() sleeps and no token is in the channel, it does
\* not sleep past any task (l.82, l.103-107 against the non-blocking sends of
\* l.134 and l.161).
SleepsNoLongerThanHead ==
  /\ (pc = "idle" /\ ~wakeUp) => pq = {}
  /\ (pc = "armed" /\ ~wakeUp) => \A t \in pq : timerAt <= executeAt[t]

\* The moment up to which run() has decided to run tasks.
DueBy == IF pc = "pop" THEN now ELSE timerAt

\* When executeNextTask is about to pop, a task is in the heap and due, unless a
\* cancellation came after run() last read the head (l.88-95, l.104).
PopsDueTask ==
  (pc \in {"armed", "pop"} /\ ~raced) =>
    \E t \in pq : executeAt[t] <= DueBy

\* A task leaves the heap for execution before its time only in that race.
EarlyOnlyIfRaced ==
  [][\A t \in spawned' \ spawned : executeAt[t] <= now \/ raced]_vars

\* Every scheduled task is released or cancelled, whatever else is scheduled or
\* cancelled meanwhile, unless the process dies.
EveryTaskResolved ==
  \A t \in Tasks : (t \in pq) ~> (t \in started \/ t \in revoked \/ down)

\* The implementation keeps the promise of TimerService.  A task in none of the
\* sets would be lost, and "lost" is no status of the abstract service.
statusOf == [t \in Tasks |->
  CASE callOf[t] = NoCall -> "unused"
    [] t \in started -> "ran"
    [] t \in spawned -> "released"
    [] t \in revoked -> "cancelled"
    [] t \in pq -> "pending"
    [] OTHER -> "lost"]

Service == INSTANCE TimerService WITH status <- statusOf, owner <- callOf, dead <- down
ImplementsTimerService == Service!Spec

-----------------------------------------------------------------------------
(* What a comment of main.schedular.go says and the code does not do. *)

\* l.150 "Bu CallID'ye ait her isi Heap'ten kaldir" (remove every job of this
\* CallID from the heap): every task of a map entry can be removed from the heap.
CancelNeverPanics ==
  [][\A c \in Calls : CancelByCallID(c) => ~down']_vars
=============================================================================

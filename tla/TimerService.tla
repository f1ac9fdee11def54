---------------------------- MODULE TimerService ----------------------------
(***************************************************************************)
(* What the rest of the program may rely on when it hands a delayed action *)
(* to ScheduleManager: a task is pending until it is either released to a  *)
(* goroutine of its own, once and irrevocably, or cancelled together with  *)
(* every other pending task of its call.  Nothing is said of WHEN a task   *)
(* is released: the implementation may release one early (see Scheduler).  *)
(* The process may also die, because the implementation can panic.         *)
(***************************************************************************)
CONSTANTS Calls, Tasks, NoCall

VARIABLES
  status,   \* life of each task
  owner,    \* the call a task was scheduled for
  dead      \* the process has panicked

vars == <<status, owner, dead>>

Init ==
  /\ status = [t \in Tasks |-> "unused"]
  /\ owner = [t \in Tasks |-> NoCall]
  /\ dead = FALSE

Pending(c) == {t \in Tasks : status[t] = "pending" /\ owner[t] = c}

Schedule(t, c) ==
  /\ ~dead /\ status[t] = "unused"
  /\ status' = [status EXCEPT ![t] = "pending"]
  /\ owner' = [owner EXCEPT ![t] = c]
  /\ UNCHANGED dead

Cancel(c) ==
  /\ ~dead
  /\ status' = [t \in Tasks |-> IF t \in Pending(c) THEN "cancelled" ELSE status[t]]
  /\ UNCHANGED <<owner, dead>>

Release(t) ==
  /\ ~dead /\ status[t] = "pending"
  /\ status' = [status EXCEPT ![t] = "released"]
  /\ UNCHANGED <<owner, dead>>

Run(t) ==
  /\ ~dead /\ status[t] = "released"
  /\ status' = [status EXCEPT ![t] = "ran"]
  /\ UNCHANGED <<owner, dead>>

Crash ==
  /\ ~dead
  /\ dead' = TRUE
  /\ UNCHANGED <<status, owner>>

Next ==
  \/ \E t \in Tasks, c \in Calls : Schedule(t, c)
  \/ \E c \in Calls : Cancel(c)
  \/ \E t \in Tasks : Release(t) \/ Run(t)
  \/ Crash

Spec == Init /\ [][Next]_vars
=============================================================================

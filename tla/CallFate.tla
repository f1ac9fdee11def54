------------------------------ MODULE CallFate ------------------------------
(***************************************************************************)
(* What the handlers of a call promise about its course, and what its      *)
(* announcements rely on: no agent answers before the queue timeout was    *)
(* decided on, an answer leaves none pending, a timeout is never renewed;  *)
(* a call ends once, after its caller has left, and that it has left is    *)
(* passed over only if the call had not begun to wait.  That a call which  *)
(* has ended stays so is not promised.                                     *)
(***************************************************************************)

CONSTANT Calls

VARIABLES
  phase,    \* "New", "InQueue", "Bridged" or "Terminated"
  timer,    \* the queue timeout: "undecided", "pending" or "off"
  caller    \* "here"; "left", until the end of the call is handled; then "over"

vars == <<phase, timer, caller>>

Init ==
  /\ phase = [c \in Calls |-> "New"]
  /\ timer = [c \in Calls |-> "undecided"]
  /\ caller = [c \in Calls |-> "here"]

\* The call begins to wait, or waits again.
Wait(c) ==
  /\ phase' = [phase EXCEPT ![c] = "InQueue"]
  /\ UNCHANGED <<timer, caller>>

\* The timeout is scheduled, for a call that waits or has ended.
Schedule(c) ==
  /\ timer[c] = "undecided" /\ phase[c] \in {"InQueue", "Terminated"}
  /\ timer' = [timer EXCEPT ![c] = "pending"]
  /\ UNCHANGED <<phase, caller>>

\* There is to be no timeout.
Waive(c) ==
  /\ timer[c] = "undecided"
  /\ timer' = [timer EXCEPT ![c] = "off"]
  /\ UNCHANGED <<phase, caller>>

\* The timeout has fired or is cancelled.
Spend(c) ==
  /\ timer[c] = "pending"
  /\ timer' = [timer EXCEPT ![c] = "off"]
  /\ UNCHANGED <<phase, caller>>

\* An agent answers: the timeout that is pending is cancelled.
Answer(c) ==
  /\ timer[c] # "undecided" /\ phase[c] # "New"
  /\ phase' = [phase EXCEPT ![c] = "Bridged"]
  /\ timer' = [timer EXCEPT ![c] = "off"]
  /\ UNCHANGED caller

Leave(c) ==
  /\ caller[c] = "here"
  /\ caller' = [caller EXCEPT ![c] = "left"]
  /\ UNCHANGED <<phase, timer>>

\* The call is refused before anything else is done for it.
Refuse(c) ==
  /\ caller[c] = "here" /\ phase[c] = "New" /\ timer[c] = "undecided"
  /\ caller' = [caller EXCEPT ![c] = "left"]
  /\ timer' = [timer EXCEPT ![c] = "off"]
  /\ UNCHANGED phase

End(c) ==
  /\ caller[c] = "left" /\ phase[c] # "Terminated"
  /\ phase' = [phase EXCEPT ![c] = "Terminated"]
  /\ caller' = [caller EXCEPT ![c] = "over"]
  /\ UNCHANGED timer

\* That the caller has left goes unnoticed.
PassOver(c) ==
  /\ caller[c] = "left" /\ phase[c] = "New"
  /\ caller' = [caller EXCEPT ![c] = "over"]
  /\ UNCHANGED <<phase, timer>>

Next ==
  \E c \in Calls :
    \/ Wait(c) \/ Schedule(c) \/ Waive(c) \/ Spend(c) \/ Answer(c)
    \/ Leave(c) \/ Refuse(c) \/ End(c) \/ PassOver(c)

Spec == Init /\ [][Next]_vars
=============================================================================

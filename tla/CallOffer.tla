------------------------------ MODULE CallOffer ------------------------------
(***************************************************************************)
(* What the distribution of a call is promised, whatever handlers, agents  *)
(* and retries are at work: a call is in one attempt at a time and in no   *)
(* more than MaxAttempts; an attempt rings its agent once, at most, and    *)
(* connects no agent that has not answered; a ringing attempt is not given *)
(* up; and an agent is accepted while the call is connected to it.         *)
(***************************************************************************)
EXTENDS Naturals

CONSTANTS Calls, Users, NoUser, NoLeg, MaxAttempts

Legs == Calls \X Users \X (1 .. MaxAttempts)

VARIABLES
  attempt,     \* the leg of the attempt a call is in, or NoLeg
  tries,       \* attempts of a call so far
  connected,   \* the call is connected to the agent of its attempt
  phone,       \* legs: "none", "dialing", "stasis" once answered, "gone"
  accepted     \* the agent AID believes the call to talk to, or NoUser

vars == <<attempt, tries, connected, phone, accepted>>

Init ==
  /\ attempt = [c \in Calls |-> NoLeg]
  /\ tries = [c \in Calls |-> 0]
  /\ connected = [c \in Calls |-> FALSE]
  /\ phone = [l \in Legs |-> "none"]
  /\ accepted = [c \in Calls |-> NoUser]

Take(c, u) ==
  /\ attempt[c] = NoLeg /\ tries[c] < MaxAttempts
  /\ attempt' = [attempt EXCEPT ![c] = <<c, u, tries[c] + 1>>]
  /\ tries' = [tries EXCEPT ![c] = @ + 1]
  /\ UNCHANGED <<connected, phone, accepted>>

Ring(c) ==
  /\ attempt[c] # NoLeg /\ phone[attempt[c]] = "none" /\ ~connected[c]
  /\ phone' = [phone EXCEPT ![attempt[c]] = "dialing"]
  /\ UNCHANGED <<attempt, tries, connected, accepted>>

Answer(c) ==
  /\ attempt[c] # NoLeg /\ phone[attempt[c]] = "dialing"
  /\ phone' = [phone EXCEPT ![attempt[c]] = "stasis"]
  /\ UNCHANGED <<attempt, tries, connected, accepted>>

\* Legs end: their agents hang up or do not answer, or the engine hangs them up.
Leave(H) ==
  /\ \A l \in H : phone[l] # "none"
  /\ phone' = [l \in Legs |-> IF l \in H THEN "gone" ELSE phone[l]]
  /\ UNCHANGED <<attempt, tries, connected, accepted>>

\* The agent has answered, and may have left since.
Connect(c) ==
  /\ attempt[c] # NoLeg /\ phone[attempt[c]] \in {"stasis", "gone"}
  /\ connected' = [connected EXCEPT ![c] = TRUE]
  /\ UNCHANGED <<attempt, tries, phone, accepted>>

GiveUp(c) ==
  /\ attempt[c] # NoLeg /\ phone[attempt[c]] # "dialing"
  /\ attempt' = [attempt EXCEPT ![c] = NoLeg]
  /\ connected' = [connected EXCEPT ![c] = FALSE]
  /\ UNCHANGED <<tries, phone, accepted>>

Accept(c) ==
  /\ connected[c]
  /\ accepted' = [accepted EXCEPT ![c] = attempt[c][2]]
  /\ UNCHANGED <<attempt, tries, connected, phone>>

\* Any other message about the call.
Retract(c) ==
  /\ accepted' = [accepted EXCEPT ![c] = NoUser]
  /\ UNCHANGED <<attempt, tries, connected, phone>>

Next ==
  \/ \E c \in Calls, u \in Users : Take(c, u)
  \/ \E c \in Calls : Ring(c) \/ Answer(c) \/ Connect(c) \/ GiveUp(c) \/ Accept(c) \/ Retract(c)
  \/ \E H \in SUBSET Legs : Leave(H)

Spec == Init /\ [][Next]_vars
=============================================================================

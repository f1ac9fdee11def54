----------------------------- MODULE AnnounceTurn -----------------------------
(***************************************************************************)
(* What the announcements of one call are promised: the caller hears at    *)
(* most one of them at a time, and those that must wait get their turn in  *)
(* the order in which they asked, unless the line is dismissed.  Nothing   *)
(* is promised about a turn that is never given back.                      *)
(***************************************************************************)
EXTENDS Sequences

CONSTANTS Kinds, NoKind

VARIABLES
  turn,      \* the announcement whose turn it is, or NoKind
  line,      \* announcements that wait, first come first served
  speaking   \* announcements that have a session

vars == <<turn, line, speaking>>

Init == turn = NoKind /\ line = <<>> /\ speaking = {}

\* Nobody has the turn: an announcement takes it and opens its session.
Take(k) ==
  /\ turn = NoKind
  /\ turn' = k /\ speaking' = {k}
  /\ UNCHANGED line

\* An announcement that was given the turn opens its session.
Open(k) ==
  /\ turn = k /\ speaking = {}
  /\ speaking' = {k}
  /\ UNCHANGED <<turn, line>>

Wait(k) ==
  /\ turn # NoKind
  /\ line' = Append(line, k)
  /\ UNCHANGED <<turn, speaking>>

\* The session is over and the turn goes to the first in line, if any.
Pass ==
  /\ speaking # {}
  /\ speaking' = {}
  /\ \/ line = <<>> /\ turn' = NoKind /\ UNCHANGED line
     \/ line # <<>> /\ turn' = Head(line) /\ line' = Tail(line)

\* The session is over and the turn is not given back.
Keep ==
  /\ speaking # {}
  /\ speaking' = {}
  /\ line' \in {line, <<>>}
  /\ UNCHANGED turn

\* The line is dismissed: an agent answered, or the call ends.
Dismiss == line' = <<>> /\ UNCHANGED <<turn, speaking>>

Next == (\E k \in Kinds : Take(k) \/ Open(k) \/ Wait(k)) \/ Pass \/ Keep \/ Dismiss

Spec == Init /\ [][Next]_vars
=============================================================================

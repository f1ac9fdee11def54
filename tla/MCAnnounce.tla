------------------------------ MODULE MCAnnounce ------------------------------
(* Instance of Announce for TLC.  The queue starts with every announcement and *)
(* is edited to have none, to schedule one that is not played, or to be gone.  *)
EXTENDS Announce, FiniteSets

Full == [known |-> TRUE, scheduled |-> Kinds, played |-> Kinds \ {"Action"}]
Edited == {[Full EXCEPT !.scheduled = {}, !.played = {}],
           [Full EXCEPT !.played = @ \ {"Position"}],
           [known |-> FALSE, scheduled |-> {}, played |-> {}]}
FewQueues == queue = Full \/ (edits > 0 /\ queue \in Edited)

\* How many of the music and hangup requests stay failed at once.
CONSTANT MaxFailures
FewFailures == Cardinality(failed) <= MaxFailures

\* How many goroutines of the call are under way at once, a failed request counting as
\* one; states beyond it are checked but not continued.
MaxGoroutines == 4
FewGoroutines ==
  LET one(busy) == IF busy THEN 1 ELSE 0 IN
  Cardinality({k \in Kinds : pc[k] \notin {"none", "task"}}) + mohs.request + mohs.flag
  + one(timeout \notin {"none", "armed"}) + one(ending \notin {"no", "gone"})
  + Cardinality(failed) <= MaxGoroutines
=============================================================================

--------------------------- MODULE MCCallLifecycle ---------------------------
(* Small instances of CallLifecycle for TLC, and the parts of them that the     *)
(* runs keep to: a state outside is checked but not continued.                  *)
EXTENDS CallLifecycle, TLC

\* The agents of a distribution message are interchangeable.
AnyUser == Permutations(Users)

\* Every request is carried out, or its failure is repaired.
NothingFails == failed = {} /\ kept = {}

\* Few goroutines are in flight at once, fewer when a request has failed.
MaxInFlight == IF NothingFails THEN 3 ELSE 2
FewInFlight == Cardinality(gos) <= MaxInFlight

\* No caller goes away, but those whose queue was not found.
CallersStay == \A c \in Calls : clientCh[c] = "gone" => Failed("queue", c)

\* Few requests fail without being repaired.
MaxFailures == 1
FewFailures == Cardinality(failed) + Cardinality(kept) <= MaxFailures

\* The last distribution message of a call is handled when nothing else is.
LastOfferAlone == \A c \in Calls : offers[c] = MaxOffers => Cardinality(gos) <= 1
=============================================================================

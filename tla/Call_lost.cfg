\* Originate may fail after the channel was made; the caller stays while the queue is
\* found; an offer beyond the limit.
CONSTANTS
  Calls = {c1}
  Users = {u1}
  NoUser = NoUser
  NoLeg = NoLeg
  MaxAttempts = 2
  MaxOffers = 3
  TimedCalls = {c1}
  OriginateMayBeLost = TRUE
SPECIFICATION Spec
CONSTRAINTS FewFailures FewInFlight CallersStay LastOfferAlone
INVARIANTS TypeOK TimeoutArmed TalkingNotTimed
\* Calls end, and nothing happens after that.
CHECK_DEADLOCK FALSE

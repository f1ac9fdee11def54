\* A queue timeout, one attempt, one distribution message.
CONSTANTS
  Calls = {c1}
  Users = {u1}
  NoUser = NoUser
  NoLeg = NoLeg
  MaxAttempts = 1
  MaxOffers = 1
  TimedCalls = {c1}
  OriginateMayBeLost = FALSE
SPECIFICATION FairSpec
CONSTRAINTS FewFailures
PROPERTIES EndedCallRemoved ReasonEndsCall ImplementsCallFate
\* Calls end, and nothing happens after that.
CHECK_DEADLOCK FALSE

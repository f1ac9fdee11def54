\* A repeated offer while an attempt is torn down.
CONSTANTS
  Calls = {c1}
  Users = {u1}
  NoUser = NoUser
  NoLeg = NoLeg
  MaxAttempts = 2
  MaxOffers = 2
  TimedCalls = {}
  OriginateMayBeLost = FALSE
SPECIFICATION Spec
CONSTRAINTS FewInFlight NothingFails
INVARIANTS BridgedCallIsBridged
\* Calls end, and nothing happens after that.
CHECK_DEADLOCK FALSE

\* Originate may fail after the channel was made, with the three attempts of the code;
\* the caller stays.
CONSTANTS
  Calls = {c1}
  Users = {u1}
  NoUser = NoUser
  NoLeg = NoLeg
  MaxAttempts = 3
  MaxOffers = 3
  TimedCalls = {}
  OriginateMayBeLost = TRUE
SPECIFICATION Spec
CONSTRAINTS FewInFlight CallersStay NothingFails
PROPERTIES IgnoredWhileExecuting
\* Calls end, and nothing happens after that.
CHECK_DEADLOCK FALSE

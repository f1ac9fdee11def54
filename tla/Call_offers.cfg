\* One call, two agents, two attempts, two distribution messages.
CONSTANTS
  Calls = {c1}
  Users = {u1, u2}
  NoUser = NoUser
  NoLeg = NoLeg
  MaxAttempts = 2
  MaxOffers = 2
  TimedCalls = {}
  OriginateMayBeLost = FALSE
SYMMETRY AnyUser
SPECIFICATION Spec
CONSTRAINTS FewFailures FewInFlight
INVARIANTS OfferNotStuck AidKnowsWaitingCall CallerNotAlone NoOrphanBridge OneLiveLeg
PROPERTIES BridgedLegKept AcceptedNamesAgent RemovedWithRow ImplementsCallOffer
\* Calls end, and nothing happens after that.
CHECK_DEADLOCK FALSE

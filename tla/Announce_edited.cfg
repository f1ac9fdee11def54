\* Two kinds, and the queue is edited or removed while the call waits.
\* The requests that fail in Announce_turns concern the music only, and do not here.
CONSTANTS
  Kinds = {"Periodic", "Position"}
  NoKind = "Empty"
  MaxPlays = 1
  Timed = FALSE
  MaxJoins = 1
  MaxReturns = 1
  MaxEdits = 1
  MaxFailures = 0
SPECIFICATION FairSpec
CONSTRAINTS FewQueues FewFailures
INVARIANTS OneChainPerKind TurnNotForgotten
PROPERTIES EveryWaiterServed
\* The call ends, and a panic stops the process.
CHECK_DEADLOCK FALSE

\* Three kinds of announcement in a timed queue whose definition does not change.
CONSTANTS
  Kinds = {"Periodic", "Position", "Client"}
  NoKind = "Empty"
  MaxPlays = 1
  Timed = TRUE
  MaxJoins = 1
  MaxReturns = 1
  MaxEdits = 0
  MaxFailures = 1
SPECIFICATION Spec
CONSTRAINTS FewQueues FewGoroutines FewFailures
INVARIANTS TypeOK QuietWhileTalking NoMusicWhileTalking MusicWhileWaiting
PROPERTIES ImplementsAnnounceTurn ImplementsCallFate
\* The call ends, and a panic stops the process.
CHECK_DEADLOCK FALSE

\* Two applications, two messages and the start of the program.
CONSTANTS
  Apps = {inbound, outbound}
  MaxMessages = 2
  None = None
SPECIFICATION FairSpec
INVARIANTS RegisteredIsHeard OneListener
PROPERTIES LastMessageWins
\* Messages are bounded, and a panic stops the process.
CHECK_DEADLOCK FALSE

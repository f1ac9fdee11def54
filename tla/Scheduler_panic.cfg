\* A cancellation between the two critical sections of executeNextTask.
CONSTANTS
  Calls = {c1}
  Tasks = {t1}
  NoCall = NoCall
  NoTask = NoTask
  MaxDelay = 1
  Horizon = 2
SPECIFICATION Spec
PROPERTIES CancelNeverPanics
\* The clock stops at Horizon, a panic stops the process, and run() may idle forever.
CHECK_DEADLOCK FALSE

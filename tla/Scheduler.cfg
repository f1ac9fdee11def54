\* Two calls, three tasks, delays of 0..2, a clock of two ticks.
CONSTANTS
  Calls = {c1, c2}
  Tasks = {t1, t2, t3}
  NoCall = NoCall
  NoTask = NoTask
  MaxDelay = 2
  Horizon = 2
SPECIFICATION FairSpec
INVARIANTS MapMatchesHeap SleepsNoLongerThanHead PopsDueTask
PROPERTIES EarlyOnlyIfRaced ImplementsTimerService EveryTaskResolved
\* The clock stops at Horizon, a panic stops the process, and run() may idle forever.
CHECK_DEADLOCK FALSE

\* One queue, two readers, three changes.
CONSTANTS
  Queues = {sales}
  Readers = {r1, r2}
  MaxChanges = 3
  MaxLookups = 3
  Absent = Absent
SPECIFICATION FairSpec
INVARIANTS StaleIsRepaired
PROPERTIES NoGoingBack CacheSettles
\* Changes and lookups are bounded.
CHECK_DEADLOCK FALSE

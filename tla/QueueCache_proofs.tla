--------------------------- MODULE QueueCache_proofs ---------------------------
(***************************************************************************)
(* Theorems about QueueCache: types, stale entries are repaired, and nobody *)
(* is handed an older definition than the one before him.                  *)
(***************************************************************************)
EXTENDS QueueCache, TLAPS

-----------------------------------------------------------------------------
(* Types *)

\* Every step keeps the types.
LEMMA TypeStep == TypeOK /\ [Next]_vars => TypeOK'
<1>1. SUFFICES ASSUME TypeOK, [Next]_vars PROVE TypeOK'
  OBVIOUS
<1> USE QueueCacheAssumption DEF TypeOK, Loads, Versions, Changes
<1>2. ASSUME NEW q \in Queues, Change(q) PROVE TypeOK'
  <2>1. changes + 1 \in Changes /\ changes' = changes + 1
    BY <1>1, <1>2 DEF Change
  <2>2. row' \in [Queues -> Versions \cup {Absent}]
    BY <1>1, <1>2, <2>1 DEF Change
  <2>3. pc' \in [Loads -> {"idle", "read", "store", "remove"}] /\ name' \in [Loads -> Queues]
    BY <1>1, <1>2, <2>1 DEF Change, Goto
  <2>4. missed' \subseteq Queues
    BY <1>1, <1>2 DEF Change
  <2> QED
    BY <1>1, <1>2, <2>1, <2>2, <2>3, <2>4 DEF Change
<1>3. ASSUME NEW r \in Readers, NEW q \in Queues, Hit(r, q) PROVE TypeOK'
  BY <1>1, <1>3 DEF Hit, HandOut, history
<1>4. ASSUME NEW r \in Readers, NEW q \in Queues, Miss(r, q) PROVE TypeOK'
  BY <1>1, <1>4 DEF Miss, Goto, history
<1>5. ASSUME NEW l \in Loads, Read(l) PROVE TypeOK'
  BY <1>1, <1>5 DEF Read, Goto, history
<1>6. ASSUME NEW l \in Loads, NoRow(l) PROVE TypeOK'
  BY <1>1, <1>6 DEF NoRow, Goto, history
<1>7. ASSUME NEW l \in Loads, QueryFails(l) PROVE TypeOK'
  BY <1>1, <1>7 DEF QueryFails, Goto
<1>8. ASSUME NEW l \in Loads, Store(l) PROVE TypeOK'
  BY <1>1, <1>8 DEF Store, Goto, Write, HandOut, Underway
<1>9. ASSUME NEW l \in Loads, RemoveQueue(l) PROVE TypeOK'
  BY <1>1, <1>9 DEF RemoveQueue, Goto, Write, Underway
<1>10. CASE UNCHANGED vars
  BY <1>1, <1>10 DEF vars
<1> QED
  BY <1>1, <1>2, <1>3, <1>4, <1>5, <1>6, <1>7, <1>8, <1>9, <1>10 DEF Next, Work

\* The variables keep their types (all of main.manager.queueu.go).
THEOREM CacheTypeCorrect == Spec => []TypeOK
<1>1. Init => TypeOK
  BY QueueCacheAssumption DEF Init, TypeOK, Loads, Versions, Changes
<1> QED
  BY <1>1, TypeStep, PTL DEF Spec

-----------------------------------------------------------------------------
(* Stale entries *)

\* The messages that have not been sent have no goroutine.
UnsentIdle == \A i \in Changes : i > changes => pc[i] = "idle"

\* q is stale, or will be when a load that nobody has overtaken yet writes it.
Outdated(q) ==
  \/ cache[q] \notin {Absent, row[q]}
  \/ \E l \in Underway(q) : l \notin late /\ got[l] # row[q]

OutdatedIsRepaired == \A q \in Queues : Outdated(q) => Repair(q) \/ q \in overtaken \cup missed

RepairInv == TypeOK /\ UnsentIdle /\ OutdatedIsRepaired

\* A message is sent once, and only then has a goroutine.
LEMMA UnsentIdleStep == ASSUME TypeOK, UnsentIdle, [Next]_vars PROVE UnsentIdle'
<1> USE QueueCacheAssumption DEF TypeOK, UnsentIdle, Loads, Changes
<1>1. ASSUME NEW q \in Queues, Change(q) PROVE UnsentIdle'
  BY <1>1 DEF Change, Goto
<1>2. ASSUME NEW r \in Readers, NEW q \in Queues, Hit(r, q) \/ Miss(r, q) PROVE UnsentIdle'
  BY <1>2 DEF Hit, Miss, Goto
<1>3. ASSUME NEW l \in Loads, Work(l) PROVE UnsentIdle'
  BY <1>3 DEF Work, Read, NoRow, QueryFails, Store, RemoveQueue, Goto
<1>4. CASE UNCHANGED vars
  BY <1>4 DEF vars
<1> QED
  BY <1>1, <1>2, <1>3, <1>4 DEF Next

\* The change of a row sends a message that repairs it, or misses one.
LEMMA ChangeRepairs ==
  ASSUME RepairInv, NEW p \in Queues, Change(p), NEW q \in Queues, Outdated(q)'
  PROVE  Repair(q)' \/ q \in (overtaken \cup missed)'
<1> DEFINE i == changes + 1
<1> USE QueueCacheAssumption DEF RepairInv, TypeOK, Loads, Versions
<1>1. i \in Changes /\ pc[i] = "idle" /\ name'[i] = p
  BY DEF Change, Changes, UnsentIdle
<1>2. CASE q = p
  <2>1. CASE p \in missed'
    BY <1>2, <2>1
  <2>2. CASE p \notin missed'
    <3>1. pc'[i] = "remove" \/ (pc'[i] = "read" /\ row'[p] = i)
      BY <1>1, <2>2 DEF Change, Goto
    <3>2. i # Absent
      BY <1>1 DEF Changes
    <3> QED
      BY <1>1, <1>2, <3>1, <3>2 DEF Repair
  <2> QED
    BY <2>1, <2>2
<1>3. CASE q # p
  <2>1. row'[q] = row[q] /\ cache' = cache /\ got' = got /\ late' = late
    BY <1>3 DEF Change
  <2>2. \A l \in Loads : l # i => pc'[l] = pc[l] /\ name'[l] = name[l]
    BY DEF Change, Goto
  <2>3. Outdated(q)
    BY <1>1, <1>3, <2>1, <2>2 DEF Outdated, Underway
  <2>4. Repair(q) \/ q \in overtaken \cup missed
    BY <2>3 DEF OutdatedIsRepaired
  <2>5. Repair(q) => Repair(q)'
    BY <1>1, <2>1, <2>2 DEF Repair
  <2> QED
    BY <2>4, <2>5 DEF Change
<1> QED
  BY <1>2, <1>3

\* A lookup neither outdates a queue nor repairs it.
LEMMA LookupRepairs ==
  ASSUME RepairInv, NEW r \in Readers, NEW p \in Queues, Hit(r, p) \/ Miss(r, p),
         NEW q \in Queues, Outdated(q)'
  PROVE  Repair(q)' \/ q \in (overtaken \cup missed)'
<1> USE QueueCacheAssumption DEF RepairInv, TypeOK, Loads
<1>1. row' = row /\ cache' = cache /\ got' = got /\ late' = late
  BY DEF Hit, Miss, history
<1>2. \A l \in Loads : l # r => pc'[l] = pc[l] /\ name'[l] = name[l]
  BY DEF Hit, Miss, Goto
<1>3. pc'[r] # "store"
  BY DEF Hit, Miss, Goto
<1>4. Outdated(q)
  BY <1>1, <1>2, <1>3 DEF Outdated, Underway
<1>5. Repair(q) \/ q \in overtaken \cup missed
  BY <1>4 DEF OutdatedIsRepaired
<1>6. Repair(q) => Repair(q)'
  BY <1>1, <1>2 DEF Repair
<1> QED
  BY <1>5, <1>6 DEF Hit, Miss, history

\* A load that reads the row is up to date when it has, and one that reads nothing
\* was no repair, or is a message that is missed.
LEMMA ReadRepairs ==
  ASSUME RepairInv, NEW l \in Loads, Read(l) \/ NoRow(l) \/ QueryFails(l),
         NEW q \in Queues, Outdated(q)'
  PROVE  Repair(q)' \/ q \in (overtaken \cup missed)'
<1> USE QueueCacheAssumption DEF RepairInv, TypeOK, Loads
<1>1. row' = row /\ cache' = cache /\ late' = late /\ name' = name /\ overtaken' = overtaken
  BY DEF Read, NoRow, QueryFails, history
<1>2. \A k \in Loads : k # l => pc'[k] = pc[k] /\ got'[k] = got[k]
  BY DEF Read, NoRow, QueryFails, Goto
<1>3. pc[l] = "read" /\ (pc'[l] = "store" => got'[l] = row[name[l]])
  BY DEF Read, NoRow, QueryFails, Goto
<1>4. Outdated(q)
  BY <1>1, <1>2, <1>3 DEF Outdated, Underway
<1>5. Repair(q) \/ q \in overtaken \cup missed
  BY <1>4 DEF OutdatedIsRepaired
<1>6. missed \subseteq missed'
  BY DEF Read, NoRow, QueryFails, history
<1>7. ASSUME Repair(q) PROVE Repair(q)' \/ q \in missed'
  <2>1. PICK i \in Changes :
          /\ name[i] = q
          /\ pc[i] = "remove" \/ (pc[i] = "read" /\ row[q] # Absent) \/ (pc[i] = "store" /\ got[i] = row[q])
    BY <1>7 DEF Repair
  <2>2. CASE i # l
    BY <1>1, <1>2, <2>1, <2>2 DEF Repair
  <2>3. CASE i = l /\ Read(l)
    <3>1. pc'[i] = "store" /\ got'[i] = row[q]
      BY <2>1, <2>3 DEF Read, Goto
    <3> QED
      BY <1>1, <2>1, <3>1 DEF Repair
  <2>4. CASE i = l /\ QueryFails(l)
    BY <2>1, <2>4 DEF QueryFails
  <2>5. CASE i = l /\ NoRow(l)
    BY <1>3, <2>1, <2>5 DEF NoRow
  <2> QED
    BY <2>2, <2>3, <2>4, <2>5
<1> QED
  BY <1>1, <1>5, <1>6, <1>7

\* A write of the cache overtakes the loads that are under way; what it leaves outdated
\* was outdated before, and is repaired by somebody else.
LEMMA WriteRepairs ==
  ASSUME RepairInv, NEW l \in Loads, Store(l) \/ RemoveQueue(l),
         NEW q \in Queues, Outdated(q)'
  PROVE  Repair(q)' \/ q \in (overtaken \cup missed)'
<1> USE QueueCacheAssumption DEF RepairInv, TypeOK, Loads
<1>1. row' = row /\ got' = got /\ name' = name /\ missed' = missed /\ overtaken \subseteq overtaken'
  BY DEF Store, RemoveQueue
<1>2. \A k \in Loads : k # l => pc'[k] = pc[k]
  BY DEF Store, RemoveQueue, Goto
<1>3. pc'[l] = "idle" /\ pc[l] \in {"store", "remove"}
  BY DEF Store, RemoveQueue, Goto
<1>4. late' = (late \cup Underway(name[l])) \ {l}
  BY DEF Store, RemoveQueue, Write
<1>5. \A p \in Queues : p # name[l] => cache'[p] = cache[p]
  BY DEF Store, RemoveQueue, Write
<1>6. CASE q # name[l]
  <2>1. Outdated(q)
    BY <1>1, <1>2, <1>3, <1>4, <1>5, <1>6 DEF Outdated, Underway
  <2>2. Repair(q) \/ q \in overtaken \cup missed
    BY <2>1 DEF OutdatedIsRepaired
  <2>3. Repair(q) => Repair(q)'
    BY <1>1, <1>2, <1>6 DEF Repair
  <2> QED
    BY <1>1, <2>2, <2>3
<1>7. CASE q = name[l]
  <2>1. \A k \in Underway(q)' : k \in late'
    BY <1>1, <1>2, <1>3, <1>4, <1>7 DEF Underway
  <2>2. cache'[q] \notin {Absent, row[q]}
    BY <1>1, <2>1 DEF Outdated
  <2>3. Store(l) /\ got[l] # row[q]
    BY <1>7, <2>2 DEF Store, RemoveQueue, Write
  <2>4. CASE l \in late
    BY <1>7, <2>3, <2>4 DEF Store
  <2>5. CASE l \notin late
    <3>1. Outdated(q)
      BY <1>7, <2>3, <2>5 DEF Outdated, Underway, Store
    <3>2. Repair(q) \/ q \in overtaken \cup missed
      BY <3>1 DEF OutdatedIsRepaired
    <3>3. Repair(q) => Repair(q)'
      BY <1>1, <1>2, <2>3 DEF Repair, Store
    <3> QED
      BY <1>1, <3>2, <3>3
  <2> QED
    BY <2>4, <2>5
<1> QED
  BY <1>6, <1>7

\* A stale entry is about to be repaired, or a load was overtaken or a message missed
\* (LoadQueue, RemoveQueue and handleQueueEntityMessage in any order).
THEOREM StaleEntriesAreRepaired == Spec => []StaleIsRepaired
<1>1. Init => RepairInv
  <2> SUFFICES ASSUME Init PROVE RepairInv
    OBVIOUS
  <2>1. TypeOK
    BY QueueCacheAssumption DEF Init, TypeOK, Loads, Versions, Changes
  <2>2. UnsentIdle
    BY DEF Init, UnsentIdle, Loads
  <2>3. \A q \in Queues : ~Outdated(q)
    BY DEF Init, Outdated, Underway
  <2> QED
    BY <2>1, <2>2, <2>3 DEF RepairInv, OutdatedIsRepaired
<1>2. RepairInv /\ [Next]_vars => RepairInv'
  <2> SUFFICES ASSUME RepairInv, [Next]_vars PROVE RepairInv'
    OBVIOUS
  <2>1. TypeOK' /\ UnsentIdle'
    BY TypeStep, UnsentIdleStep DEF RepairInv
  <2>2. ASSUME NEW q \in Queues, Outdated(q)' PROVE Repair(q)' \/ q \in (overtaken \cup missed)'
    <3>1. CASE \E p \in Queues : Change(p)
      BY <2>2, <3>1, ChangeRepairs
    <3>2. CASE \E p \in Queues, r \in Readers : Hit(r, p) \/ Miss(r, p)
      BY <2>2, <3>2, LookupRepairs
    <3>3. CASE \E l \in Loads : Work(l)
      BY <2>2, <3>3, ReadRepairs, WriteRepairs DEF Work
    <3>4. CASE UNCHANGED vars
      <4>1. Outdated(q) /\ (Repair(q) <=> Repair(q)') /\ overtaken' = overtaken /\ missed' = missed
        BY <2>2, <3>4 DEF vars, Outdated, Underway, Repair
      <4> QED
        BY <4>1 DEF RepairInv, OutdatedIsRepaired
    <3> QED
      BY <3>1, <3>2, <3>3, <3>4 DEF Next
  <2> QED
    BY <2>1, <2>2 DEF RepairInv, OutdatedIsRepaired
<1>3. RepairInv => StaleIsRepaired
  BY DEF RepairInv, OutdatedIsRepaired, StaleIsRepaired, Outdated
<1> QED
  BY <1>1, <1>2, <1>3, PTL DEF Spec

-----------------------------------------------------------------------------
(* The order of definitions *)

\* No definition is newer than the last change, nor than the row while there is one.
NotNewer(v, q) == v <= changes /\ (row[q] # Absent => v <= row[q])

Bounded(q) ==
  /\ row[q] # Absent => row[q] <= changes
  /\ NotNewer(handed[q], q)
  /\ cache[q] # Absent => NotNewer(cache[q], q)
  /\ \A l \in Underway(q) : NotNewer(got[l], q)

\* Unless a load was overtaken: handed <= cache <= what a load will write.
Ordered(q) ==
  /\ cache[q] # Absent => handed[q] <= cache[q]
  /\ \A l \in Underway(q) \ late :
       handed[q] <= got[l] /\ (cache[q] # Absent => cache[q] <= got[l])

OrderInv ==
  /\ TypeOK /\ UnsentIdle
  /\ \A q \in Queues : Bounded(q) /\ (q \in overtaken \/ Ordered(q))

\* What happens to other queues, or to no queue, keeps the order of q.
LEMMA OrderKept ==
  ASSUME TypeOK, TypeOK', NEW q \in Queues, Bounded(q), q \in overtaken \/ Ordered(q),
         row'[q] = row[q], cache'[q] = cache[q], handed'[q] = handed[q],
         changes <= changes', overtaken \subseteq overtaken',
         Underway(q)' \subseteq Underway(q), \A l \in Underway(q)' : got'[l] = got[l],
         (Underway(q) \cap late) \cap Underway(q)' \subseteq late'
  PROVE  Bounded(q)' /\ (q \in overtaken' \/ Ordered(q)')
<1> USE QueueCacheAssumption DEF TypeOK, Versions
<1>1. \A v \in Versions : NotNewer(v, q) => NotNewer(v, q)'
  BY DEF NotNewer
<1>2. row'[q] # Absent => row'[q] <= changes'
  BY DEF Bounded
<1>3. NotNewer(handed[q], q)' /\ (cache'[q] # Absent => NotNewer(cache[q], q)')
  BY <1>1 DEF Bounded, NotNewer
<1>4. ASSUME NEW l \in Underway(q)' PROVE NotNewer(got[l], q)'
  <2>1. l \in Underway(q) /\ got'[l] = got[l] /\ got[l] \in Versions
    BY DEF Underway
  <2> QED
    BY <1>1, <2>1 DEF Bounded, NotNewer
<1>5. Bounded(q)'
  BY <1>2, <1>3, <1>4 DEF Bounded
<1>6. Ordered(q) => Ordered(q)'
  BY DEF Ordered
<1> QED
  BY <1>5, <1>6

\* A change numbers the row above everything else.
LEMMA ChangeOrder ==
  ASSUME OrderInv, TypeOK', NEW p \in Queues, Change(p), NEW q \in Queues
  PROVE  Bounded(q)' /\ (q \in overtaken' \/ Ordered(q)') /\ handed'[q] = handed[q]
<1> DEFINE i == changes + 1
<1> USE QueueCacheAssumption DEF TypeOK, Loads, Versions
<1>1. i \in Changes /\ pc[i] = "idle" /\ pc'[i] # "store" /\ changes' = i
  BY DEF Change, Changes, UnsentIdle, Goto, OrderInv
<1>2. \A l \in Loads : l # i => pc'[l] = pc[l] /\ name'[l] = name[l]
  BY DEF Change, Goto, OrderInv
<1>3. Underway(q)' = Underway(q)
  BY <1>1, <1>2 DEF Underway
<1>4. cache' = cache /\ got' = got /\ handed' = handed /\ late' = late /\ overtaken' = overtaken
  BY DEF Change
<1>5. Bounded(q) /\ (q \in overtaken \/ Ordered(q))
  BY DEF OrderInv
<1>6. row'[q] \in {row[q], i, Absent}
  BY DEF Change, OrderInv
<1>7. changes \in Nat /\ i \in Nat /\ changes <= i
  BY DEF OrderInv
<1>8. CASE row'[q] = row[q]
  BY <1>1, <1>3, <1>4, <1>5, <1>7, <1>8, OrderKept DEF OrderInv
<1>9. CASE row'[q] \in {i, Absent}
  <2>1. \A v \in Versions : NotNewer(v, q) => NotNewer(v, q)'
    BY <1>1, <1>7, <1>9 DEF NotNewer
  <2>2. Bounded(q)'
    BY <1>1, <1>3, <1>4, <1>5, <1>7, <1>9, <2>1 DEF Bounded, Underway, OrderInv
  <2>3. Ordered(q) => Ordered(q)'
    BY <1>3, <1>4 DEF Ordered
  <2> QED
    BY <1>4, <1>5, <2>2, <2>3
<1> QED
  BY <1>4, <1>6, <1>8, <1>9

\* A lookup hands out the entry, which is at least what was handed out before.
LEMMA LookupOrder ==
  ASSUME OrderInv, TypeOK', NEW r \in Readers, NEW p \in Queues, Hit(r, p) \/ Miss(r, p),
         NEW q \in Queues
  PROVE  /\ Bounded(q)' /\ (q \in overtaken' \/ Ordered(q)')
         /\ handed'[q] >= handed[q] \/ q \in overtaken'
<1> USE QueueCacheAssumption DEF TypeOK, Loads, Versions
<1>1. /\ row' = row /\ cache' = cache /\ got' = got /\ late' = late
      /\ overtaken' = overtaken /\ changes' = changes
  BY DEF Hit, Miss, history
<1>2. Underway(q)' = Underway(q)
  <2>1. \A l \in Loads : l # r => pc'[l] = pc[l] /\ name'[l] = name[l]
    BY DEF Hit, Miss, Goto, OrderInv
  <2>2. pc[r] = "idle" /\ pc'[r] # "store"
    BY DEF Hit, Miss, Goto, OrderInv
  <2> QED
    BY <2>1, <2>2 DEF Underway
<1>3. Bounded(q) /\ (q \in overtaken \/ Ordered(q))
  BY DEF OrderInv
<1>4. CASE handed'[q] = handed[q]
  BY <1>1, <1>2, <1>3, <1>4, OrderKept DEF OrderInv
<1>5. CASE handed'[q] = cache[q] /\ cache[q] # Absent
  <2>1. Bounded(q)'
    BY <1>1, <1>2, <1>3, <1>5 DEF Bounded, NotNewer
  <2>2. Ordered(q) => Ordered(q)' /\ handed'[q] >= handed[q]
    BY <1>1, <1>2, <1>5 DEF Ordered, OrderInv
  <2> QED
    BY <1>1, <1>3, <2>1, <2>2
<1>6. (handed'[q] = handed[q]) \/ (handed'[q] = cache[q] /\ cache[q] # Absent)
  BY DEF Hit, Miss, HandOut, OrderInv
<1> QED
  BY <1>4, <1>5, <1>6 DEF OrderInv

\* What a load reads is at least what is cached and what was handed out.
LEMMA ReadOrder ==
  ASSUME OrderInv, TypeOK', NEW l \in Loads, Read(l) \/ NoRow(l) \/ QueryFails(l), NEW q \in Queues
  PROVE  Bounded(q)' /\ (q \in overtaken' \/ Ordered(q)') /\ handed'[q] = handed[q]
<1> USE QueueCacheAssumption DEF TypeOK, Loads, Versions
<1>1. /\ row' = row /\ cache' = cache /\ handed' = handed /\ late' = late /\ name' = name
      /\ overtaken' = overtaken /\ changes' = changes
  BY DEF Read, NoRow, QueryFails, history
<1>2. \A k \in Loads : k # l => pc'[k] = pc[k] /\ got'[k] = got[k]
  BY DEF Read, NoRow, QueryFails, Goto, OrderInv
<1>3. pc[l] = "read" /\ (pc'[l] = "store" => row[name[l]] # Absent /\ got'[l] = row[name[l]])
  BY DEF Read, NoRow, QueryFails, Goto, OrderInv
<1>4. Bounded(q) /\ (q \in overtaken \/ Ordered(q))
  BY DEF OrderInv
<1>5. Underway(q)' \subseteq Underway(q) \cup {l}
  BY <1>1, <1>2 DEF Underway
<1>6. \A k \in Underway(q)' : k # l => k \in Underway(q) /\ got'[k] = got[k]
  BY <1>2, <1>5 DEF Underway
<1>7. l \in Underway(q)' => row[q] # Absent /\ got'[l] = row[q]
  BY <1>1, <1>3 DEF Underway
<1>8. row[q] # Absent => /\ row[q] <= changes /\ handed[q] <= row[q]
                         /\ cache[q] # Absent => cache[q] <= row[q]
  BY <1>4 DEF Bounded, NotNewer
<1>9. \A v : NotNewer(v, q)' <=> NotNewer(v, q)
  BY <1>1 DEF NotNewer
<1>10. row[q] # Absent => NotNewer(row[q], q)
  BY <1>8 DEF NotNewer, OrderInv
<1>11. Bounded(q)'
  BY <1>1, <1>4, <1>6, <1>7, <1>9, <1>10 DEF Bounded
<1>12. Ordered(q) => Ordered(q)'
  BY <1>1, <1>6, <1>7, <1>8 DEF Ordered
<1> QED
  BY <1>1, <1>4, <1>11, <1>12

\* A write overtakes the loads that are under way; if it was not overtaken itself, it
\* writes at least what is cached and what was handed out.
LEMMA WriteOrder ==
  ASSUME OrderInv, TypeOK', NEW l \in Loads, Store(l) \/ RemoveQueue(l), NEW q \in Queues
  PROVE  /\ Bounded(q)' /\ (q \in overtaken' \/ Ordered(q)')
         /\ handed'[q] >= handed[q] \/ q \in overtaken'
<1> USE QueueCacheAssumption DEF TypeOK, Loads, Versions
<1>1. row' = row /\ got' = got /\ name' = name /\ overtaken \subseteq overtaken' /\ changes' = changes
  BY DEF Store, RemoveQueue
<1>2. \A k \in Loads : k # l => pc'[k] = pc[k]
  BY DEF Store, RemoveQueue, Goto, OrderInv
<1>3. pc'[l] = "idle" /\ pc[l] \in {"store", "remove"}
  BY DEF Store, RemoveQueue, Goto, OrderInv
<1>4. late' = (late \cup Underway(name[l])) \ {l}
  BY DEF Store, RemoveQueue, Write
<1>5. Bounded(q) /\ (q \in overtaken \/ Ordered(q))
  BY DEF OrderInv
<1>6. Underway(q)' = Underway(q) \ {l}
  BY <1>1, <1>2, <1>3 DEF Underway
<1>7. CASE q # name[l]
  <2>1. cache'[q] = cache[q] /\ handed'[q] = handed[q]
    BY <1>7 DEF Store, RemoveQueue, Write, HandOut, OrderInv
  <2>2. (Underway(q) \cap late) \cap Underway(q)' \subseteq late'
    BY <1>4, <1>6
  <2>3. Bounded(q)' /\ (q \in overtaken' \/ Ordered(q)')
    BY <1>1, <1>5, <1>6, <2>1, <2>2, OrderKept DEF OrderInv
  <2> QED
    BY <2>1, <2>3 DEF OrderInv
<1>8. CASE q = name[l]
  <2>1. Underway(q)' \subseteq late'
    BY <1>4, <1>6, <1>8
  <2>2. \A v : NotNewer(v, q)' <=> NotNewer(v, q)
    BY <1>1 DEF NotNewer
  <2>3. CASE RemoveQueue(l)
    <3>1. cache'[q] = Absent /\ handed' = handed /\ overtaken' = overtaken
      BY <1>8, <2>3 DEF RemoveQueue, Write, OrderInv
    <3>2. Bounded(q)'
      BY <1>1, <1>5, <1>6, <2>2, <3>1 DEF Bounded
    <3>3. Ordered(q)'
      BY <2>1, <3>1 DEF Ordered
    <3> QED
      BY <3>1, <3>2, <3>3 DEF OrderInv
  <2>4. CASE Store(l)
    <3>1. l \in Underway(q) /\ NotNewer(got[l], q)
      BY <1>5, <1>8, <2>4 DEF Store, Underway, Bounded
    <3>2. cache'[q] = got[l] /\ handed'[q] \in {got[l], handed[q]}
      BY <1>8, <2>4 DEF Store, Write, HandOut, OrderInv
    <3>3. Bounded(q)'
      BY <1>1, <1>5, <1>6, <2>2, <3>1, <3>2 DEF Bounded
    <3>4. CASE l \in late
      BY <1>8, <2>4, <3>3, <3>4 DEF Store
    <3>5. CASE l \notin late
      <4>1. q \in overtaken \/ handed[q] <= got[l]
        BY <1>5, <3>1, <3>5 DEF Ordered
      <4>2. q \in overtaken \/ Ordered(q)'
        BY <2>1, <3>2, <4>1 DEF Ordered, OrderInv
      <4> QED
        BY <1>1, <3>2, <3>3, <4>1, <4>2 DEF OrderInv
    <3> QED
      BY <3>4, <3>5
  <2> QED
    BY <2>3, <2>4
<1> QED
  BY <1>7, <1>8

\* Nobody is handed an older definition than the one before him, unless a load of the
\* queue was overtaken (GetQueueByName and LoadQueue).
THEOREM DefinitionsDoNotGoBack == Spec => NoGoingBack
<1> DEFINE Steady == \A q \in Queues : handed'[q] >= handed[q] \/ q \in overtaken'
<1>1. Init => OrderInv
  <2> SUFFICES ASSUME Init PROVE OrderInv
    OBVIOUS
  <2>1. TypeOK
    BY QueueCacheAssumption DEF Init, TypeOK, Loads, Versions, Changes
  <2>2. UnsentIdle
    BY DEF Init, UnsentIdle, Loads
  <2>3. ASSUME NEW q \in Queues PROVE Bounded(q) /\ Ordered(q)
    <3>1. Underway(q) = {} /\ cache[q] = Absent /\ handed[q] = 0 /\ changes = 0 /\ row[q] \in {0, Absent}
      BY DEF Init, Underway
    <3> QED
      BY <3>1 DEF Bounded, NotNewer, Ordered
  <2> QED
    BY <2>1, <2>2, <2>3 DEF OrderInv
<1>2. OrderInv /\ [Next]_vars => OrderInv' /\ Steady
  <2> SUFFICES ASSUME OrderInv, [Next]_vars PROVE OrderInv' /\ Steady
    OBVIOUS
  <2>1. TypeOK' /\ UnsentIdle'
    BY TypeStep, UnsentIdleStep DEF OrderInv
  <2>2. \A q \in Queues : handed[q] \in Nat /\ changes \in Nat
    BY DEF OrderInv, TypeOK, Versions
  <2>3. ASSUME NEW q \in Queues
        PROVE  /\ Bounded(q)' /\ (q \in overtaken' \/ Ordered(q)')
               /\ handed'[q] >= handed[q] \/ q \in overtaken'
    <3>1. CASE \E p \in Queues : Change(p)
      BY <2>1, <2>2, <3>1, ChangeOrder
    <3>2. CASE \E p \in Queues, r \in Readers : Hit(r, p) \/ Miss(r, p)
      BY <2>1, <3>2, LookupOrder
    <3>3. CASE \E l \in Loads : Work(l)
      BY <2>1, <2>2, <3>3, ReadOrder, WriteOrder DEF Work
    <3>4. CASE UNCHANGED vars
      <4>1. Underway(q)' = Underway(q)
        BY <3>4 DEF vars, Underway
      <4>2. Bounded(q)' /\ (q \in overtaken' \/ Ordered(q)')
        BY <2>1, <2>2, <3>4, <4>1, OrderKept DEF vars, OrderInv
      <4> QED
        BY <2>2, <3>4, <4>2 DEF vars
    <3> QED
      BY <3>1, <3>2, <3>3, <3>4 DEF Next
  <2> QED
    BY <2>1, <2>3 DEF OrderInv
<1>3. [Next]_vars /\ Steady => [Steady]_vars
  OBVIOUS
<1> QED
  BY <1>1, <1>2, <1>3, PTL DEF Spec, NoGoingBack
================================================================================

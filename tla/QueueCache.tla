------------------------------ MODULE QueueCache ------------------------------
(***************************************************************************)
(* The cache of queue definitions (main.manager.queueu.go), read by every  *)
(* handler of a call and refreshed by the entity messages of the web       *)
(* application (main.handlers.redis.go:247-315).                           *)
(*                                                                         *)
(* LoadQueue reads the database without a lock and writes the cache later. *)
(* Readers are goroutines that look a queue up; every message is handled   *)
(* by a goroutine of its own, so messages are not handled in order.  A     *)
(* definition is the number of the change that made it; Deleted and        *)
(* Enabled are columns that the code copies and never looks at, so marking *)
(* a queue as deleted is a change like others with another message.        *)
(***************************************************************************)
EXTENDS Naturals

CONSTANTS
  Queues,      \* names of queues
  Readers,     \* goroutines that look up queues
  MaxChanges,  \* bound: changes of the database
  MaxLookups,  \* bound: lookups
  Absent       \* no row, no cache entry

Changes == 1 .. MaxChanges
Loads == Readers \cup Changes
Versions == 0 .. MaxChanges

ASSUME QueueCacheAssumption ==
  /\ MaxChanges \in Nat /\ MaxLookups \in Nat
  /\ Absent \notin Versions
  /\ Readers \cap Changes = {}

VARIABLES
  row,        \* dbo.wbp_queue
  cache,      \* QueueCacheManager.Cache
  changes,    \* how many changes there have been
  pc,         \* goroutines: the readers and the handlers of the messages
  name,       \* the queue a goroutine works on
  got,        \* what its LoadQueue has read
  handed,     \* the definition last handed to a reader
  lookups,    \* bound
  late,       \* history: loads that read before the latest write of the cache entry
  overtaken,  \* history: queues with a late load that has been written or handed out
  missed      \* history: queues with a change whose message was lost or failed to load

vars == <<row, cache, changes, pc, name, got, handed, lookups, late, overtaken, missed>>
history == <<late, overtaken, missed>>

TypeOK ==
  /\ row \in [Queues -> Versions \cup {Absent}]
  /\ cache \in [Queues -> Versions \cup {Absent}]
  /\ changes \in 0 .. MaxChanges
  /\ pc \in [Loads -> {"idle", "read", "store", "remove"}]
  /\ name \in [Loads -> Queues]
  /\ got \in [Loads -> Versions]
  /\ handed \in [Queues -> Versions]
  /\ lookups \in 0 .. MaxLookups
  /\ late \subseteq Loads /\ overtaken \subseteq Queues /\ missed \subseteq Queues

Init ==
  /\ row \in [Queues -> {0, Absent}]
  /\ cache = [q \in Queues |-> Absent]
  /\ changes = 0
  /\ pc = [l \in Loads |-> "idle"]
  /\ name \in {[l \in Loads |-> q] : q \in Queues}
  /\ got = [l \in Loads |-> 0]
  /\ handed = [q \in Queues |-> 0]
  /\ lookups = 0
  /\ late = {} /\ overtaken = {} /\ missed = {}

-----------------------------------------------------------------------------
Goto(l, place) == pc' = [pc EXCEPT ![l] = place]

\* Loads of a queue that have read the database and not written the cache yet.
Underway(q) == {l \in Loads : name[l] = q /\ pc[l] = "store"}

\* l replaces or deletes the cache entry of its queue, under the lock.
Write(l, definition) ==
  /\ cache' = [cache EXCEPT ![name[l]] = definition]
  /\ late' = (late \cup Underway(name[l])) \ {l}

HandOut(q, definition) == handed' = [handed EXCEPT ![q] = definition]

-----------------------------------------------------------------------------
(* The web application: it changes a row and publishes a message about it. *)

\* The new row, if any, and what its message makes the handler do: Add and Edit load
\* the queue, Delete removes it, whether the row is gone or only marked as deleted.
Change(q) ==
  LET i == changes + 1 IN
  /\ changes < MaxChanges
  /\ changes' = i
  /\ name' = [name EXCEPT ![i] = q]
  /\ \/ row' = [row EXCEPT ![q] = i] /\ Goto(i, "read") /\ UNCHANGED missed
     \/ row[q] # Absent /\ row' \in {[row EXCEPT ![q] = v] : v \in {i, Absent}}
        /\ Goto(i, "remove") /\ UNCHANGED missed
     \/ row' \in {[row EXCEPT ![q] = v] : v \in {i, Absent}}  \* the message is lost
        /\ missed' = missed \cup {q} /\ UNCHANGED pc
  /\ UNCHANGED <<cache, got, handed, lookups, late, overtaken>>

-----------------------------------------------------------------------------
(* GetQueueByName *)

Hit(r, q) ==
  /\ pc[r] = "idle" /\ lookups < MaxLookups /\ cache[q] # Absent
  /\ lookups' = lookups + 1
  /\ HandOut(q, cache[q])
  /\ UNCHANGED <<row, cache, changes, pc, name, got, history>>

Miss(r, q) ==
  /\ pc[r] = "idle" /\ lookups < MaxLookups /\ cache[q] = Absent
  /\ lookups' = lookups + 1
  /\ name' = [name EXCEPT ![r] = q]
  /\ Goto(r, "read")
  /\ UNCHANGED <<row, cache, changes, got, handed, history>>

(* LoadQueue: for a reader, and for the handler of Add and Edit. *)

\* Mutant: the definition is returned before it is in the cache.
Read_HandsOut(l) ==
  /\ pc[l] = "read" /\ row[name[l]] # Absent
  /\ got' = [got EXCEPT ![l] = row[name[l]]]
  /\ Goto(l, "store")
  /\ IF l \in Readers THEN HandOut(name[l], row[name[l]]) ELSE UNCHANGED handed
  /\ UNCHANGED <<row, cache, changes, name, lookups, history>>

Read(l) ==
  /\ pc[l] = "read" /\ row[name[l]] # Absent
  /\ got' = [got EXCEPT ![l] = row[name[l]]]
  /\ Goto(l, "store")
  /\ UNCHANGED <<row, cache, changes, name, handed, lookups, history>>

\* No row, or the query fails: an error, and the cache stays as it is.
NoRow(l) ==
  /\ pc[l] = "read" /\ row[name[l]] = Absent
  /\ Goto(l, "idle")
  /\ UNCHANGED <<row, cache, changes, name, got, handed, lookups, history>>

QueryFails(l) ==
  /\ pc[l] = "read"
  /\ Goto(l, "idle")
  /\ missed' = IF l \in Changes THEN missed \cup {name[l]} ELSE missed
  /\ UNCHANGED <<row, cache, changes, name, got, handed, lookups, late, overtaken>>

\* Mutant: an entry that is there is not replaced.
Store_KeepsEntry(l) ==
  LET q == name[l] IN
  /\ pc[l] = "store"
  /\ Goto(l, "idle")
  /\ Write(l, IF cache[q] = Absent THEN got[l] ELSE cache[q])
  /\ IF l \in Readers THEN HandOut(q, got[l]) ELSE UNCHANGED handed
  /\ overtaken' = IF l \in late THEN overtaken \cup {q} ELSE overtaken
  /\ UNCHANGED <<row, changes, name, got, lookups, missed>>

\* The cache entry is replaced, whatever it is now, and a reader gets what was read.
Store(l) ==
  LET q == name[l] IN
  /\ pc[l] = "store"
  /\ Goto(l, "idle")
  /\ Write(l, got[l])
  /\ IF l \in Readers THEN HandOut(q, got[l]) ELSE UNCHANGED handed
  /\ overtaken' = IF l \in late THEN overtaken \cup {q} ELSE overtaken
  /\ UNCHANGED <<row, changes, name, got, lookups, missed>>

\* Mutant: Delete is handled like Edit, and finds no row.
RemoveQueue_Reloads(l) ==
  /\ pc[l] = "remove"
  /\ Goto(l, IF row[name[l]] = Absent THEN "idle" ELSE "read")
  /\ UNCHANGED <<row, cache, changes, name, got, handed, lookups, history>>

\* RemoveQueue
RemoveQueue(l) ==
  /\ pc[l] = "remove"
  /\ Goto(l, "idle")
  /\ Write(l, Absent)
  /\ UNCHANGED <<row, changes, name, got, handed, lookups, overtaken, missed>>

-----------------------------------------------------------------------------
Work(l) == Read(l) \/ NoRow(l) \/ QueryFails(l) \/ Store(l) \/ RemoveQueue(l)

Next ==
  \/ \E q \in Queues : Change(q) \/ \E r \in Readers : Hit(r, q) \/ Miss(r, q)
  \/ \E l \in Loads : Work(l)

Spec == Init /\ [][Next]_vars

\* Goroutines are scheduled and queries return.
FairSpec == Spec /\ \A l \in Loads : WF_vars(Work(l))

-----------------------------------------------------------------------------
(* Properties *)

\* A message is still to be handled that will bring the entry of q up to date.
Repair(q) ==
  \E i \in Changes :
    /\ name[i] = q
    /\ pc[i] = "remove" \/ (pc[i] = "read" /\ row[q] # Absent) \/ (pc[i] = "store" /\ got[i] = row[q])

\* An entry that differs from the database, also when the row is gone, is about to be
\* repaired, unless a load was overtaken by another write of the entry, or a message
\* was lost or its query failed.
StaleIsRepaired ==
  \A q \in Queues :
    cache[q] \notin {Absent, row[q]} => Repair(q) \/ q \in overtaken \cup missed

\* Who looks a queue up is never handed an older definition than the one before him,
\* unless a load of the queue was overtaken.
NoGoingBack == [][\A q \in Queues : handed'[q] >= handed[q] \/ q \in overtaken']_vars

\* When the database does not change any more, the cache agrees with it for good.
CacheSettles ==
  <>[](\A q \in Queues : cache[q] \in {Absent, row[q]} \/ q \in overtaken \cup missed)
=============================================================================

-------------------------- MODULE AriConnections_proofs --------------------------
(***************************************************************************)
(* Theorems about AriConnections for any number of applications and        *)
(* messages: types, a registered client is listened to however handlers    *)
(* overlap, and nobody else listens as long as they do not.                *)
(***************************************************************************)
EXTENDS AriConnections, TLAPS

\* A run is a pair of a handler and an application.
LEMMA RunPair ==
  ASSUME NEW r \in Runs
  PROVE  r[1] \in Handlers /\ r[2] \in Apps /\ r = <<r[1], r[2]>>
BY DEF Runs

-----------------------------------------------------------------------------
(* Types *)

\* Every step of a handler keeps the types.
LEMMA HandleTypes == ASSUME TypeOK, NEW m \in Handlers, Handle(m) PROVE TypeOK'
<1> USE DEF TypeOK
<1>1. CASE Look(m)
  BY <1>1 DEF Look, Goto
<1>2. CASE Load(m)
  BY <1>2 DEF Load, Goto
<1>3. CASE LoadFails(m)
  BY <1>3 DEF LoadFails, Goto
<1>4. ASSUME NEW a \in Apps, CloseClient(m, a) PROVE TypeOK'
  BY <1>4 DEF CloseClient, AfterClose, Goto
<1>5. CASE RemoveClient(m)
  BY <1>5 DEF RemoveClient, AfterClose, Goto
<1>6. CASE AddMediaServer(m)
  BY <1>6 DEF AddMediaServer, Goto
<1>7. CASE Start(m)
  BY <1>7 DEF Start, Goto
<1>8. CASE StartPanics(m)
  BY <1>8 DEF StartPanics, handling
<1> QED
  BY <1>1, <1>2, <1>3, <1>4, <1>5, <1>6, <1>7, <1>8 DEF Handle

\* Every step keeps the types.
LEMMA TypeStep == ASSUME TypeOK, [Next]_vars PROVE TypeOK'
<1>1. ASSUME NEW m \in Messages, Publish(m) PROVE TypeOK'
  <2>1. m \in Handlers /\ last' \in {"Edit", "Delete"} /\ row' \in {"media", "bare", "gone"}
    BY <1>1, AriAssumption DEF Publish, Messages, Handlers, TypeOK
  <2>2. kind' \in [Handlers -> {"Edit", "Delete"}] /\ overlapped' \in BOOLEAN
    BY <1>1, <2>1 DEF Publish, TypeOK, InFlight
  <2> QED
    BY <1>1, <2>1, <2>2 DEF Publish, Goto, TypeOK
<1>2. ASSUME NEW r \in Runs, Listen(r) PROVE TypeOK'
  <2>1. CASE Connect(r)
    <3>1. clients' = [clients EXCEPT ![r[2]] = r] /\ run' = [run EXCEPT ![r] = "listens"]
      BY <2>1 DEF Connect
    <3>2. \A a \in Apps : clients'[a] # None => clients'[a][2] = a
      BY <3>1, RunPair DEF TypeOK
    <3> QED
      BY <2>1, <3>1, <3>2, RunPair DEF Connect, handling, TypeOK
  <2>2. CASE ConnectFails(r) \/ ListenerEnds(r)
    BY <2>2 DEF ConnectFails, ListenerEnds, handling, TypeOK
  <2> QED
    BY <1>2, <2>1, <2>2 DEF Listen
<1>3. CASE Panic
  BY <1>3 DEF Panic, handling, TypeOK
<1>4. CASE UNCHANGED vars
  BY <1>4 DEF vars, handling, TypeOK
<1> QED
  BY <1>1, <1>2, <1>3, <1>4, HandleTypes DEF Next

\* The start of the program has the types.
LEMMA InitTypes == Init => TypeOK
<1> SUFFICES ASSUME Init PROVE TypeOK
  OBVIOUS
<1>1. (CHOOSE a \in Apps : TRUE) \in Apps
  BY AriAssumption
<1>2. last \in {"Edit", "Delete"}
  BY DEF Init
<1> QED
  BY <1>1, <1>2 DEF Init, TypeOK

\* The variables keep their types (main.manager.ari.go, main.manager.server.go).
THEOREM AriTypeCorrect == Spec => []TypeOK
BY InitTypes, TypeStep, PTL DEF Spec

-----------------------------------------------------------------------------
(* RegisteredIsHeard *)

\* A handler that has not ended has started no run, and who is registered has connected.
RunsBegun ==
  /\ \A m \in Handlers : pc[m] # "done" => \A a \in Apps : run[<<m, a>>] = "none"
  /\ \A a \in Apps : clients[a] # None => run[clients[a]] \notin {"none", "connecting"}

HeardInv == TypeOK /\ RunsBegun /\ RegisteredIsHeard

\* A handler starts its runs in its last step, and never registers any.
LEMMA HandleBegun == ASSUME HeardInv, TypeOK', NEW m \in Handlers, Handle(m) PROVE RunsBegun'
<1> USE DEF HeardInv, TypeOK, RunsBegun
<1>1. CASE Look(m) \/ Load(m) \/ LoadFails(m) \/ RemoveClient(m) \/ AddMediaServer(m) \/ StartPanics(m)
  <2>1. run' = run /\ \A a \in Apps : clients'[a] \in {clients[a], None}
    BY <1>1 DEF Look, Load, LoadFails, RemoveClient, AddMediaServer, StartPanics
  <2>2. \A n \in Handlers : pc'[n] # "done" => pc[n] # "done"
    BY <1>1 DEF Look, Load, LoadFails, RemoveClient, AddMediaServer, StartPanics, Goto, handling
  <2> QED
    BY <2>1, <2>2
<1>2. ASSUME NEW a \in Apps, CloseClient(m, a) PROVE RunsBegun'
  <2>1. clients' = clients /\ \A n \in Handlers : pc'[n] # "done" => pc[n] # "done"
    BY <1>2 DEF CloseClient, Goto
  <2>2. \A r \in Runs : run'[r] = run[r] \/ (run[r] = "listens" /\ run'[r] = "told")
    BY <1>2 DEF CloseClient
  <2>3. \A n \in Handlers, b \in Apps : <<n, b>> \in Runs
    BY DEF Runs
  <2> QED
    BY <2>1, <2>2, <2>3
<1>3. CASE Start(m)
  <2>1. clients' = clients /\ pc' = [pc EXCEPT ![m] = "done"] /\ pc[m] # "done"
    BY <1>3 DEF Start, Goto
  <2>2. \A r \in Runs : run'[r] = IF r[1] = m THEN "connecting" ELSE run[r]
    BY <1>3 DEF Start
  <2>3. \A n \in Handlers, b \in Apps : <<n, b>> \in Runs
    BY DEF Runs
  <2>4. \A a \in Apps : clients[a] # None => clients[a] \in Runs /\ clients[a][1] # m
    BY <2>1, RunPair
  <2> QED
    BY <2>1, <2>2, <2>3, <2>4
<1> QED
  BY <1>1, <1>2, <1>3 DEF Handle

\* A handler that closes a client goes on to remove its entry.
LEMMA HandleHeard ==
  ASSUME HeardInv, TypeOK', NEW m \in Handlers, Handle(m) PROVE RegisteredIsHeard'
<1> USE DEF HeardInv, TypeOK
<1>1. CASE Look(m) \/ Load(m) \/ LoadFails(m) \/ AddMediaServer(m) \/ StartPanics(m)
  <2>1. run' = run /\ clients' = clients /\ target' = target
    BY <1>1 DEF Look, Load, LoadFails, AddMediaServer, StartPanics, handling
  <2>2. \A n \in Handlers : pc[n] = "remove" => pc'[n] = "remove"
    BY <1>1 DEF Look, Load, LoadFails, AddMediaServer, StartPanics, Goto, handling
  <2> QED
    BY <2>1, <2>2 DEF RegisteredIsHeard
<1>2. ASSUME NEW a \in Apps, CloseClient(m, a) PROVE RegisteredIsHeard'
  <2>1. \A n \in Handlers : n # m => pc'[n] = pc[n] /\ target'[n] = target[n]
    BY <1>2 DEF CloseClient, Goto
  <2>2. clients' = clients /\ pc[m] = "close"
    BY <1>2 DEF CloseClient
  <2>3. CASE clients[a] = None
    BY <1>2, <2>1, <2>2, <2>3 DEF CloseClient, RegisteredIsHeard
  <2>4. CASE clients[a] # None
    <3>1. pc'[m] = "remove" /\ target'[m] = a
      BY <1>2, <2>4 DEF CloseClient, Goto
    <3>2. \A r \in Runs : r # clients[a] => run'[r] = run[r]
      BY <1>2, <2>4 DEF CloseClient
    <3>3. \A b \in Apps : clients[b] # None /\ b # a => clients[b] \in Runs /\ clients[b] # clients[a]
      BY <2>4
    <3> QED
      BY <2>1, <2>2, <3>1, <3>2, <3>3 DEF RegisteredIsHeard
  <2> QED
    BY <2>3, <2>4
<1>3. CASE RemoveClient(m)
  <2>1. /\ \A n \in Handlers : n # m => pc'[n] = pc[n]
        /\ run' = run /\ target' = target
        /\ clients' = [clients EXCEPT ![target[m]] = None]
    BY <1>3 DEF RemoveClient, Goto
  <2> QED
    BY <2>1 DEF RegisteredIsHeard
<1>4. CASE Start(m)
  <2>1. /\ clients' = clients /\ target' = target /\ pc[m] = "start"
        /\ \A n \in Handlers : n # m => pc'[n] = pc[n]
    BY <1>4 DEF Start, Goto
  <2>2. \A r \in Runs : r[1] # m => run'[r] = run[r]
    BY <1>4 DEF Start
  <2>3. \A a \in Apps : clients[a] # None => clients[a] \in Runs /\ clients[a][1] # m
    BY <2>1, RunPair DEF RunsBegun
  <2> QED
    BY <2>1, <2>2, <2>3 DEF RegisteredIsHeard
<1> QED
  BY <1>1, <1>2, <1>3, <1>4 DEF Handle

\* Every other step.
LEMMA HeardStep == ASSUME HeardInv, [Next]_vars PROVE HeardInv'
<1> USE DEF HeardInv
<1>0. TypeOK'
  BY TypeStep
<1>1. ASSUME NEW m \in Messages, Publish(m) PROVE RunsBegun' /\ RegisteredIsHeard'
  <2>1. m \in Handlers /\ pc' = [pc EXCEPT ![m] = "look"] /\ pc[m] = "idle"
    BY <1>1, AriAssumption DEF Publish, Messages, Handlers, Goto
  <2>2. clients' = clients /\ run' = run /\ target' = target
    BY <1>1 DEF Publish
  <2>3. \A n \in Handlers : (pc'[n] # "done" => pc[n] # "done") /\ (pc[n] = "remove" => pc'[n] = "remove")
    BY <2>1 DEF TypeOK
  <2> QED
    BY <2>2, <2>3 DEF RunsBegun, RegisteredIsHeard
<1>2. ASSUME NEW r \in Runs, Listen(r) PROVE RunsBegun' /\ RegisteredIsHeard'
  <2>1. /\ pc' = pc /\ target' = target /\ run[r] \in {"connecting", "told"}
        /\ run' \in {[run EXCEPT ![r] = "listens"], [run EXCEPT ![r] = "ended"]}
        /\ \/ clients' = [clients EXCEPT ![r[2]] = r] /\ run' = [run EXCEPT ![r] = "listens"]
           \/ clients' = clients /\ run' = [run EXCEPT ![r] = "ended"]
    BY <1>2 DEF Listen, Connect, ConnectFails, ListenerEnds, handling
  <2>2. \A n \in Handlers : pc[n] # "done" => r[1] # n
    BY <2>1, RunPair DEF RunsBegun
  <2>3. \A n \in Handlers, a \in Apps : r[1] # n => run'[<<n, a>>] = run[<<n, a>>]
    BY <2>1, RunPair DEF TypeOK, Runs
  <2>4. \A a \in Apps : clients'[a] # None => clients'[a] \in Runs
    BY <1>0 DEF TypeOK
  <2>5. \A q \in Runs : run'[q] = IF q = r THEN run'[r] ELSE run[q]
    BY <2>1 DEF TypeOK
  <2>6. run'[r] \in {"listens", "ended"}
    BY <2>1 DEF TypeOK
  <2>7. \A a \in Apps : clients'[a] # clients[a] => clients'[a] = r /\ run'[r] = "listens"
    BY <2>1 DEF TypeOK
  <2>8. RunsBegun'
    BY <2>1, <2>2, <2>3, <2>4, <2>5, <2>6, <2>7 DEF RunsBegun
  <2>9. RegisteredIsHeard'
    BY <2>1, <2>4, <2>5, <2>6, <2>7 DEF RegisteredIsHeard
  <2> QED
    BY <2>8, <2>9
<1>3. ASSUME NEW m \in Handlers, Handle(m) PROVE RunsBegun' /\ RegisteredIsHeard'
  BY <1>0, <1>3, HandleBegun, HandleHeard
<1>4. CASE Panic \/ UNCHANGED vars
  <2>1. pc' = pc /\ target' = target /\ clients' = clients /\ run' = run
    BY <1>4 DEF Panic, vars, handling
  <2>2. RunsBegun'
    BY <2>1 DEF RunsBegun
  <2>3. RegisteredIsHeard'
    BY <2>1 DEF RegisteredIsHeard
  <2> QED
    BY <1>0, <2>2, <2>3
<1> QED
  BY <1>0, <1>1, <1>2, <1>3, <1>4 DEF Next

\* An entry whose listener is told to end is about to be removed, however the handlers
\* of messages overlap (addServer, deleteServer, runApp, listenApp).
THEOREM RegisteredClientIsHeard == Spec => []RegisteredIsHeard
<1>1. Init => HeardInv
  <2> SUFFICES ASSUME Init PROVE HeardInv
    OBVIOUS
  <2>1. RunsBegun /\ RegisteredIsHeard
    BY DEF Init, RunsBegun, RegisteredIsHeard, Runs
  <2> QED
    BY <2>1, InitTypes DEF HeardInv
<1> QED
  BY <1>1, HeardStep, PTL DEF Spec, HeardInv

-----------------------------------------------------------------------------
(* OneListener *)

Unregistered(A) == \A a \in A : clients[a] = None

\* m is at work, or a connection that it has started is not decided.
Serving(m) == pc[m] \notin {"idle", "done"} \/ \E a \in Apps : run[<<m, a>>] = "connecting"

\* What a handler that works alone knows about the clients at each of its steps.
Alone(m) ==
  /\ pc[m] = "look" /\ m = 0 => Unregistered(Apps)
  /\ pc[m] = "load" => IF todo[m] = {} THEN Unregistered(Apps) ELSE todo[m] = Apps /\ known
  /\ pc[m] \in {"add", "start"} => Unregistered(Apps)
  /\ pc[m] = "close" => Unregistered(Apps \ todo[m])
  /\ pc[m] = "remove" => /\ Unregistered(Apps \ (todo[m] \cup {target[m]}))
                         /\ clients[target[m]] # None /\ run[clients[target[m]]] # "listens"
  /\ pc[m] \in {"start", "close", "remove"} => known

OnlyRegisteredListens == \A r \in Runs : run[r] = "listens" => clients[r[2]] = r
ConnectsAnew == \A r \in Runs : run[r] = "connecting" => known /\ clients[r[2]] = None
OneServes == \A m, n \in Handlers : Serving(m) /\ Serving(n) => m = n

Serial ==
  /\ OnlyRegisteredListens /\ ConnectsAnew /\ OneServes
  /\ ~known => Unregistered(Apps)
  /\ \A m \in Handlers : Alone(m)

SerialInv == HeardInv /\ (overlapped \/ Serial)

\* While one handler serves, the others are not at work.
LEMMA OthersRest ==
  ASSUME OneServes, NEW m \in Handlers, Serving(m), NEW n \in Handlers, n # m
  PROVE  pc[n] \in {"idle", "done"} /\ \A a \in Apps : run[<<n, a>>] # "connecting"
BY DEF OneServes, Serving

\* They stay at rest as long as only that one moves.
LEMMA OneServesKept ==
  ASSUME OneServes, NEW m \in Handlers, Serving(m),
         \A n \in Handlers : n # m => pc'[n] = pc[n],
         \A n \in Handlers, a \in Apps :
           n # m /\ run[<<n, a>>] # "connecting" => run'[<<n, a>>] # "connecting"
  PROVE  OneServes'
<1>1. ASSUME NEW n \in Handlers, n # m PROVE ~Serving(n)'
  <2>1. pc[n] \in {"idle", "done"} /\ \A a \in Apps : run[<<n, a>>] # "connecting"
    BY <1>1, OthersRest
  <2> QED
    BY <1>1, <2>1 DEF Serving
<1> QED
  BY <1>1 DEF OneServes

\* Of a handler that rests nothing is asked.
LEMMA RestingAlone == ASSUME NEW n \in Handlers, pc[n] \in {"idle", "done"} PROVE Alone(n)
BY DEF Alone

\* The steps of a handler that leave clients and runs alone.
LEMMA HandleSerial ==
  ASSUME HeardInv, Serial, TypeOK', NEW m \in Handlers,
         Look(m) \/ Load(m) \/ LoadFails(m) \/ AddMediaServer(m) \/ StartPanics(m)
  PROVE  Serial'
<1> USE DEF HeardInv, TypeOK
<1>1. clients' = clients /\ run' = run /\ (known => known') /\ Serving(m)
  BY DEF Look, Load, LoadFails, AddMediaServer, StartPanics, Serving
<1>2. \A n \in Handlers : n # m => pc'[n] = pc[n]
  BY DEF Look, Load, LoadFails, AddMediaServer, StartPanics, Goto, handling
<1>3. OnlyRegisteredListens' /\ ConnectsAnew'
  BY <1>1 DEF Serial, OnlyRegisteredListens, ConnectsAnew
<1>4. OneServes'
  BY <1>1, <1>2, OneServesKept DEF Serial
<1>5. ~known' => Unregistered(Apps)'
  BY <1>1 DEF Serial, Unregistered
<1>6. ASSUME NEW n \in Handlers, n # m PROVE Alone(n)'
  BY <1>1, <1>2, <1>6, OthersRest DEF Serial, Alone
<1>7. Alone(m)'
  <2>1. CASE Look(m)
    <3>1. /\ todo'[m] = IF known /\ m # 0 THEN Apps ELSE {}
          /\ pc'[m] \in {"load", "close", "start", "done"}
          /\ pc'[m] = "load" => m # 0
          /\ pc'[m] = "close" => known /\ m # 0
          /\ pc'[m] = "start" => m = 0 /\ known
          /\ pc[m] = "look" /\ known' = known
      BY <2>1 DEF Look, Goto
    <3>2. m = 0 => Unregistered(Apps)
      BY <3>1 DEF Serial, Alone
    <3> QED
      BY <1>1, <3>1, <3>2 DEF Serial, Alone, Unregistered
  <2>2. CASE Load(m)
    <3>1. todo' = todo /\ known' = known /\ pc[m] = "load" /\ pc'[m] = IF todo[m] = {} THEN "add" ELSE "close"
      BY <2>2 DEF Load, Goto
    <3> QED
      BY <1>1, <3>1 DEF Serial, Alone, Unregistered
  <2>3. CASE LoadFails(m)
    BY <2>3 DEF LoadFails, Goto, Alone
  <2>4. CASE AddMediaServer(m)
    <3>1. known' /\ pc[m] = "add" /\ pc'[m] = "start"
      BY <2>4 DEF AddMediaServer, Goto
    <3> QED
      BY <1>1, <3>1 DEF Serial, Alone, Unregistered
  <2>5. CASE StartPanics(m)
    <3>1. pc' = pc /\ todo' = todo /\ target' = target /\ known' = known
      BY <2>5 DEF StartPanics, handling
    <3> QED
      BY <1>1, <3>1 DEF Serial, Alone, Unregistered
  <2> QED
    BY <2>1, <2>2, <2>3, <2>4, <2>5
<1> QED
  BY <1>3, <1>4, <1>5, <1>6, <1>7 DEF Serial

\* A handler closes the clients one by one.
LEMMA CloseSerial ==
  ASSUME HeardInv, Serial, TypeOK', NEW m \in Handlers, NEW a \in Apps, CloseClient(m, a)
  PROVE  Serial'
<1> USE DEF HeardInv, TypeOK
<1>1. clients' = clients /\ known' = known /\ pc[m] = "close" /\ Serving(m)
  BY DEF CloseClient, Serving
<1>2. \A n \in Handlers : n # m => pc'[n] = pc[n]
  BY DEF CloseClient, Goto
<1>3. \A r \in Runs : run'[r] = run[r] \/ (run[r] = "listens" /\ run'[r] = "told")
  BY DEF CloseClient
<1>4. OnlyRegisteredListens' /\ ConnectsAnew'
  BY <1>1, <1>3 DEF Serial, OnlyRegisteredListens, ConnectsAnew
<1>5. OneServes'
  <2>1. \A n \in Handlers, b \in Apps : <<n, b>> \in Runs
    BY DEF Runs
  <2> QED
    BY <1>1, <1>2, <1>3, <2>1, OneServesKept DEF Serial
<1>6. ASSUME NEW n \in Handlers, n # m PROVE Alone(n)'
  BY <1>1, <1>2, <1>6, OthersRest DEF Serial, Alone
<1>7. Alone(m)'
  <2>1. Unregistered(Apps \ todo[m]) /\ known /\ todo'[m] = todo[m] \ {a}
    BY <1>1 DEF Serial, Alone, CloseClient
  <2>2. CASE clients[a] = None
    <3>1. pc'[m] = AfterClose(m, todo'[m]) /\ Unregistered(Apps \ todo'[m])
      BY <2>1, <2>2 DEF CloseClient, Goto, Unregistered
    <3> QED
      BY <1>1, <2>1, <3>1 DEF Alone, AfterClose, Unregistered
  <2>3. CASE clients[a] # None
    <3>1. pc'[m] = "remove" /\ target'[m] = a
      BY <2>3 DEF CloseClient, Goto
    <3>2. run'[clients[a]] # "listens"
      BY <2>3 DEF CloseClient
    <3> QED
      BY <1>1, <2>1, <2>3, <3>1, <3>2 DEF Alone, Unregistered
  <2> QED
    BY <2>2, <2>3
<1> QED
  BY <1>1, <1>4, <1>5, <1>6, <1>7 DEF Serial, Unregistered

\* The entry that is removed is the one whose listener was told to end.
LEMMA RemoveSerial ==
  ASSUME HeardInv, Serial, TypeOK', NEW m \in Handlers, RemoveClient(m)
  PROVE  Serial'
<1> USE DEF HeardInv, TypeOK
<1>1. /\ run' = run /\ known' = known /\ todo' = todo /\ target' = target
      /\ pc[m] = "remove" /\ Serving(m) /\ pc'[m] = AfterClose(m, todo[m])
      /\ clients' = [clients EXCEPT ![target[m]] = None]
  BY DEF RemoveClient, Serving, Goto
<1>2. \A n \in Handlers : n # m => pc'[n] = pc[n]
  BY DEF RemoveClient, Goto
<1>3. /\ Unregistered(Apps \ (todo[m] \cup {target[m]})) /\ known
      /\ clients[target[m]] # None /\ run[clients[target[m]]] # "listens"
  BY <1>1 DEF Serial, Alone
<1>4. OnlyRegisteredListens' /\ ConnectsAnew'
  BY <1>1, <1>3, RunPair DEF Serial, OnlyRegisteredListens, ConnectsAnew
<1>5. OneServes'
  BY <1>1, <1>2, OneServesKept DEF Serial
<1>6. ASSUME NEW n \in Handlers, n # m PROVE Alone(n)'
  BY <1>1, <1>2, <1>6, OthersRest DEF Serial, Alone
<1>7. Unregistered(Apps \ todo[m])'
  BY <1>1, <1>3 DEF Unregistered
<1>8. Alone(m)'
  BY <1>1, <1>3, <1>7 DEF Alone, AfterClose, Unregistered
<1> QED
  BY <1>1, <1>3, <1>4, <1>5, <1>6, <1>8 DEF Serial

\* A handler starts its runs when no client is registered.
LEMMA StartSerial ==
  ASSUME HeardInv, Serial, TypeOK', NEW m \in Handlers, Start(m)
  PROVE  Serial'
<1> USE DEF HeardInv, TypeOK
<1>1. /\ clients' = clients /\ known' = known /\ todo' = todo /\ target' = target
      /\ pc[m] = "start" /\ pc'[m] = "done" /\ Serving(m)
  BY DEF Start, Serving, Goto
<1>2. \A n \in Handlers : n # m => pc'[n] = pc[n]
  BY DEF Start, Goto
<1>3. \A r \in Runs : run'[r] = IF r[1] = m THEN "connecting" ELSE run[r]
  BY DEF Start
<1>4. Unregistered(Apps) /\ known
  BY <1>1 DEF Serial, Alone
<1>5. OnlyRegisteredListens' /\ ConnectsAnew'
  BY <1>1, <1>3, <1>4, RunPair DEF Serial, OnlyRegisteredListens, ConnectsAnew, Unregistered
<1>6. OneServes'
  <2>1. \A n \in Handlers, b \in Apps : <<n, b>> \in Runs /\ <<n, b>>[1] = n
    BY DEF Runs
  <2> QED
    BY <1>1, <1>2, <1>3, <2>1, OneServesKept DEF Serial
<1>7. ASSUME NEW n \in Handlers PROVE Alone(n)'
  <2>1. pc'[n] \in {"idle", "done"}
    BY <1>1, <1>2, OthersRest DEF Serial
  <2> QED
    BY <2>1 DEF Alone
<1> QED
  BY <1>1, <1>4, <1>5, <1>6, <1>7 DEF Serial

\* The steps of a connection.  While one connects, its handler has ended and the others
\* are at rest.
LEMMA ListenSerial ==
  ASSUME HeardInv, Serial, TypeOK', NEW r \in Runs, Listen(r)
  PROVE  Serial'
<1> USE DEF HeardInv, TypeOK
<1>1. /\ pc' = pc /\ known' = known /\ todo' = todo /\ target' = target
      /\ \A q \in Runs : q # r => run'[q] = run[q]
      /\ run'[r] \in {"listens", "ended"} /\ run[r] \in {"connecting", "told"}
  BY DEF Listen, Connect, ConnectFails, ListenerEnds, handling
<1>2. OneServes'
  <2>1. \A n \in Handlers : Serving(n)' => Serving(n)
    <3>1. \A n \in Handlers, b \in Apps : <<n, b>> \in Runs
      BY DEF Runs
    <3> QED
      BY <1>1, <3>1 DEF Serving
  <2> QED
    BY <2>1 DEF Serial, OneServes
<1>3. CASE clients' = clients /\ run'[r] = "ended"
  <2>1. OnlyRegisteredListens' /\ ConnectsAnew'
    BY <1>1, <1>3 DEF Serial, OnlyRegisteredListens, ConnectsAnew
  <2>2. \A q \in Runs : run'[q] = "listens" => run[q] = "listens"
    BY <1>1, <1>3
  <2>3. ASSUME NEW n \in Handlers PROVE Alone(n)'
    BY <1>1, <1>3, <2>2 DEF Serial, Alone, Unregistered
  <2> QED
    BY <1>1, <1>2, <1>3, <2>1, <2>3 DEF Serial, Unregistered
<1>4. CASE Connect(r)
  <2>1. clients' = [clients EXCEPT ![r[2]] = r] /\ run[r] = "connecting" /\ run'[r] = "listens"
    BY <1>4 DEF Connect
  <2>2. known /\ clients[r[2]] = None /\ r[1] \in Handlers /\ r[2] \in Apps /\ r = <<r[1], r[2]>>
    BY <2>1, RunPair DEF Serial, ConnectsAnew
  <2>3. Serving(r[1]) /\ pc[r[1]] = "done"
    <3>1. run[<<r[1], r[2]>>] = "connecting"
      BY <2>1, <2>2
    <3> QED
      BY <2>2, <3>1 DEF Serving, RunsBegun
  <2>4. ASSUME NEW n \in Handlers PROVE pc[n] \in {"idle", "done"}
    BY <2>2, <2>3, OthersRest DEF Serial
  <2>5. ASSUME NEW n \in Handlers PROVE Alone(n)'
    BY <1>1, <2>4 DEF Alone
  <2>6. OnlyRegisteredListens'
    BY <1>1, <2>1, <2>2, RunPair, AriAssumption DEF Serial, OnlyRegisteredListens
  <2>7. ConnectsAnew'
    <3> SUFFICES ASSUME NEW q \in Runs, run'[q] = "connecting" PROVE known' /\ clients'[q[2]] = None
      BY DEF ConnectsAnew
    <3>1. q # r /\ run[q] = "connecting" /\ q[1] \in Handlers /\ q[2] \in Apps /\ q = <<q[1], q[2]>>
      BY <1>1, <2>1, RunPair
    <3>2. q[1] = r[1]
      <4>1. run[<<q[1], q[2]>>] = "connecting"
        BY <3>1
      <4>2. Serving(q[1])
        BY <3>1, <4>1 DEF Serving
      <4> QED
        BY <2>2, <2>3, <3>1, <4>2 DEF Serial, OneServes
    <3>3. q[2] # r[2]
      BY <2>2, <3>1, <3>2
    <3> QED
      BY <1>1, <2>1, <2>2, <3>1, <3>3 DEF Serial, ConnectsAnew
  <2> QED
    BY <1>1, <1>2, <2>2, <2>5, <2>6, <2>7 DEF Serial
<1> QED
  BY <1>1, <1>3, <1>4 DEF Listen, ConnectFails, ListenerEnds

\* A message that finds nothing in flight is served alone.
LEMMA PublishSerial ==
  ASSUME HeardInv, Serial, TypeOK', NEW m \in Messages, Publish(m), ~overlapped'
  PROVE  Serial'
<1> USE DEF HeardInv, TypeOK
<1>0. ~InFlight
  BY DEF Publish
<1>1. /\ clients' = clients /\ known' = known /\ run' = run /\ ~InFlight
      /\ m \in Handlers /\ m # 0 /\ pc' = [pc EXCEPT ![m] = "look"]
  <2>1. m \in Handlers /\ m # 0
    BY AriAssumption DEF Messages, Handlers
  <2> QED
    BY <1>0, <2>1 DEF Publish, Goto
<1>2. \A n \in Handlers : pc[n] \in {"idle", "done"}
  BY <1>1 DEF InFlight
<1>3. \A n \in Handlers, a \in Apps : run[<<n, a>>] # "connecting"
  BY <1>1 DEF InFlight, Runs
<1>4. OneServes'
  <2>1. ASSUME NEW n \in Handlers, n # m PROVE ~Serving(n)'
    BY <1>1, <1>2, <1>3, <2>1 DEF Serving
  <2> QED
    BY <1>1, <2>1 DEF OneServes
<1>5. OnlyRegisteredListens' /\ ConnectsAnew'
  BY <1>1 DEF Serial, OnlyRegisteredListens, ConnectsAnew
<1>6. ASSUME NEW n \in Handlers PROVE Alone(n)'
  BY <1>1, <1>2 DEF Alone
<1> QED
  BY <1>1, <1>4, <1>5, <1>6 DEF Serial, Unregistered

\* Unless messages were served at the same time, who listens is the registered client of
\* its application (addServer, deleteServer, runApp).
THEOREM OnlyTheRegisteredListens == Spec => []OneListener
<1>1. Init => SerialInv
  <2> SUFFICES ASSUME Init PROVE SerialInv
    OBVIOUS
  <2>1. RunsBegun /\ RegisteredIsHeard
    BY DEF Init, RunsBegun, RegisteredIsHeard, Runs
  <2>2. OnlyRegisteredListens /\ ConnectsAnew /\ Unregistered(Apps)
    BY DEF Init, OnlyRegisteredListens, ConnectsAnew, Unregistered
  <2>3. \A n \in Handlers : Serving(n) => n = 0
    BY DEF Init, Serving, Runs
  <2>4. \A n \in Handlers : Alone(n)
    BY <2>2 DEF Init, Alone
  <2> QED
    BY <2>1, <2>2, <2>3, <2>4, InitTypes DEF SerialInv, HeardInv, Serial, OneServes
<1>2. SerialInv /\ [Next]_vars => SerialInv'
  <2> SUFFICES ASSUME SerialInv, [Next]_vars PROVE SerialInv'
    OBVIOUS
  <2>1. HeardInv' /\ TypeOK'
    BY HeardStep DEF SerialInv, HeardInv
  <2>2. overlapped => overlapped'
    BY DEF Next, Publish, Handle, Look, Load, LoadFails, CloseClient, RemoveClient, AddMediaServer,
           Start, StartPanics, Listen, Connect, ConnectFails, ListenerEnds, Panic, vars
  <2>3. SUFFICES ASSUME Serial, ~overlapped' PROVE Serial'
    BY <2>1, <2>2 DEF SerialInv
  <2>4. ASSUME NEW m \in Messages, Publish(m) PROVE Serial'
    BY <2>1, <2>3, <2>4, PublishSerial DEF SerialInv
  <2>5. ASSUME NEW m \in Handlers, Handle(m) PROVE Serial'
    BY <2>1, <2>3, <2>5, HandleSerial, CloseSerial, RemoveSerial, StartSerial DEF SerialInv, Handle
  <2>6. ASSUME NEW r \in Runs, Listen(r) PROVE Serial'
    BY <2>1, <2>3, <2>6, ListenSerial DEF SerialInv
  <2>7. CASE Panic \/ UNCHANGED vars
    <3>1. /\ pc' = pc /\ todo' = todo /\ target' = target /\ clients' = clients
          /\ run' = run /\ known' = known
      BY <2>7 DEF Panic, vars, handling
    <3>2. OnlyRegisteredListens' /\ ConnectsAnew' /\ OneServes'
      BY <2>3, <3>1 DEF Serial, OnlyRegisteredListens, ConnectsAnew, OneServes, Serving
    <3>3. \A n \in Handlers : Alone(n)'
      BY <2>3, <3>1 DEF Serial, Alone, Unregistered
    <3> QED
      BY <2>3, <3>1, <3>2, <3>3 DEF Serial, Unregistered
  <2> QED
    BY <2>4, <2>5, <2>6, <2>7 DEF Next
<1>3. SerialInv => OneListener
  BY DEF SerialInv, Serial, OnlyRegisteredListens, OneListener
<1> QED
  BY <1>1, <1>2, <1>3, PTL DEF Spec
==================================================================================

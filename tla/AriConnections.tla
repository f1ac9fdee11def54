---------------------------- MODULE AriConnections ----------------------------
(***************************************************************************)
(* The ARI connections of one media server (main.manager.ari.go and        *)
(* main.manager.server.go): one client and one listener for every          *)
(* application, opened when the program starts and replaced or closed by   *)
(* the entity messages of the web application.                             *)
(*                                                                         *)
(* Every message has a goroutine of its own, and every connection is       *)
(* opened by yet another one (runApp), which nobody waits for.  A run is   *)
(* identified by the handler that started it and its application; handler  *)
(* 0 is InitAriConnection.                                                 *)
(***************************************************************************)
EXTENDS Naturals

CONSTANTS
  Apps,         \* connection names: inbound and outbound of every instance
  MaxMessages,  \* bound: messages about the server
  None          \* no entry in ClientManager.clients

Messages == 1 .. MaxMessages
Handlers == 0 .. MaxMessages
Runs == Handlers \X Apps

ASSUME AriAssumption == MaxMessages \in Nat /\ Apps # {} /\ None \notin Runs

VARIABLES
  row,         \* dbo.wbp_server: "bare" lacks the ARI settings, as a registrar does
  known,       \* the server is in ServerManager.MediaServers
  clients,     \* ClientManager.clients: the run that registered the entry
  run,         \* runApp and then listenApp
  pc,          \* handlers
  kind,        \* what the message of a handler asks for
  todo,        \* applications whose client a handler still has to look at
  target,      \* the application whose client a handler is closing
  settings,    \* the server that a handler works on has ARI settings
  last,        \* the message published last
  down,        \* the process has panicked
  overlapped,  \* history: a message came while an earlier one was being served
  failed       \* history: a query or a connection failed

handling == <<pc, kind, todo, target, settings>>
vars == <<row, known, clients, run, handling, last, down, overlapped, failed>>

TypeOK ==
  /\ row \in {"media", "bare", "gone"}
  /\ known \in BOOLEAN /\ down \in BOOLEAN /\ overlapped \in BOOLEAN /\ failed \in BOOLEAN
  /\ clients \in [Apps -> Runs \cup {None}]
  /\ \A a \in Apps : clients[a] # None => clients[a][2] = a
  /\ run \in [Runs -> {"none", "connecting", "listens", "told", "ended"}]
  /\ pc \in [Handlers -> {"idle", "look", "load", "close", "remove", "add", "start", "done"}]
  /\ kind \in [Handlers -> {"Edit", "Delete"}]
  /\ todo \in [Handlers -> SUBSET Apps]
  /\ target \in [Handlers -> Apps]
  /\ settings \in [Handlers -> BOOLEAN]
  /\ last \in {"Edit", "Delete"}

\* InitGlobalState has read the media servers that are enabled.
Init ==
  /\ row \in {"media", "bare", "gone"}
  /\ known \in BOOLEAN /\ (known => row # "gone")
  /\ clients = [a \in Apps |-> None]
  /\ run = [r \in Runs |-> "none"]
  /\ pc = [m \in Handlers |-> IF m = 0 THEN "look" ELSE "idle"]
  /\ kind = [m \in Handlers |-> "Edit"]
  /\ todo = [m \in Handlers |-> {}]
  /\ target = [m \in Handlers |-> CHOOSE a \in Apps : TRUE]
  /\ settings = [m \in Handlers |-> row = "media"]
  /\ last = IF known THEN "Edit" ELSE "Delete"
  /\ down = FALSE /\ overlapped = FALSE /\ failed = FALSE

-----------------------------------------------------------------------------
Goto(m, place) == pc' = [pc EXCEPT ![m] = place]

\* A handler is at work, or a connection that one has started is not decided yet.
InFlight ==
  \/ \E m \in Handlers : pc[m] \notin {"idle", "done"}
  \/ \E r \in Runs : run[r] = "connecting"

\* The web application changes the row and publishes a message about it.
Publish(m) ==
  /\ ~down /\ pc[m] = "idle" /\ \A n \in Messages : n < m => pc[n] # "idle"
  /\ \/ last' = "Edit" /\ row' \in {"media", "bare"}
     \/ last' = "Delete" /\ row' \in {row, "gone"}
  /\ kind' = [kind EXCEPT ![m] = last']
  /\ Goto(m, "look")
  /\ overlapped' = (overlapped \/ InFlight)
  /\ UNCHANGED <<known, clients, run, todo, target, settings, down, failed>>

-----------------------------------------------------------------------------
(* InitAriConnection, addServer, deleteServer *)

\* The server is looked up in MediaServers, without the lock.  The clients of a known
\* server are closed, and InitAriConnection connects the servers that it finds.
Look(m) ==
  /\ ~down /\ pc[m] = "look"
  /\ todo' = [todo EXCEPT ![m] = IF known /\ m # 0 THEN Apps ELSE {}]
  /\ Goto(m, CASE m # 0 /\ kind[m] = "Edit" -> "load"
               [] m # 0 /\ kind[m] = "Delete" -> IF known THEN "close" ELSE "done"
               [] OTHER -> IF known THEN "start" ELSE "done")
  /\ UNCHANGED <<row, known, clients, run, kind, target, settings, last, down, overlapped, failed>>

\* getServer, whether the server is enabled or not, and whatever its type is.
Load(m) ==
  /\ ~down /\ pc[m] = "load" /\ row # "gone"
  /\ settings' = [settings EXCEPT ![m] = row = "media"]
  /\ Goto(m, IF todo[m] = {} THEN "add" ELSE "close")
  /\ UNCHANGED <<row, known, clients, run, kind, todo, target, last, down, overlapped, failed>>

\* No row, or the query fails.
LoadFails(m) ==
  /\ ~down /\ pc[m] = "load"
  /\ failed' = TRUE
  /\ Goto(m, "done")
  /\ UNCHANGED <<row, known, clients, run, kind, todo, target, settings, last, down, overlapped>>

\* The last client closed, an edited server is connected again.
AfterClose(m, rest) ==
  IF rest # {} THEN "close" ELSE IF kind[m] = "Edit" THEN "start" ELSE "done"

\* Mutant: only a client that is not found is cancelled, that is none.
CloseClient_Inverted(m, a) ==
  /\ ~down /\ pc[m] = "close" /\ a \in todo[m]
  /\ todo' = [todo EXCEPT ![m] = @ \ {a}]
  /\ Goto(m, AfterClose(m, todo[m] \ {a}))
  /\ UNCHANGED <<row, known, clients, run, kind, target, settings, last, down, overlapped, failed>>

\* Mutant: the client that was found is not removed.
CloseClient_EntryKept(m, a) ==
  LET rest == todo[m] \ {a} IN
  /\ ~down /\ pc[m] = "close" /\ a \in todo[m]
  /\ todo' = [todo EXCEPT ![m] = rest]
  /\ run' = IF clients[a] # None /\ run[clients[a]] = "listens"
            THEN [run EXCEPT ![clients[a]] = "told"] ELSE run
  /\ Goto(m, AfterClose(m, rest))
  /\ UNCHANGED <<row, known, clients, kind, target, settings, last, down, overlapped, failed>>

\* GetWrapedAriClient and, if there is one, the cancelFunc of its listener.
CloseClient(m, a) ==
  LET rest == todo[m] \ {a} IN
  /\ ~down /\ pc[m] = "close" /\ a \in todo[m]
  /\ todo' = [todo EXCEPT ![m] = rest]
  /\ IF clients[a] = None
     THEN Goto(m, AfterClose(m, rest)) /\ UNCHANGED <<run, target>>
     ELSE /\ Goto(m, "remove")
          /\ target' = [target EXCEPT ![m] = a]
          /\ run' = IF run[clients[a]] = "listens" THEN [run EXCEPT ![clients[a]] = "told"] ELSE run
  /\ UNCHANGED <<row, known, clients, kind, settings, last, down, overlapped, failed>>

\* RemoveClient, whichever client has the entry by now.
RemoveClient(m) ==
  /\ ~down /\ pc[m] = "remove"
  /\ clients' = [clients EXCEPT ![target[m]] = None]
  /\ Goto(m, AfterClose(m, todo[m]))
  /\ UNCHANGED <<row, known, run, kind, todo, target, settings, last, down, overlapped, failed>>

AddMediaServer(m) ==
  /\ ~down /\ pc[m] = "add"
  /\ known' = TRUE
  /\ Goto(m, "start")
  /\ UNCHANGED <<row, clients, run, kind, todo, target, settings, last, down, overlapped, failed>>

\* InitAriMediaServer for every instance: a goroutine for each of its applications.
Start(m) ==
  /\ ~down /\ pc[m] = "start" /\ settings[m]
  /\ run' = [r \in Runs |-> IF r[1] = m THEN "connecting" ELSE run[r]]
  /\ Goto(m, "done")
  /\ UNCHANGED <<row, known, clients, kind, todo, target, settings, last, down, overlapped, failed>>

\* InitAriMediaServer dereferences settings that are null: the process panics.
StartPanics(m) ==
  /\ ~down /\ pc[m] = "start" /\ ~settings[m]
  /\ down' = TRUE
  /\ UNCHANGED <<row, known, clients, run, handling, last, overlapped, failed>>

-----------------------------------------------------------------------------
(* runApp and listenApp *)

\* Mutant: the client is not registered.
Connect_NotRegistered(r) ==
  /\ ~down /\ run[r] = "connecting"
  /\ run' = [run EXCEPT ![r] = "listens"]
  /\ UNCHANGED <<row, known, clients, handling, last, down, overlapped, failed>>

\* AddClient replaces the entry, and with it the cancelFunc of whoever had it.
Connect(r) ==
  /\ ~down /\ run[r] = "connecting"
  /\ clients' = [clients EXCEPT ![r[2]] = r]
  /\ run' = [run EXCEPT ![r] = "listens"]
  /\ UNCHANGED <<row, known, handling, last, down, overlapped, failed>>

\* An error is logged, and nobody tries again.
ConnectFails(r) ==
  /\ ~down /\ run[r] = "connecting"
  /\ run' = [run EXCEPT ![r] = "ended"]
  /\ failed' = TRUE
  /\ UNCHANGED <<row, known, clients, handling, last, down, overlapped>>

\* The listener finds its context cancelled.
ListenerEnds(r) ==
  /\ ~down /\ run[r] = "told"
  /\ run' = [run EXCEPT ![r] = "ended"]
  /\ UNCHANGED <<row, known, clients, handling, last, down, overlapped, failed>>

-----------------------------------------------------------------------------
(* Other panics *)

\* The map of the servers is read while AddMediaServer writes it.
ConcurrentMapAccess == \E m, n \in Handlers : pc[m] = "look" /\ pc[n] = "add"

\* GetClient for a call that came over a connection which has no entry any more.
NoClient == \E r \in Runs : run[r] \in {"listens", "told", "ended"} /\ clients[r[2]] = None

Panic ==
  /\ ~down /\ (ConcurrentMapAccess \/ NoClient)
  /\ down' = TRUE
  /\ UNCHANGED <<row, known, clients, run, handling, last, overlapped, failed>>

-----------------------------------------------------------------------------
Handle(m) ==
  \/ Look(m) \/ Load(m) \/ LoadFails(m) \/ (\E a \in Apps : CloseClient(m, a))
  \/ RemoveClient(m) \/ AddMediaServer(m) \/ Start(m) \/ StartPanics(m)

Listen(r) == Connect(r) \/ ConnectFails(r) \/ ListenerEnds(r)

Next ==
  \/ \E m \in Messages : Publish(m)
  \/ \E m \in Handlers : Handle(m)
  \/ \E r \in Runs : Listen(r)
  \/ Panic

Spec == Init /\ [][Next]_vars

\* Goroutines are scheduled, queries and connections return.
FairSpec ==
  /\ Spec
  /\ \A m \in Handlers : WF_vars(Handle(m))
  /\ \A r \in Runs : WF_vars(Listen(r))

-----------------------------------------------------------------------------
(* Properties *)

\* An entry whose listener has been told to end, or has ended, is about to be removed:
\* no call is ever served over an entry that nobody listens to.  This holds however
\* the handlers of several messages overlap.
RegisteredIsHeard ==
  \A a \in Apps :
    clients[a] # None /\ run[clients[a]] # "listens"
      => \E m \in Handlers : pc[m] = "remove" /\ target[m] = a

\* Unless messages were served at the same time, who listens is the registered client
\* of its application: nothing is heard twice, and a later message can close it.
OneListener ==
  \A r \in Runs : run[r] = "listens" => overlapped \/ clients[r[2]] = r

\* Unless messages were served at the same time or something failed, the message that
\* came last decides: after Delete nobody listens any more and nothing is registered,
\* after Add and Edit every application has a listening client, for good.
LastMessageWins ==
  <>[](\/ overlapped \/ failed \/ down
       \/ last = "Delete" /\ \A r \in Runs : run[r] \in {"none", "ended"} /\ clients[r[2]] = None
       \/ last = "Edit" /\ \A a \in Apps : clients[a] # None /\ run[clients[a]] = "listens")
=============================================================================

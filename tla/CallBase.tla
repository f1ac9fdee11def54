------------------------------ MODULE CallBase ------------------------------
(***************************************************************************)
(* State shared by the call handlers: the Call objects, the three maps of  *)
(* CallManager, the pending queue timeouts of ScheduleManager, and the     *)
(* goroutines in flight.  Asterisk (channels and bridges) and the AID      *)
(* distribution service are external: what the engine's calls do to them   *)
(* and what they may do by themselves.                                     *)
(*                                                                         *)
(* An agent leg is <<call, user, attempt>>, the content of the channel id  *)
(* "<call>-agent-<user>-<attempt>" (main.manager.call.go:305).             *)
(***************************************************************************)
EXTENDS Naturals, FiniteSets

CONSTANTS
  Calls, Users,
  NoUser,              \* ConnectedUserName = ""
  NoLeg,               \* an empty channel id
  MaxAttempts,         \* attempts before MaxAttemptReached: 3 in the code
  MaxOffers,           \* bound: distribution messages per call
  TimedCalls,          \* calls whose queue has WaitTimeout > 0
  OriginateMayBeLost   \* an Originate may fail although Asterisk created the channel

ASSUME CallAssumption ==
  /\ NoUser \notin Users
  /\ MaxAttempts \in Nat \ {0}
  /\ MaxOffers \in Nat
  /\ TimedCalls \subseteq Calls
  /\ OriginateMayBeLost \in BOOLEAN

Legs == Calls \X Users \X (1 .. MaxAttempts)

ASSUME NoLegAssumption == NoLeg \notin Legs

VARIABLES
  call,         \* the Call objects
  calls,        \* cm.calls
  agentMap,     \* keys of cm.agentCalltoCall
  outChannels,  \* keys of cm.outChannels
  timers,       \* calls with a QueueTimeout task in ScheduleManager
  gos,          \* goroutines in flight
  logged,       \* termination reason in the queue-log row of a call
  down,         \* the process has panicked
  clientCh,     \* Asterisk: the caller's channel
  legCh,        \* Asterisk: the agent channels
  bridge,       \* Asterisk: the bridge of a call
  aid,          \* AID: last message received about a call and the agent it names,
                \* or "Offered" once the call has been distributed after it
  offers,       \* AID: distribution messages sent for a call
  overlapped,   \* history: calls that took an offer before an earlier attempt was torn down
  failed,       \* history: the requests that failed for a call, whose error is only logged
  kept          \* history: legs that were alive when the request to hang them up failed

asterisk == <<clientCh, legCh, bridge>>
manager == <<calls, agentMap, outChannels>>
world == <<aid, offers, overlapped, failed, kept>>
vars == <<call, calls, agentMap, outChannels, timers, gos, logged, down,
          clientCh, legCh, bridge, aid, offers, overlapped, failed, kept>>

States == {"New", "InQueue", "Bridged", "Terminated"}
Reasons == {"ClientHangup", "AgentHangup", "MaxAttemptReached", "Abandon",
            "QueueWaitTimeReached"}
NoReason == "none"
Messages == {"New", "Accepted", "Rejected", "Dismissed", "Terminated"}

(***************************************************************************)
(* Requests whose failure the engine logs and does not repair: the queue   *)
(* is not found, a message is not published, the caller's channel is not   *)
(* hung up, the bridge is not deleted, the queue-log row is not inserted.  *)
(***************************************************************************)
Requests == {"queue", "publish", "hangup", "bridge", "row"}

Call == [state: States, reason: Reasons \cup {NoReason},
         inDistribution: BOOLEAN, attempts: 0 .. MaxAttempts,
         user: Users \cup {NoUser}, leg: Legs \cup {NoLeg},
         bridge: BOOLEAN, bridged: Legs \cup {NoLeg}, handled: BOOLEAN]

\* InstantiateCall
NewCall == [state |-> "New", reason |-> NoReason,
            inDistribution |-> FALSE, attempts |-> 0, user |-> NoUser, leg |-> NoLeg,
            bridge |-> FALSE, bridged |-> NoLeg, handled |-> FALSE]

(***************************************************************************)
(* A goroutine: its handler f, the next step at, the call it works on, the *)
(* agent leg and user it was started with, an argument (the termination    *)
(* reason or the message to publish), the number of the distribution       *)
(* message that started it, and the fields of the call it copied under the *)
(* lock for use after the unlock.                                          *)
(***************************************************************************)
Handlers == {"enter", "offer", "agentEnter", "bridge", "noAnswer", "agentLeave",
             "clientLeave", "timeout", "message", "messageAgain"}
Steps == {"create", "start", "schedule", "publish",
          "lookup", "lock", "map", "originate", "hangup",
          "set", "createBridge", "addClient", "addLeg", "outbound", "setvar", "accept",
          "reset", "teardown", "unmap", "rejected",
          "terminate", "cancel", "log", "remove", "send"}

Copy == [bridge: BOOLEAN, bridged: Legs \cup {NoLeg}, leg: Legs \cup {NoLeg},
         user: Users \cup {NoUser}]
NoCopy == [bridge |-> FALSE, bridged |-> NoLeg, leg |-> NoLeg, user |-> NoUser]

Goroutine == [f: Handlers, at: Steps, c: Calls, leg: Legs \cup {NoLeg},
              user: Users \cup {NoUser}, arg: Reasons \cup Messages \cup {NoReason},
              n: 0 .. MaxOffers, copy: Copy]

Go(f, at, c) == [f |-> f, at |-> at, c |-> c, leg |-> NoLeg, user |-> NoUser,
                 arg |-> NoReason, n |-> 0, copy |-> NoCopy]
GoLeg(f, at, l) == [Go(f, at, l[1]) EXCEPT !.leg = l]

\* Goroutine g is replaced by the goroutines in G: itself further on, those it
\* starts with a go statement, or none when it returns.
Becomes(g, G) == gos' = (gos \ {g}) \cup G
Goto(g, step) == Becomes(g, {[g EXCEPT !.at = step]})
Return(g) == Becomes(g, {})

\* go sendInteractionStateMessage: g goes on as the goroutine of the message.
Message(g, state, user) ==
  [g EXCEPT !.f = "message", !.at = "send", !.arg = state, !.user = user, !.copy = NoCopy]

CopyOf(c) == [bridge |-> call[c].bridge, bridged |-> call[c].bridged,
              leg |-> call[c].leg, user |-> call[c].user]

TypeOK ==
  /\ call \in [Calls -> Call]
  /\ calls \subseteq Calls
  /\ agentMap \subseteq Legs
  /\ outChannels \subseteq Legs
  /\ timers \subseteq Calls
  /\ gos \subseteq Goroutine
  /\ logged \in [Calls -> Reasons \cup {NoReason}]
  /\ down \in BOOLEAN
  /\ clientCh \in [Calls -> {"none", "stasis", "gone"}]
  /\ legCh \in [Legs -> {"none", "dialing", "stasis", "gone"}]
  /\ bridge \in [Calls -> [up: BOOLEAN, client: BOOLEAN, legs: SUBSET Legs]]
  /\ aid \in [Calls -> [state: Messages \cup {NoReason, "Offered"}, user: Users \cup {NoUser}]]
  /\ offers \in [Calls -> 0 .. MaxOffers]
  /\ overlapped \subseteq Calls
  /\ failed \subseteq Requests \X Calls
  /\ kept \subseteq Legs

NoBridge == [up |-> FALSE, client |-> FALSE, legs |-> {}]

Init ==
  /\ call = [c \in Calls |-> NewCall]
  /\ calls = {}
  /\ agentMap = {}
  /\ outChannels = {}
  /\ timers = {}
  /\ gos = {}
  /\ logged = [c \in Calls |-> NoReason]
  /\ down = FALSE
  /\ clientCh = [c \in Calls |-> "none"]
  /\ legCh = [l \in Legs |-> "none"]
  /\ bridge = [c \in Calls |-> NoBridge]
  /\ aid = [c \in Calls |-> [state |-> NoReason, user |-> NoUser]]
  /\ offers = [c \in Calls |-> 0]
  /\ overlapped = {}
  /\ failed = {}
  /\ kept = {}

-----------------------------------------------------------------------------
(* GetClientCallByAgentCall: the mapping and the call are both present. *)
FoundByLeg(l) == l \in agentMap /\ l[1] \in calls

Failed(request, c) == <<request, c>> \in failed
Fails(request, c) == failed' = failed \cup {<<request, c>>}

\* SetTerminationReason: the last writer wins.
WithReason(x, reason) == [x EXCEPT !.reason = reason]

(***************************************************************************)
(* Asterisk.  Hanging up a channel that is gone is "Not Found" and ignored *)
(* (hangupChannel); after any other error the channel is still there.      *)
(* A channel that leaves Stasis raises a StasisEnd event, handled by a     *)
(* goroutine of its own; a ringing leg that is hung up may raise a Dial    *)
(* event with a failure status.                                            *)
(***************************************************************************)
ClientEndEvent(c) == IF clientCh[c] = "stasis" THEN {Go("clientLeave", "lookup", c)} ELSE {}

LegEndEvents(H) == {GoLeg("agentLeave", "lookup", l) : l \in {l \in H : legCh[l] = "stasis"}}
DialFailures(H) == {GoLeg("noAnswer", "lookup", l) : l \in {l \in H : legCh[l] = "dialing"}}

ClientGone(c) ==
  clientCh' = [clientCh EXCEPT ![c] = IF @ = "stasis" THEN "gone" ELSE @]

Alive(l) == legCh[l] \in {"dialing", "stasis"}

LegsGone(H) ==
  legCh' = [l \in Legs |-> IF l \in H /\ legCh[l] # "none" THEN "gone" ELSE legCh[l]]
=============================================================================

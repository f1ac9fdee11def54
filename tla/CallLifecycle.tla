---------------------------- MODULE CallLifecycle ----------------------------
(***************************************************************************)
(* The life of a call: StasisStart of the caller, queueing, distribution   *)
(* messages from AID, agent legs that answer, fail or hang up, bridging,   *)
(* the return to the queue, the queue timeout and termination              *)
(* (main.handlers.ari.go, main.manager.call.go).                           *)
(*                                                                         *)
(* Every ARI event, Redis message, expired task and go statement is a      *)
(* goroutine; a step is one critical section of the call's mutex, one      *)
(* CallManager map operation, or one request to Asterisk.  Requests made   *)
(* while the call is locked belong to the section.  Queues play no         *)
(* announcements here, so there are no waiting actions and no active one;  *)
(* the music on hold, which no other step waits for or looks at, is        *)
(* modelled in Announce.                                                   *)
(***************************************************************************)
EXTENDS CallBase

-----------------------------------------------------------------------------
(* The outside world. *)

\* A caller is sent to the inbound Stasis application.
ClientEnters(c) ==
  /\ clientCh[c] = "none"
  /\ clientCh' = [clientCh EXCEPT ![c] = "stasis"]
  /\ gos' = gos \cup {Go("enter", "create", c)}
  /\ UNCHANGED <<call, manager, timers, logged, legCh, bridge, world>>

ClientHangsUp(c) ==
  /\ clientCh[c] = "stasis"
  /\ ClientGone(c)
  /\ gos' = gos \cup ClientEndEvent(c)
  /\ UNCHANGED <<call, manager, timers, logged, legCh, bridge, world>>

\* A ringing leg is answered, ends without an answer, or an answered leg leaves.
AgentAnswers(l) ==
  /\ legCh[l] = "dialing"
  /\ legCh' = [legCh EXCEPT ![l] = "stasis"]
  /\ gos' = gos \cup {GoLeg("agentEnter", "lookup", l)}
  /\ UNCHANGED <<call, manager, timers, logged, clientCh, bridge, world>>

AgentFails(l) ==
  /\ legCh[l] = "dialing"
  /\ LegsGone({l})
  /\ gos' = gos \cup DialFailures({l})
  /\ UNCHANGED <<call, manager, timers, logged, clientCh, bridge, world>>

AgentHangsUp(l) ==
  /\ legCh[l] = "stasis"
  /\ LegsGone({l})
  /\ gos' = gos \cup LegEndEvents({l})
  /\ UNCHANGED <<call, manager, timers, logged, clientCh, bridge, world>>

\* AID offers a call it believes to be waiting.  It may repeat an offer that has not
\* been answered.
Distribute(c, u) ==
  /\ aid[c].state \in {"New", "Rejected", "Dismissed", "Offered"}
  /\ offers[c] < MaxOffers
  /\ offers' = [offers EXCEPT ![c] = @ + 1]
  /\ aid' = [aid EXCEPT ![c].state = "Offered"]
  /\ gos' = gos \cup {[Go("offer", "lookup", c) EXCEPT !.user = u, !.n = offers[c] + 1]}
  /\ UNCHANGED <<call, manager, timers, logged, asterisk, overlapped, failed, kept>>

\* ScheduleManager releases the QueueTimeout task.
TimerFires(c) ==
  /\ c \in timers
  /\ timers' = timers \ {c}
  /\ gos' = gos \cup {Go("timeout", "lookup", c)}
  /\ UNCHANGED <<call, manager, logged, asterisk, world>>

World ==
  \/ \E c \in Calls : ClientEnters(c) \/ ClientHangsUp(c) \/ TimerFires(c)
  \/ \E l \in Legs : AgentAnswers(l) \/ AgentFails(l) \/ AgentHangsUp(l)
  \/ \E c \in Calls, u \in Users : Distribute(c, u)

-----------------------------------------------------------------------------
(* onClientChannelEnter, processNewInboundCall, queueProcessStart. *)

\* CreateCall returns nil (blank ids, bad JSON, no parent id): hang up.
RejectSetup(g) ==
  /\ g.at = "create"
  /\ ClientGone(g.c)
  /\ Becomes(g, ClientEndEvent(g.c))
  /\ UNCHANGED <<call, manager, timers, logged, legCh, bridge, world>>

\* The caller is not hung up: the error is logged, and the handler returns.
CallerKept(g) ==
  /\ clientCh[g.c] = "stasis"
  /\ Fails("hangup", g.c)
  /\ Return(g)
  /\ UNCHANGED <<manager, timers, logged, asterisk, aid, offers, overlapped, kept>>

RejectSetupFails(g) == g.at = "create" /\ CallerKept(g) /\ UNCHANGED call

RegisterCall(g) ==
  /\ g.at = "create"
  /\ calls' = calls \cup {g.c}
  /\ Goto(g, "start")
  /\ UNCHANGED <<call, agentMap, outChannels, timers, logged, asterisk, world>>

QueueProcessStart(g) ==
  /\ g.at = "start"
  /\ call' = [call EXCEPT ![g.c].state = "InQueue"]
  /\ Goto(g, "schedule")
  /\ UNCHANGED <<manager, timers, logged, asterisk, world>>

\* Mutant: the QueueTimeout task is never scheduled.
ScheduleTimeout_Forgotten(g) ==
  /\ g.at = "schedule"
  /\ Goto(g, "publish")
  /\ UNCHANGED <<call, manager, timers, logged, asterisk, world>>

ScheduleTimeout(g) ==
  /\ g.at = "schedule"
  /\ Goto(g, "publish")
  /\ timers' = timers \cup ({g.c} \cap TimedCalls)
  /\ UNCHANGED <<call, manager, logged, asterisk, world>>

\* GetQueueByName fails: the handler returns, and nothing else of the call changes.
QueueNotFound(g) ==
  /\ Fails("queue", g.c)
  /\ Return(g)
  /\ UNCHANGED <<call, manager, timers, logged, asterisk, aid, offers, overlapped, kept>>

NoQueueToEnter(g) == g.at = "schedule" /\ QueueNotFound(g)

PublishNew(g) ==
  /\ g.at = "publish"
  /\ aid' = [aid EXCEPT ![g.c] = [state |-> "New", user |-> NoUser]]
  /\ Return(g)
  /\ UNCHANGED <<call, manager, timers, logged, asterisk, offers, overlapped, failed, kept>>

\* A message is not published: the error is logged, and AID does not hear of it.
MessageLost(g) ==
  /\ Fails("publish", g.c)
  /\ Return(g)
  /\ UNCHANGED <<call, manager, timers, logged, asterisk, aid, offers, overlapped, kept>>

PublishNewFails(g) == g.at = "publish" /\ MessageLost(g)

EnterStep(g) ==
  /\ g.f = "enter"
  /\ \/ RejectSetup(g) \/ RejectSetupFails(g) \/ RegisterCall(g) \/ QueueProcessStart(g)
     \/ ScheduleTimeout(g) \/ NoQueueToEnter(g) \/ PublishNew(g) \/ PublishNewFails(g)

-----------------------------------------------------------------------------
(* handleOnAidDistributionMessage, onAidDistributionMessage. *)

OfferLookup(g) ==
  /\ g.at = "lookup"
  /\ IF g.c \in calls THEN Goto(g, "lock") ELSE Return(g)
  /\ UNCHANGED <<call, manager, timers, logged, asterisk, world>>

\* AID has noted the call as distributed, and hears nothing of it.
NoQueueForOffer(g) == g.at = "lookup" /\ g.c \in calls /\ QueueNotFound(g)

\* Mutant: the agent of the message is noted before the call is looked at.
OfferIgnored_NamesAgent(g) ==
  /\ g.at = "lock" /\ call[g.c].inDistribution
  /\ call' = [call EXCEPT ![g.c].user = g.user]
  /\ Return(g)
  /\ UNCHANGED <<manager, timers, logged, asterisk, world>>

OfferIgnored(g) ==
  /\ g.at = "lock" /\ call[g.c].inDistribution
  /\ Return(g)
  /\ UNCHANGED <<call, manager, timers, logged, asterisk, world>>

OfferDismissed(g) ==
  /\ g.at = "lock" /\ ~call[g.c].inDistribution /\ call[g.c].state = "Bridged"
  /\ Becomes(g, {Message(g, "Dismissed", g.user)})
  /\ UNCHANGED <<call, manager, timers, logged, asterisk, world>>

OfferBeyondLimit(g) ==
  /\ g.at = "lock" /\ ~call[g.c].inDistribution /\ call[g.c].state # "Bridged"
  /\ call[g.c].attempts >= MaxAttempts
  /\ call' = [call EXCEPT ![g.c] = WithReason(@, "MaxAttemptReached")]
  /\ Goto(g, "hangup")
  /\ UNCHANGED <<manager, timers, logged, asterisk, world>>

\* Mutant: the attempt does not mark the call as being in distribution.
OfferTaken_NotMarked(g) ==
  LET x == call[g.c]
      leg == <<g.c, g.user, x.attempts + 1>> IN
  /\ g.at = "lock" /\ ~x.inDistribution /\ x.state # "Bridged" /\ x.attempts < MaxAttempts
  /\ call' = [call EXCEPT ![g.c].attempts = @ + 1, ![g.c].user = g.user, ![g.c].leg = leg]
  /\ Becomes(g, {[g EXCEPT !.at = "map", !.leg = leg]})
  /\ overlapped' = overlapped \cup {h.c : h \in {h \in gos : h.c = g.c /\ h.at = "teardown"}}
  /\ UNCHANGED <<manager, timers, logged, asterisk, aid, offers, failed, kept>>

\* Mutant: the limit is passed by one.
OfferTaken_OneMore(g) ==
  LET x == call[g.c]
      leg == <<g.c, g.user, x.attempts + 1>> IN
  /\ g.at = "lock" /\ ~x.inDistribution /\ x.state # "Bridged" /\ x.attempts <= MaxAttempts
  /\ call' = [call EXCEPT ![g.c].attempts = @ + 1, ![g.c].inDistribution = TRUE,
                          ![g.c].user = g.user, ![g.c].leg = leg]
  /\ Becomes(g, {[g EXCEPT !.at = "map", !.leg = leg]})
  /\ UNCHANGED <<manager, timers, logged, asterisk, world>>

\* Mutant: the attempt is not counted.
OfferTaken_NotCounted(g) ==
  LET x == call[g.c]
      leg == <<g.c, g.user, x.attempts + 1>> IN
  /\ g.at = "lock" /\ ~x.inDistribution /\ x.state # "Bridged" /\ x.attempts < MaxAttempts
  /\ call' = [call EXCEPT ![g.c].inDistribution = TRUE,
                          ![g.c].user = g.user, ![g.c].leg = leg]
  /\ Becomes(g, {[g EXCEPT !.at = "map", !.leg = leg]})
  /\ overlapped' = overlapped \cup {h.c : h \in {h \in gos : h.c = g.c /\ h.at = "teardown"}}
  /\ UNCHANGED <<manager, timers, logged, asterisk, aid, offers, failed, kept>>

OfferTaken(g) ==
  LET x == call[g.c]
      leg == <<g.c, g.user, x.attempts + 1>> IN
  /\ g.at = "lock" /\ ~x.inDistribution /\ x.state # "Bridged" /\ x.attempts < MaxAttempts
  /\ call' = [call EXCEPT ![g.c].attempts = @ + 1, ![g.c].inDistribution = TRUE,
                          ![g.c].user = g.user, ![g.c].leg = leg]
  /\ Becomes(g, {[g EXCEPT !.at = "map", !.leg = leg]})
  /\ overlapped' = overlapped \cup {h.c : h \in {h \in gos : h.c = g.c /\ h.at = "teardown"}}
  /\ UNCHANGED <<manager, timers, logged, asterisk, aid, offers, failed, kept>>

AddAgentCallMap(g) ==
  /\ g.at = "map"
  /\ agentMap' = agentMap \cup {g.leg}
  /\ Goto(g, "originate")
  /\ UNCHANGED <<call, calls, outChannels, timers, logged, asterisk, world>>

Originate(g) ==
  /\ g.at = "originate"
  /\ legCh' = [legCh EXCEPT ![g.leg] = "dialing"]
  /\ Return(g)
  /\ UNCHANGED <<call, manager, timers, logged, clientCh, bridge, world>>

\* Originate returns an error; the channel may exist all the same.
OriginateFails(g) ==
  /\ g.at = "originate"
  /\ \/ UNCHANGED legCh
     \/ OriginateMayBeLost /\ legCh' = [legCh EXCEPT ![g.leg] = "dialing"]
  /\ Goto(g, "reset")
  /\ UNCHANGED <<call, manager, timers, logged, clientCh, bridge, world>>

\* hangupChannel(call.ChannelId), after MaxAttemptReached or the queue timeout.
HangupClient(g) ==
  /\ g.at = "hangup"
  /\ ClientGone(g.c)
  /\ Becomes(g, ClientEndEvent(g.c))
  /\ UNCHANGED <<call, manager, timers, logged, legCh, bridge, world>>

HangupClientFails(g) == g.at = "hangup" /\ CallerKept(g) /\ UNCHANGED call

OfferStep(g) ==
  /\ g.f = "offer"
  /\ \/ OfferLookup(g) \/ NoQueueForOffer(g) \/ OfferIgnored(g) \/ OfferDismissed(g) \/ OfferBeyondLimit(g)
     \/ OfferTaken(g) \/ AddAgentCallMap(g) \/ Originate(g) \/ OriginateFails(g)

-----------------------------------------------------------------------------
(* reSetupCallForQueue, also the tail of terminateCall: tear down what the  *)
(* call was connected to.                                                   *)

\* Mutant: the copy is taken after the fields are cleared.
ResetCall_CopyTooLate(g) ==
  /\ g.at = "reset"
  /\ call' = [call EXCEPT ![g.c].state = "InQueue", ![g.c].inDistribution = FALSE,
                          ![g.c].user = NoUser, ![g.c].leg = NoLeg,
                          ![g.c].bridge = FALSE, ![g.c].bridged = NoLeg]
  /\ Goto(g, "teardown")
  /\ UNCHANGED <<manager, timers, logged, asterisk, world>>

\* Mutant: IsCallInDistribution is not cleared.
ResetCall_StillInDistribution(g) ==
  /\ g.at = "reset"
  /\ call' = [call EXCEPT ![g.c].state = "InQueue",
                          ![g.c].user = NoUser, ![g.c].leg = NoLeg,
                          ![g.c].bridge = FALSE, ![g.c].bridged = NoLeg]
  /\ Becomes(g, {[g EXCEPT !.at = "teardown", !.copy = CopyOf(g.c)]})
  /\ UNCHANGED <<manager, timers, logged, asterisk, world>>

ResetCall(g) ==
  /\ g.at = "reset"
  /\ call' = [call EXCEPT ![g.c].state = "InQueue", ![g.c].inDistribution = FALSE,
                          ![g.c].user = NoUser, ![g.c].leg = NoLeg,
                          ![g.c].bridge = FALSE, ![g.c].bridged = NoLeg]
  /\ Becomes(g, {[g EXCEPT !.at = "teardown", !.copy = CopyOf(g.c)]})
  /\ UNCHANGED <<manager, timers, logged, asterisk, world>>

\* terminateBridge and hangupChannel for what the copy names.  Each of these requests
\* may fail, and its error is logged: the legs in K and the bridge are still there.
TearDown(g) ==
  LET H == {g.copy.bridged, g.copy.leg} \cap Legs IN
  /\ g.at = "teardown"
  /\ \E K \in SUBSET {l \in H : Alive(l)}, bridgeKept \in BOOLEAN :
       /\ bridgeKept => g.copy.bridge /\ bridge[g.c].up
       /\ bridge' = IF g.copy.bridge /\ ~bridgeKept THEN [bridge EXCEPT ![g.c] = NoBridge] ELSE bridge
       /\ LegsGone(H \ K)
       /\ \E unanswered \in SUBSET DialFailures(H \ K) :
            Becomes(g, {[g EXCEPT !.at = "unmap"]} \cup LegEndEvents(H \ K) \cup unanswered)
       /\ kept' = kept \cup K
       /\ failed' = failed \cup (IF bridgeKept THEN {<<"bridge", g.c>>} ELSE {})
  /\ UNCHANGED <<call, manager, timers, logged, clientCh, aid, offers, overlapped>>

\* RemoveOutBoundCall and RemoveAgentCallMap.
Unmap(g) ==
  /\ g.at = "unmap"
  /\ outChannels' = outChannels \ {g.copy.bridged}
  /\ agentMap' = agentMap \ {g.copy.leg}
  /\ Goto(g, IF g.f = "clientLeave" THEN "log" ELSE "rejected")
  /\ UNCHANGED <<call, calls, timers, logged, asterisk, world>>

\* Mutant: the call is put back and AID is not told.
PublishRejected_Silent(g) ==
  /\ g.at = "rejected"
  /\ Return(g)
  /\ UNCHANGED <<call, manager, timers, logged, asterisk, world>>

\* go sendInteractionStateMessage(Rejected), and a second one of
\* onOutboundChannelNoAnswer that leaves the user name open.
PublishRejected(g) ==
  /\ g.at = "rejected"
  /\ Becomes(g, {Message(g, "Rejected", g.copy.user)}
                \cup IF g.f = "noAnswer"
                     THEN {[Message(g, "Rejected", NoUser) EXCEPT !.f = "messageAgain"]}
                     ELSE {})
  /\ UNCHANGED <<call, manager, timers, logged, asterisk, world>>

ReSetupStep(g) ==
  \/ ResetCall(g) \/ TearDown(g) \/ Unmap(g) \/ PublishRejected(g)

\* sendInteractionStateMessage: a caller that leaves the agent open gets the
\* ConnectedUserName of the call when the goroutine runs.
NamedUser(g) == IF g.user = NoUser THEN call[g.c].user ELSE g.user

Send(g) ==
  /\ g.at = "send"
  /\ aid' = [aid EXCEPT ![g.c] = [state |-> g.arg, user |-> NamedUser(g)]]
  /\ Return(g)
  /\ UNCHANGED <<call, manager, timers, logged, asterisk, offers, overlapped, failed, kept>>

SendFails(g) == g.at = "send" /\ MessageLost(g)

-----------------------------------------------------------------------------
(* onOutboundChannelEnter and bridgeCall. *)

\* GetClientCallByAgentCall, for the three handlers of agent channels.
LegLookup(g, found) ==
  /\ g.at = "lookup"
  /\ IF FoundByLeg(g.leg) THEN Goto(g, found) ELSE Return(g)
  /\ UNCHANGED <<call, manager, timers, logged, asterisk, world>>

\* h.Hangup() of a second leg fails, for a leg that has left or that stays: return.
LateAgentGone(g) ==
  /\ g.at = "lock"
  /\ call[g.c].state = "Bridged"
  /\ Return(g)
  /\ kept' = kept \cup {l \in {g.leg} : Alive(l)}
  /\ UNCHANGED <<call, manager, timers, logged, asterisk, aid, offers, overlapped, failed>>

\* Mutant: the waiting actions of the call are not cancelled.
AgentJoins_TimerKept(g) ==
  LET late == IF call[g.c].state = "Bridged" THEN {g.leg} ELSE {} IN
  /\ g.at = "lock"
  /\ late # {} => legCh[g.leg] = "stasis"
  /\ LegsGone(late)
  /\ call' = [call EXCEPT ![g.c].state = "Bridged", ![g.c].handled = TRUE]
  /\ Becomes(g, {[g EXCEPT !.f = "bridge", !.at = "set"]} \cup LegEndEvents(late))
  /\ UNCHANGED <<manager, timers, logged, clientCh, bridge, world>>

\* An agent has answered.  The leg of a call that is bridged already is hung up,
\* and is bridged all the same.  cancelCallActions is inside the section.
AgentJoins(g) ==
  LET late == IF call[g.c].state = "Bridged" THEN {g.leg} ELSE {} IN
  /\ g.at = "lock"
  /\ late # {} => legCh[g.leg] = "stasis"
  /\ LegsGone(late)
  /\ call' = [call EXCEPT ![g.c].state = "Bridged", ![g.c].handled = TRUE]
  /\ timers' = timers \ {g.c}
  /\ Becomes(g, {[g EXCEPT !.f = "bridge", !.at = "set"]} \cup LegEndEvents(late))
  /\ UNCHANGED <<manager, logged, clientCh, bridge, world>>

AgentEnterStep(g) ==
  /\ g.f = "agentEnter"
  /\ LegLookup(g, "lock") \/ LateAgentGone(g) \/ AgentJoins(g)

SetBridged(g) ==
  /\ g.at = "set"
  /\ call' = [call EXCEPT ![g.c].bridge = TRUE, ![g.c].bridged = g.leg, ![g.c].leg = g.leg]
  /\ Goto(g, "createBridge")
  /\ UNCHANGED <<manager, timers, logged, asterisk, world>>

\* Creating a bridge that exists returns it.  Each request of bridgeCall may fail.
CreateBridge(g) ==
  /\ g.at = "createBridge"
  /\ \/ bridge' = [bridge EXCEPT ![g.c].up = TRUE] /\ Goto(g, "addClient")
     \/ Goto(g, "reset") /\ UNCHANGED bridge
  /\ UNCHANGED <<call, manager, timers, logged, clientCh, legCh, world>>

AddClient(g) ==
  /\ g.at = "addClient"
  /\ \/ /\ bridge[g.c].up /\ clientCh[g.c] = "stasis"
        /\ bridge' = [bridge EXCEPT ![g.c].client = TRUE]
        /\ Goto(g, "addLeg")
     \/ Goto(g, "reset") /\ UNCHANGED bridge
  /\ UNCHANGED <<call, manager, timers, logged, clientCh, legCh, world>>

AddLeg(g) ==
  /\ g.at = "addLeg"
  /\ \/ /\ bridge[g.c].up /\ legCh[g.leg] = "stasis"
        /\ bridge' = [bridge EXCEPT ![g.c].legs = @ \cup {g.leg}]
        /\ Goto(g, "outbound")
     \/ Goto(g, "reset") /\ UNCHANGED bridge
  /\ UNCHANGED <<call, manager, timers, logged, clientCh, legCh, world>>

AddOutBoundCall(g) ==
  /\ g.at = "outbound"
  /\ outChannels' = outChannels \cup {g.leg}
  /\ Goto(g, "setvar")
  /\ UNCHANGED <<call, calls, agentMap, timers, logged, asterisk, world>>

SetMemberVariable(g) ==
  /\ g.at = "setvar"
  /\ (clientCh[g.c] = "stasis" /\ Goto(g, "accept")) \/ Goto(g, "reset")
  /\ UNCHANGED <<call, manager, timers, logged, asterisk, world>>

\* go sendInteractionStateMessage(Accepted, call.ConnectedUserName)
PublishAccepted(g) ==
  /\ g.at = "accept"
  /\ Becomes(g, {Message(g, "Accepted", call[g.c].user)})
  /\ UNCHANGED <<call, manager, timers, logged, asterisk, world>>

BridgeStep(g) ==
  /\ g.f = "bridge"
  /\ \/ SetBridged(g) \/ CreateBridge(g) \/ AddClient(g) \/ AddLeg(g)
     \/ AddOutBoundCall(g) \/ SetMemberVariable(g) \/ PublishAccepted(g)

-----------------------------------------------------------------------------
(* onOutboundChannelNoAnswer and onOutboundChannelLeave. *)

NoAnswerStep(g) ==
  /\ g.f = "noAnswer"
  /\ LegLookup(g, "reset")

\* Mutant: the agent leaves and the caller's channel is kept.
AgentLeft_CallerKept(g) ==
  /\ g.at = "lock"
  /\ call' = [call EXCEPT ![g.c] = IF @.state = "Terminated" THEN @ ELSE WithReason(@, "AgentHangup")]
  /\ Return(g)
  /\ UNCHANGED <<manager, timers, logged, asterisk, world>>

\* The agent's channel is gone: unless the call is terminated, it is given a
\* reason and its caller is hung up.
AgentLeft(g) ==
  LET ended == call[g.c].state = "Terminated" IN
  /\ g.at = "lock"
  /\ call' = [call EXCEPT ![g.c] = IF ended THEN @ ELSE WithReason(@, "AgentHangup")]
  /\ IF ended THEN Return(g) /\ UNCHANGED clientCh
     ELSE Becomes(g, ClientEndEvent(g.c)) /\ ClientGone(g.c)
  /\ UNCHANGED <<manager, timers, logged, legCh, bridge, world>>

AgentLeftFails(g) ==
  /\ g.at = "lock" /\ call[g.c].state # "Terminated"
  /\ call' = [call EXCEPT ![g.c] = WithReason(@, "AgentHangup")]
  /\ CallerKept(g)

AgentLeaveStep(g) ==
  /\ g.f = "agentLeave"
  /\ LegLookup(g, "lock") \/ AgentLeft(g) \/ AgentLeftFails(g)

-----------------------------------------------------------------------------
(* onClientChannelLeave and terminateCall. *)

\* GetCall; the call is locked and its state decides the reason.
ClientLeft(g) ==
  /\ g.at = "lookup"
  /\ IF g.c \in calls THEN Goto(g, "lock") ELSE Return(g)
  /\ UNCHANGED <<call, manager, timers, logged, asterisk, world>>

ReasonOfLeave(g) ==
  LET reason == IF call[g.c].state = "Bridged" THEN "Abandon" ELSE "ClientHangup" IN
  /\ g.at = "lock"
  /\ Becomes(g, {[g EXCEPT !.at = "terminate", !.arg = reason]})
  /\ UNCHANGED <<call, manager, timers, logged, asterisk, world>>

\* The first section of terminateCall; a call that is terminated is left alone.
AlreadyTerminated(g) ==
  /\ g.at = "terminate" /\ call[g.c].state = "Terminated"
  /\ Return(g)
  /\ UNCHANGED <<call, manager, timers, logged, asterisk, world>>

Terminate(g) ==
  /\ g.at = "terminate" /\ call[g.c].state # "Terminated"
  /\ call' = [call EXCEPT ![g.c].state = "Terminated",
                          ![g.c].reason = IF @ = NoReason THEN g.arg ELSE @]
  /\ Becomes(g, {[g EXCEPT !.at = "cancel", !.copy = CopyOf(g.c)]})
  /\ UNCHANGED <<manager, timers, logged, asterisk, world>>

\* CancelByCallID of terminateCall and of the queue timeout.
CancelTimer(g) ==
  /\ g.at = "cancel"
  /\ timers' = timers \ {g.c}
  /\ Goto(g, IF g.f = "timeout" THEN "hangup" ELSE "teardown")
  /\ UNCHANGED <<call, manager, logged, asterisk, world>>

\* Mutant: LogOnTerminate returns before the row is written.
LogOnTerminate_Skipped(g) ==
  /\ g.at = "log"
  /\ Goto(g, "remove")
  /\ UNCHANGED <<call, manager, timers, logged, asterisk, world>>

\* The row is written with the fields of the call as they are now.
LogOnTerminate(g) ==
  /\ g.at = "log"
  /\ logged' = [logged EXCEPT ![g.c] = call[g.c].reason]
  /\ Goto(g, "remove")
  /\ UNCHANGED <<call, manager, timers, asterisk, world>>

\* InsertQueueLog fails: the error is logged, and terminateCall goes on.
LogOnTerminateFails(g) ==
  /\ g.at = "log"
  /\ Fails("row", g.c)
  /\ Goto(g, "remove")
  /\ UNCHANGED <<call, manager, timers, logged, asterisk, aid, offers, overlapped, kept>>

\* Mutant: the call stays in cm.calls.
RemoveCall_Kept(g) ==
  /\ g.at = "remove"
  /\ Becomes(g, {Message(g, "Terminated", g.copy.user)})
  /\ UNCHANGED <<call, manager, timers, logged, asterisk, world>>

\* RemoveCall, and go sendInteractionStateMessage(Terminated).
RemoveCall(g) ==
  /\ g.at = "remove"
  /\ calls' = calls \ {g.c}
  /\ Becomes(g, {Message(g, "Terminated", g.copy.user)})
  /\ UNCHANGED <<call, agentMap, outChannels, timers, logged, asterisk, world>>

ClientLeaveStep(g) ==
  /\ g.f = "clientLeave"
  /\ \/ ClientLeft(g) \/ ReasonOfLeave(g) \/ AlreadyTerminated(g) \/ Terminate(g)
     \/ LogOnTerminate(g) \/ LogOnTerminateFails(g) \/ RemoveCall(g)

-----------------------------------------------------------------------------
(* runActionQueueTimeOut *)

TimeoutLookup(g) ==
  /\ g.at = "lookup"
  /\ IF g.c \in calls THEN Goto(g, "lock") ELSE Return(g)
  /\ UNCHANGED <<call, manager, timers, logged, asterisk, world>>

TimeoutReached(g) ==
  LET waiting == call[g.c].state = "InQueue" IN
  /\ g.at = "lock"
  /\ call' = [call EXCEPT ![g.c] = IF waiting THEN WithReason(@, "QueueWaitTimeReached") ELSE @]
  /\ IF waiting THEN Goto(g, "cancel") ELSE Return(g)
  /\ UNCHANGED <<manager, timers, logged, asterisk, world>>

TimeoutStep(g) ==
  /\ g.f = "timeout"
  /\ TimeoutLookup(g) \/ TimeoutReached(g)

-----------------------------------------------------------------------------
\* GetQueueByName fails in LogOnTerminate, or in stopMoh on behalf of an agent that
\* answers or of the queue timeout: the nil queue is dereferenced, which ends the process.
Panic ==
  /\ \E g \in gos : <<g.f, g.at>> \in {<<"clientLeave", "log">>, <<"agentEnter", "lock">>,
                                        <<"timeout", "hangup">>}
  /\ down' = TRUE
  /\ UNCHANGED <<call, manager, timers, gos, logged, asterisk, world>>

Step(g) ==
  \/ EnterStep(g) \/ OfferStep(g) \/ AgentEnterStep(g) \/ BridgeStep(g) \/ NoAnswerStep(g)
  \/ AgentLeaveStep(g) \/ ClientLeaveStep(g) \/ TimeoutStep(g)
  \/ ReSetupStep(g) \/ CancelTimer(g) \/ HangupClient(g) \/ HangupClientFails(g)
  \/ Send(g) \/ SendFails(g)

Engine == ~down /\ \E g \in gos : Step(g) /\ UNCHANGED down

Next ==
  \/ ~down /\ World /\ UNCHANGED down
  \/ Engine
  \/ ~down /\ Panic

Spec == Init /\ [][Next]_vars

\* A goroutine that can move is eventually scheduled: the mutexes are held for
\* finite sections and Asterisk answers every request, if only with an error.  A call
\* makes finitely many steps, so it is enough that the engine moves whenever one of
\* them can.  Callers, agents, AID and the clock owe nothing.
FairSpec == Spec /\ WF_vars(Engine \/ (~down /\ Panic))

-----------------------------------------------------------------------------
(* Properties.  A call is quiet when no event, message or request about it is *)
(* being handled: what must be true then, no later step of the engine repairs. *)

Quiet(c) == \A g \in gos : g.c # c

\* A call that is marked as being in distribution has a leg that still rings:
\* otherwise every later offer is ignored (call.go:274) and the caller waits for
\* an attempt that is over.
OfferNotStuck ==
  \A c \in calls :
    Quiet(c) /\ call[c].state = "InQueue" /\ call[c].inDistribution =>
      call[c].leg \in {l \in Legs : legCh[l] = "dialing"}

\* A waiting call that is not being offered is known to AID as waiting, so that it
\* is offered again: an attempt that failed is always followed by a Rejected of
\* reSetupCallForQueue, which is neither forgotten nor overtaken by an Accepted.  It
\* is lost to AID only where the code does not repair an error: a message that was not
\* published (redis.go:193), a queue that was not found (call.go:65, call.go:258), a
\* caller who was to be hung up and was not (call.go:399).
LostToAid(c) == \E request \in {"publish", "queue", "hangup"} : Failed(request, c)
AidKnowsWaitingCall ==
  \A c \in calls :
    Quiet(c) /\ call[c].state = "InQueue" /\ ~call[c].inDistribution
             /\ clientCh[c] = "stasis" /\ ~LostToAid(c) =>
      aid[c].state \in {"New", "Rejected", "Dismissed"}

\* The caller and an agent of a bridged call are in its bridge, unless the call took
\* an offer while reSetupCallForQueue had not yet torn down the attempt before
\* (handlers.ari.go:202-211), or a request to hang up the caller failed (call.go:399).
CallerNotAlone ==
  \A c \in Calls \ overlapped :
    Quiet(c) /\ call[c].state = "Bridged" /\ clientCh[c] = "stasis" /\ ~Failed("hangup", c) =>
      /\ bridge[c].up /\ bridge[c].client
      /\ \E l \in bridge[c].legs : legCh[l] = "stasis"

\* No bridge outlives its call, however bridgeCall and terminateCall interleave
\* (handlers.ari.go:120-177, call.go:122-160), but one whose deletion failed
\* (call.go:416).
NoOrphanBridge ==
  \A c \in Calls :
    Quiet(c) /\ clientCh[c] = "gone" /\ ~Failed("bridge", c) => ~bridge[c].up

\* At most one agent rings or talks for a call, not counting legs that a goroutine
\* is about to hang up (call.go:274, handlers.ari.go:184-219) or that outlived such a
\* request (call.go:399), when a failed Originate leaves no channel.
LiveLegs(c) == {l \in Legs : l[1] = c /\ Alive(l)}
Doomed(l) ==
  \/ l \in kept
  \/ \E g \in gos : g.at = "teardown" /\ l \in {g.copy.leg, g.copy.bridged}
OneLiveLeg ==
  \A c \in Calls : \A k, l \in LiveLegs(c) : k = l \/ Doomed(k) \/ Doomed(l)

\* While a call is bridged its agent channel is not exchanged for another one
\* (BridgedChannel, handlers.ari.go:124), when a failed Originate leaves no channel.
BridgedLegKept ==
  [][\A c \in Calls :
        call[c].state = "Bridged" /\ call'[c].state = "Bridged" /\ call[c].bridged # NoLeg =>
          call'[c].bridged = call[c].bridged]_vars

\* The Accepted that AID receives names the agent whose channel is bridged, although
\* ConnectedUserName is read without the lock and later than the bridge was made
\* (handlers.ari.go:114).
AcceptedNamesAgent ==
  [][\A c \in Calls : aid'[c] # aid[c] /\ aid'[c].state = "Accepted" =>
        call[c].bridged # NoLeg /\ aid'[c].user = call[c].bridged[2]]_vars

\* A waiting call with a queue timeout that no agent has answered has the timeout
\* pending, or else it has a reason to end: it cannot wait without limit, but where
\* the queue was not found (call.go:65).
TimeoutArmed ==
  \A c \in calls \cap TimedCalls :
    Quiet(c) /\ call[c].state = "InQueue" /\ ~call[c].handled /\ call[c].reason = NoReason
             /\ ~Failed("queue", c) =>
      c \in timers

\* A call that talks to an agent has no timeout pending: the one of
\* queueProcessStart is cancelled before the call is bridged, never scheduled after.
TalkingNotTimed ==
  \A c \in calls : Quiet(c) /\ call[c].state = "Bridged" => c \notin timers

\* A call leaves cm.calls only when its caller is gone and its queue-log row is
\* written, or the one attempt to insert it has failed (call.go:171-173, call.go:627).
RemovedWithRow ==
  [][\A c \in calls \ calls' :
        clientCh[c] = "gone" /\ (logged'[c] # NoReason \/ Failed("row", c))]_vars

\* A registered call whose caller goes away is removed, unless the process dies.  (A
\* caller that goes away before AddCall is not covered: handlers.ari.go:39.)
EndedCallRemoved ==
  \A c \in Calls :
    []((c \in calls /\ clientCh[c] = "stasis") =>
         [](clientCh[c] = "gone" => <>(c \notin calls \/ down)))

\* A call that has been given a termination reason loses its caller, unless the hangup
\* fails: the reason is set in one critical section and the hangup is requested after it
\* (call.go:281-287, call.go:399).
ReasonEndsCall ==
  \A c \in Calls :
    (call[c].reason # NoReason) ~> (clientCh[c] = "gone" \/ Failed("hangup", c) \/ down)

\* Through all interleavings of the handlers a call keeps the promise of CallOffer:
\* the attempts, one at a time and counted, the legs they ring, the bridged channel
\* and the agent AID was told of go together (call.go:269-384, handlers.ari.go:60-230),
\* when a failed Originate leaves no channel.
Offering ==
  INSTANCE CallOffer WITH
    attempt <- [c \in Calls |-> IF call[c].inDistribution THEN call[c].leg ELSE NoLeg],
    tries <- [c \in Calls |-> call[c].attempts],
    connected <- [c \in Calls |-> call[c].bridged # NoLeg],
    phone <- legCh,
    accepted <- [c \in Calls |-> IF aid[c].state = "Accepted" THEN aid[c].user ELSE NoUser]
ImplementsCallOffer == Offering!Spec

\* Through all interleavings of the handlers the course of a call is the one of CallFate,
\* on which Announce relies as well: queueProcessStart decides on the queue timeout before
\* an agent can answer and nothing renews it (call.go:58-69), and terminateCall does its
\* work once, for a call whose caller has left (handlers.ari.go:28-57, call.go:122-176).
Undecided(c) ==
  clientCh[c] = "none" \/ \E g \in gos : g.c = c /\ g.f = "enter" /\ g.at # "publish"
EndToCome(c) ==
  \E g \in gos : g.c = c /\ g.f = "clientLeave" /\ g.at \in {"lookup", "lock", "terminate"}
Fate ==
  INSTANCE CallFate WITH
    phase <- [c \in Calls |-> call[c].state],
    timer <- [c \in Calls |-> IF c \in timers THEN "pending"
                              ELSE IF Undecided(c) THEN "undecided" ELSE "off"],
    caller <- [c \in Calls |-> IF clientCh[c] # "gone" THEN "here"
                               ELSE IF EndToCome(c) THEN "left" ELSE "over"]
ImplementsCallFate == Fate!Spec

-----------------------------------------------------------------------------
(* What comments and messages of the source say and the code does not do. *)

\* handlers.ari.go:181 "return nil // Basarili" (successful): when bridgeCall has
\* succeeded and neither side has left, caller and agent are in the bridge.
BridgedCallIsBridged ==
  \A c \in Calls :
    Quiet(c) /\ call[c].state = "Bridged" /\ clientCh[c] = "stasis" =>
      bridge[c].up /\ bridge[c].client

\* call.go:275 "Got new distribution request while executing the previous one.
\* Ignoring...": no distribution message begins an attempt while an agent of an earlier
\* one rings or talks, legs aside that are about to be hung up.  It does where a failed
\* Originate leaves a channel (OneLiveLeg).
IgnoredWhileExecuting ==
  [][\A c \in Calls : call'[c].attempts # call[c].attempts => \A l \in LiveLegs(c) : Doomed(l)]_vars
=============================================================================

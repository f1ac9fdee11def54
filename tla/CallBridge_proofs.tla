-------------------------- MODULE CallBridge_proofs --------------------------
(***************************************************************************)
(* What every attempt leaves behind, for every set of calls and agents and *)
(* every limit: NoOrphanBridge, OfferNotStuck, AidKnowsWaitingCall and     *)
(* CallerNotAlone, as long as a failed Originate leaves no channel.  Each  *)
(* speaks of a call that nothing is in flight about; what makes it true is *)
(* which goroutine still has to undo, to tell or to set up what the call   *)
(* lacks, and that one always becomes another until the work is done.      *)
(* The module has first who changes what and where goroutines come from,   *)
(* and then one invariant for each: LeaveInv, OwnInv, WaitInv, TalkInv.    *)
(* Last, from OfferInv, that the handlers together implement CallOffer,    *)
(* and from CourseInv that they implement CallFate, whatever a failed      *)
(* Originate leaves.                                                       *)
(***************************************************************************)
EXTENDS CallAttempt_proofs

-----------------------------------------------------------------------------
(* Who changes what. *)

\* A goroutine makes a step of its handler, or of what several handlers share.
LEMMA HandlerOf ==
  ASSUME TimerInv, NEW g \in gos, Step(g)
  PROVE  /\ g.f = "enter" => EnterStep(g)
         /\ g.f = "offer" => \/ OfferStep(g) \/ HangupClient(g) \/ HangupClientFails(g)
                             \/ ReSetupStep(g)
         /\ g.f = "agentEnter" => AgentEnterStep(g)
         /\ g.f = "bridge" => BridgeStep(g) \/ ReSetupStep(g)
         /\ g.f = "noAnswer" => NoAnswerStep(g) \/ ReSetupStep(g)
         /\ g.f = "agentLeave" => AgentLeaveStep(g)
         /\ g.f = "clientLeave" => ClientLeaveStep(g) \/ CancelTimer(g) \/ TearDown(g) \/ Unmap(g)
         /\ g.f = "timeout" => \/ TimeoutStep(g) \/ CancelTimer(g) \/ HangupClient(g)
                               \/ HangupClientFails(g)
         /\ g.f \in Sending => Send(g) \/ SendFails(g)
<1>1. InPlace(g)
  BY TimerFacts
<1>2. g.f = "clientLeave" => ClientLeaveStep(g) \/ CancelTimer(g) \/ TearDown(g) \/ Unmap(g)
  BY EndingSteps, TimerFacts
<1>3. /\ ReSetupStep(g) => g.at \in ReSetup
      /\ CancelTimer(g) => g.at = "cancel"
      /\ HangupClient(g) \/ HangupClientFails(g) => g.at = "hangup"
      /\ Send(g) \/ SendFails(g) => g.at = "send"
  BY DEF ReSetupStep, ResetCall, TearDown, Unmap, PublishRejected, ReSetup, CancelTimer,
     HangupClient, HangupClientFails, Send, SendFails
<1>4. /\ EnterStep(g) => g.f = "enter"
      /\ OfferStep(g) => g.f = "offer"
      /\ AgentEnterStep(g) => g.f = "agentEnter"
      /\ BridgeStep(g) => g.f = "bridge"
      /\ NoAnswerStep(g) => g.f = "noAnswer"
      /\ AgentLeaveStep(g) => g.f = "agentLeave"
      /\ ClientLeaveStep(g) => g.f = "clientLeave"
      /\ TimeoutStep(g) => g.f = "timeout"
  BY DEF EnterStep, OfferStep, AgentEnterStep, BridgeStep, NoAnswerStep, AgentLeaveStep,
     ClientLeaveStep, TimeoutStep
<1>5. g.f = "enter" => EnterStep(g)
  BY <1>1, <1>3, <1>4 DEF Step, InPlace, ReSetup
<1>6. g.f \in {"agentEnter", "agentLeave"} => AgentEnterStep(g) \/ AgentLeaveStep(g)
  BY <1>1, <1>3, <1>4 DEF Step, InPlace, ReSetup
<1>7. g.f \in Sending => Send(g) \/ SendFails(g)
  BY <1>1, <1>3, <1>4 DEF Step, InPlace, ReSetup, Sending
<1>8. g.f \in {"offer", "bridge", "noAnswer", "timeout"} =>
        /\ ~Send(g) /\ ~SendFails(g)
        /\ g.f # "timeout" => ~CancelTimer(g)
        /\ g.f \in {"bridge", "noAnswer"} => ~HangupClient(g) /\ ~HangupClientFails(g)
        /\ g.f = "timeout" => ~ReSetupStep(g)
  BY <1>1, <1>3 DEF InPlace, ReSetup
<1>9. QED
  BY <1>2, <1>4, <1>5, <1>6, <1>7, <1>8 DEF Step

\* What follows from the step of a goroutine follows from every step, if it follows
\* when the data stays and from what happens in the outside world.
LEMMA EveryStep ==
  ASSUME [Next]_vars
  PROVE  \/ World
         \/ \E g \in gos : Step(g)
         \/ UNCHANGED <<call, calls, agentMap, gos, clientCh, legCh, bridge, aid, overlapped,
                        failed>>
BY DEF Next, Engine, Panic, vars, manager, asterisk, world

\* A request that has failed stays in the history.
LEMMA HistoryGrows ==
  ASSUME [Next]_vars
  PROVE  failed \subseteq failed'
BY EveryStep, FailuresStay, WorldFails

\* The outside world changes no call and no map.
LEMMA OfWorld ==
  ASSUME World
  PROVE  UNCHANGED <<call, calls, agentMap, bridge, overlapped>> /\ gos \subseteq gos'
BY DEF World, ClientEnters, ClientHangsUp, TimerFires, AgentAnswers, AgentFails, AgentHangsUp,
   Distribute, manager, asterisk, world

\* A step takes no other goroutine out of flight.
LEMMA OthersGoOn ==
  ASSUME NEW g \in gos, Step(g)
  PROVE  gos \ {g} \subseteq gos'
<1>1. GivesUp(g) \/ TearDown(g) => gos \ {g} \subseteq gos'
  BY DEF GivesUp, TearDown, Return, Becomes
<1>2. GivesUp(g) \/ TearDown(g) \/ \E G : Becomes(g, G)
  BY FailureGivesUp DEF Step, EnterStep, RejectSetup, RegisterCall, QueueProcessStart, ScheduleTimeout,
     PublishNew, OfferStep, OfferLookup, OfferIgnored, OfferDismissed, OfferBeyondLimit,
     OfferTaken, AddAgentCallMap, Originate, OriginateFails, AgentEnterStep, LegLookup,
     LateAgentGone, AgentJoins, BridgeStep, SetBridged, CreateBridge, AddClient, AddLeg,
     AddOutBoundCall, SetMemberVariable, PublishAccepted, NoAnswerStep, AgentLeaveStep, AgentLeft,
     AgentLeftFails, CallerKept, ClientLeaveStep, ClientLeft, ReasonOfLeave, AlreadyTerminated,
     Terminate, LogOnTerminate, LogOnTerminateFails, RemoveCall, TimeoutStep, TimeoutLookup,
     TimeoutReached, ReSetupStep, ResetCall, Unmap, PublishRejected, CancelTimer, HangupClient, Send,
     Goto, Return
<1>3. QED
  BY <1>1, <1>2 DEF Becomes

\* A goroutine that is in flight no more has made the step.
LEMMA Mover ==
  ASSUME [Next]_vars, NEW w \in gos \ gos'
  PROVE  Step(w)
BY OthersGoOn, EveryStep, OfWorld

\* What the attempts, the bridge and the state of a call are.
SameAs(x, y) ==
  /\ x.state = y.state /\ x.inDistribution = y.inDistribution /\ x.attempts = y.attempts
  /\ x.leg = y.leg /\ x.bridge = y.bridge /\ x.bridged = y.bridged

\* The critical sections that change it.
Changes(g) ==
  \/ g.f = "enter" /\ QueueProcessStart(g)
  \/ g.f = "offer" /\ OfferTaken(g)
  \/ g.f = "agentEnter" /\ AgentJoins(g)
  \/ g.f = "bridge" /\ SetBridged(g)
  \/ g.f \in {"offer", "bridge", "noAnswer"} /\ ResetCall(g)
  \/ g.f = "clientLeave" /\ Terminate(g)

\* The attempt, the bridge and the state of a call change in these sections only.
LEMMA ChangesOf ==
  ASSUME TimerInv, NEW g \in gos, Step(g), NEW c \in Calls, ~SameAs(call'[c], call[c])
  PROVE  g.c = c /\ Changes(g)
<1>1. ASSUME NEW r, call' = [call EXCEPT ![g.c] = r], SameAs(r, call[g.c])
      PROVE  FALSE
  BY <1>1, TimerFacts DEF DataOK, SameAs
<1>2. call' # call
  BY DEF SameAs
<1>3. ~GivesUp(g)
  BY <1>2 DEF GivesUp
<1>4. /\ g.c \in Calls /\ call[g.c] \in Call /\ DataOK /\ InPlace(g) /\ g.f \in Handlers
  BY TimerFacts DEF Goroutine
<1>5. ASSUME EnterStep(g) PROVE Changes(g)
  BY <1>2, <1>3, <1>5, FailureGivesUp DEF EnterStep, RejectSetup, RegisterCall, QueueProcessStart, ScheduleTimeout, PublishNew, Changes
<1>6. ASSUME OfferStep(g) PROVE Changes(g)
  <2>1. ~OfferBeyondLimit(g)
    <3>1. SameAs([call[g.c] EXCEPT !.reason = "MaxAttemptReached"], call[g.c])
      BY <1>4 DEF Call, SameAs
    <3>2. QED
      BY <1>1, <3>1 DEF OfferBeyondLimit, WithReason
  <2>2. QED
    BY <1>2, <1>3, <1>6, <2>1, FailureGivesUp DEF OfferStep, OfferLookup, OfferIgnored,
       OfferDismissed, AddAgentCallMap, Originate, OriginateFails, Changes
<1>7. ASSUME AgentEnterStep(g) PROVE Changes(g)
  BY <1>2, <1>7 DEF AgentEnterStep, LegLookup, LateAgentGone, Changes
<1>8. ASSUME BridgeStep(g) PROVE Changes(g)
  BY <1>2, <1>8 DEF BridgeStep, CreateBridge, AddClient, AddLeg, AddOutBoundCall,
     SetMemberVariable, PublishAccepted, Changes
<1>9. ~NoAnswerStep(g) /\ ~AgentLeaveStep(g)
  <2>1. ASSUME AgentLeft(g) PROVE FALSE
    <3> DEFINE r == IF call[g.c].state = "Terminated" THEN call[g.c]
                    ELSE [call[g.c] EXCEPT !.reason = "AgentHangup"]
    <3>1. SameAs(r, call[g.c])
      BY <1>4 DEF Call, SameAs
    <3>2. call' = [call EXCEPT ![g.c] = r]
      BY <2>1 DEF AgentLeft, WithReason
    <3> HIDE DEF r
    <3>3. QED
      BY <1>1, <3>1, <3>2
  <2>2. ASSUME AgentLeftFails(g) PROVE FALSE
    <3>1. SameAs([call[g.c] EXCEPT !.reason = "AgentHangup"], call[g.c])
      BY <1>4 DEF Call, SameAs
    <3>2. QED
      BY <1>1, <2>2, <3>1 DEF AgentLeftFails, WithReason
  <2>3. QED
    BY <1>2, <2>1, <2>2 DEF NoAnswerStep, AgentLeaveStep, LegLookup
<1>10. ASSUME ClientLeaveStep(g) PROVE Changes(g)
  BY <1>2, <1>10 DEF ClientLeaveStep, ClientLeft, ReasonOfLeave, AlreadyTerminated, LogOnTerminate,
     LogOnTerminateFails, RemoveCall, Changes
<1>11. ~TimeoutStep(g)
  <2>1. ASSUME TimeoutReached(g) PROVE FALSE
    <3> DEFINE r == IF call[g.c].state = "InQueue"
                    THEN [call[g.c] EXCEPT !.reason = "QueueWaitTimeReached"] ELSE call[g.c]
    <3>1. SameAs(r, call[g.c])
      BY <1>4 DEF Call, SameAs
    <3>2. call' = [call EXCEPT ![g.c] = r]
      BY <2>1 DEF TimeoutReached, WithReason
    <3> HIDE DEF r
    <3>3. QED
      BY <1>1, <3>1, <3>2
  <2>2. QED
    BY <1>2, <2>1 DEF TimeoutStep, TimeoutLookup
<1>12. ASSUME ReSetupStep(g) PROVE Changes(g)
  <2>1. ResetCall(g) => g.f \in {"offer", "bridge", "noAnswer"}
    BY <1>4 DEF ResetCall, InPlace, Handlers, Ending
  <2>2. QED
    BY <1>2, <1>12, <2>1 DEF ReSetupStep, TearDown, Unmap, PublishRejected, Changes
<1>13. /\ ~CancelTimer(g) /\ ~HangupClient(g) /\ ~HangupClientFails(g)
       /\ ~Send(g) /\ ~SendFails(g)
  BY <1>2, <1>3, FailureGivesUp DEF CancelTimer, HangupClient, Send
<1>14. Changes(g)
  BY <1>5, <1>6, <1>7, <1>8, <1>9, <1>10, <1>11, <1>12, <1>13 DEF Step
<1>15. g.c = c
  <2>1. ASSUME g.c # c PROVE call'[c] = call[c]
    BY <1>4, <1>14, <2>1 DEF Changes, QueueProcessStart, OfferTaken, AgentJoins, SetBridged,
       ResetCall, Terminate, DataOK
  <2>2. QED
    BY <2>1 DEF SameAs
<1>16. QED
  BY <1>14, <1>15

\* So in a step whatever changes them.
LEMMA WhoChanges ==
  ASSUME TimerInv, [Next]_vars, NEW c \in Calls, ~SameAs(call'[c], call[c])
  PROVE  \E g \in gos : g.c = c /\ Changes(g)
<1>1. call' # call
  BY DEF SameAs
<1>2. QED
  BY <1>1, EveryStep, OfWorld, ChangesOf

\* A goroutine does nothing to the caller's channel but hang up its own.
LEMMA HangsUp ==
  ASSUME TimerInv, NEW g \in gos, Step(g), clientCh' # clientCh
  PROVE  /\ ClientGone(g.c) /\ ClientEndEvent(g.c) \subseteq gos'
         /\ UNCHANGED <<call[g.c].state, timers>>
         /\ (g.f = "enter" /\ RejectSetup(g)) \/ (g.f = "agentLeave" /\ g.at = "lock") \/ HangupClient(g)
<1>0. g.c \in Calls /\ ~GivesUp(g)
  BY TimerFacts DEF GivesUp, asterisk
<1>1. CASE EnterStep(g)
  BY <1>0, <1>1, FailureGivesUp DEF EnterStep, RejectSetup, RegisterCall, QueueProcessStart, ScheduleTimeout,
              PublishNew, asterisk, Becomes
<1>2. ~OfferStep(g)
  BY <1>0, FailureGivesUp
     DEF OfferStep, OfferLookup, OfferIgnored, OfferDismissed, OfferBeyondLimit, OfferTaken,
         AddAgentCallMap, Originate, OriginateFails, asterisk
<1>3. ~AgentEnterStep(g)
  BY DEF AgentEnterStep, LegLookup, LateAgentGone, AgentJoins, asterisk
<1>4. ~BridgeStep(g)
  BY DEF BridgeStep, SetBridged, CreateBridge, AddClient, AddLeg, AddOutBoundCall,
         SetMemberVariable, PublishAccepted, asterisk
<1>5. CASE AgentLeaveStep(g) \/ NoAnswerStep(g)
  <2>1. g.f = "agentLeave" /\ AgentLeft(g)
    BY <1>5 DEF AgentLeaveStep, NoAnswerStep, LegLookup, AgentLeftFails, CallerKept, asterisk
  <2>2. ClientGone(g.c) /\ ClientEndEvent(g.c) \subseteq gos'
    BY <2>1 DEF AgentLeft, Becomes
  <2>3. call'[g.c].state = call[g.c].state
    BY <1>0, ChangesOf, <2>1 DEF Changes, SameAs
  <2>4. QED
    BY <2>1, <2>2, <2>3 DEF AgentLeft
<1>6. ~ClientLeaveStep(g)
  BY DEF ClientLeaveStep, ClientLeft, ReasonOfLeave, AlreadyTerminated, Terminate,
         LogOnTerminate, LogOnTerminateFails, RemoveCall, asterisk
<1>7. ~TimeoutStep(g)
  BY DEF TimeoutStep, TimeoutLookup, TimeoutReached, asterisk
<1>8. ~ReSetupStep(g) /\ ~HangupClientFails(g) /\ ~SendFails(g)
  BY <1>0, FailureGivesUp
     DEF ReSetupStep, ResetCall, TearDown, Unmap, PublishRejected, asterisk
<1>9. CASE CancelTimer(g) \/ HangupClient(g) \/ Send(g)
  BY <1>9 DEF CancelTimer, HangupClient, Send, asterisk, Becomes
<1>10. QED
  BY <1>1, <1>2, <1>3, <1>4, <1>5, <1>6, <1>7, <1>8, <1>9 DEF Step

\* A channel of a caller enters or is gone, and each raises its event.
LEMMA WhoseClient ==
  ASSUME TimerInv, [Next]_vars, NEW c \in Calls, clientCh'[c] # clientCh[c]
  PROVE  \/ clientCh[c] = "none" /\ clientCh'[c] = "stasis" /\ Go("enter", "create", c) \in gos'
         \/ clientCh[c] = "stasis" /\ clientCh'[c] = "gone" /\ Go("clientLeave", "lookup", c) \in gos'
<1>0. DataOK
  BY TimerFacts
<1>1. ASSUME NEW d \in Calls, ClientGone(d), ClientEndEvent(d) \subseteq gos'
      PROVE  clientCh[c] = "stasis" /\ clientCh'[c] = "gone" /\ Go("clientLeave", "lookup", c) \in gos'
  BY <1>0, <1>1 DEF ClientGone, ClientEndEvent, DataOK
<1>2. CASE World
  <2>1. PICK d \in Calls : ClientEnters(d) \/ ClientHangsUp(d)
    BY <1>2 DEF World, TimerFires, AgentAnswers, AgentFails, AgentHangsUp, Distribute, asterisk
  <2>2. CASE ClientEnters(d)
    BY <1>0, <2>2 DEF ClientEnters, DataOK
  <2>3. CASE ClientHangsUp(d)
    BY <1>1, <2>3 DEF ClientHangsUp
  <2>4. QED
    BY <2>1, <2>2, <2>3
<1>3. QED
  BY <1>1, <1>2, HangsUp, TimerFacts, EveryStep

\* The sections and requests that touch the agents' channels.
LEMMA WhoRings ==
  ASSUME ~OriginateMayBeLost, NEW g \in gos, Step(g), legCh' # legCh
  PROVE  (g.f = "offer" /\ Originate(g)) \/ AgentJoins(g) \/ TearDown(g)
<1>0. ~GivesUp(g)
  BY DEF GivesUp, asterisk
<1>1. ~EnterStep(g)
  BY <1>0, FailureGivesUp
     DEF EnterStep, RejectSetup, RegisterCall, QueueProcessStart, ScheduleTimeout, PublishNew, asterisk
<1>2. OfferStep(g) => g.f = "offer" /\ Originate(g)
  BY <1>0, FailureGivesUp
     DEF OfferStep, OfferLookup, OfferIgnored, OfferDismissed, OfferBeyondLimit, OfferTaken,
         AddAgentCallMap, OriginateFails, asterisk
<1>3. AgentEnterStep(g) => AgentJoins(g)
  BY DEF AgentEnterStep, LegLookup, LateAgentGone, asterisk
<1>4. ~BridgeStep(g)
  BY DEF BridgeStep, SetBridged, CreateBridge, AddClient, AddLeg, AddOutBoundCall,
         SetMemberVariable, PublishAccepted, asterisk
<1>5. ~AgentLeaveStep(g) /\ ~NoAnswerStep(g)
  BY DEF AgentLeaveStep, NoAnswerStep, LegLookup, AgentLeft, AgentLeftFails, CallerKept, asterisk
<1>6. ~ClientLeaveStep(g)
  BY DEF ClientLeaveStep, ClientLeft, ReasonOfLeave, AlreadyTerminated, Terminate,
         LogOnTerminate, LogOnTerminateFails, RemoveCall, asterisk
<1>7. ~TimeoutStep(g)
  BY DEF TimeoutStep, TimeoutLookup, TimeoutReached, asterisk
<1>8. ReSetupStep(g) => TearDown(g)
  BY DEF ReSetupStep, ResetCall, Unmap, PublishRejected, asterisk
<1>9. /\ ~CancelTimer(g) /\ ~HangupClient(g) /\ ~HangupClientFails(g)
      /\ ~Send(g) /\ ~SendFails(g)
  BY <1>0, FailureGivesUp DEF CancelTimer, HangupClient, Send, asterisk
<1>10. QED
  BY <1>1, <1>2, <1>3, <1>4, <1>5, <1>6, <1>7, <1>8, <1>9 DEF Step

\* An agent's channel is dialled by Originate, and each way it ends or answers raises
\* its event, but for a ringing one that is torn down.
LEMMA WhoseLeg ==
  ASSUME TimerInv, ~OriginateMayBeLost, [Next]_vars, NEW l \in Legs, legCh'[l] # legCh[l]
  PROVE  \/ \E g \in gos : g.f = "offer" /\ Originate(g) /\ g.leg = l
         \/ legCh[l] = "dialing" /\ legCh'[l] = "stasis" /\ GoLeg("agentEnter", "lookup", l) \in gos'
         \/ legCh[l] = "dialing" /\ legCh'[l] = "gone" /\ GoLeg("noAnswer", "lookup", l) \in gos'
         \/ /\ legCh'[l] = "gone" /\ legCh[l] # "none"
            /\ legCh[l] = "stasis" => GoLeg("agentLeave", "lookup", l) \in gos'
            /\ legCh[l] # "stasis" => \E g \in gos : TearDown(g) /\ l \in {g.copy.leg, g.copy.bridged}
<1>0. DataOK
  BY TimerFacts
<1>1. ASSUME NEW H, LegsGone(H)
      PROVE  l \in H /\ legCh'[l] = "gone" /\ legCh[l] # "none" /\ legCh[l] # "gone"
  BY <1>1 DEF LegsGone
<1>2. ASSUME NEW H, l \in H, legCh[l] = "stasis", LegEndEvents(H) \subseteq gos'
      PROVE  GoLeg("agentLeave", "lookup", l) \in gos'
  BY <1>2 DEF LegEndEvents
<1>3. CASE World
  <2>1. PICK d \in Legs : AgentAnswers(d) \/ AgentFails(d) \/ AgentHangsUp(d)
    BY <1>3 DEF World, TimerFires, ClientEnters, ClientHangsUp, Distribute, asterisk
  <2>2. CASE AgentAnswers(d)
    BY <1>0, <2>2 DEF AgentAnswers, DataOK
  <2>3. CASE AgentFails(d)
    <3>1. l = d /\ legCh'[l] = "gone"
      BY <1>1, <2>3 DEF AgentFails
    <3>2. DialFailures({d}) = {GoLeg("noAnswer", "lookup", d)}
      BY <2>3 DEF AgentFails, DialFailures
    <3>3. QED
      BY <2>3, <3>1, <3>2 DEF AgentFails
  <2>4. CASE AgentHangsUp(d)
    <3>1. l = d /\ legCh'[l] = "gone"
      BY <1>1, <2>4 DEF AgentHangsUp
    <3>2. QED
      BY <1>2, <2>4, <3>1 DEF AgentHangsUp
  <2>5. QED
    BY <2>1, <2>2, <2>3, <2>4
<1>4. ASSUME NEW g \in gos, Step(g)
      PROVE  (g.f = "offer" /\ Originate(g)) \/ AgentJoins(g) \/ TearDown(g)
  BY <1>4, WhoRings
<1>5. ASSUME NEW g \in gos, Originate(g) PROVE g.leg = l
  BY <1>0, <1>5 DEF Originate, DataOK
<1>6. ASSUME NEW g \in gos, AgentJoins(g)
      PROVE  /\ legCh'[l] = "gone" /\ legCh[l] = "stasis"
             /\ GoLeg("agentLeave", "lookup", l) \in gos'
  <2>1. PICK late : /\ late \subseteq {g.leg}
                    /\ late # {} => legCh[g.leg] = "stasis"
                    /\ LegsGone(late) /\ LegEndEvents(late) \subseteq gos'
    BY <1>6 DEF AgentJoins, Becomes
  <2>2. l \in late /\ l = g.leg /\ legCh'[l] = "gone"
    BY <1>1, <2>1
  <2>3. QED
    BY <1>2, <2>1, <2>2
<1>7. ASSUME NEW g \in gos, TearDown(g)
      PROVE  /\ legCh'[l] = "gone" /\ legCh[l] # "none" /\ l \in {g.copy.leg, g.copy.bridged}
             /\ legCh[l] = "stasis" => GoLeg("agentLeave", "lookup", l) \in gos'
  <2>1. PICK H \in SUBSET Legs : /\ H \subseteq {g.copy.bridged, g.copy.leg}
                                 /\ LegsGone(H) /\ LegEndEvents(H) \subseteq gos'
    BY <1>7, TornDown
  <2>2. l \in H /\ legCh'[l] = "gone" /\ legCh[l] # "none"
    BY <1>1, <2>1
  <2>3. QED
    BY <1>2, <2>1, <2>2
<1>8. QED
  BY <1>3, <1>4, <1>5, <1>6, <1>7, EveryStep

\* Calls are added by RegisterCall and removed by RemoveCall, mappings removed by Unmap.
LEMMA WhoseMaps ==
  ASSUME TimerInv, [Next]_vars
  PROVE  /\ \A c \in calls \ calls' :
              \E g \in gos : g.c = c /\ g.f = "clientLeave" /\ RemoveCall(g)
         /\ \A c \in calls' \ calls : \E g \in gos : g.c = c /\ g.f = "enter" /\ RegisterCall(g)
         /\ \A l \in agentMap \ agentMap' : \E g \in gos : Unmap(g) /\ g.copy.leg = l
         /\ \A g \in gos : AddAgentCallMap(g) => g.leg \in agentMap'
<1>1. ASSUME NEW g \in gos, Step(g)
      PROVE  /\ calls' = calls \/ RemoveCall(g) \/ (EnterStep(g) /\ RegisterCall(g))
             /\ agentMap' = agentMap \/ Unmap(g) \/ AddAgentCallMap(g)
  <2>0. CASE GivesUp(g)
    BY <2>0 DEF GivesUp, manager
  <2>1. CASE EnterStep(g)
    BY <2>0, <2>1, FailureGivesUp
       DEF EnterStep, RejectSetup, RegisterCall, QueueProcessStart, ScheduleTimeout,
                PublishNew, manager
  <2>2. CASE OfferStep(g)
    BY <2>0, <2>2, FailureGivesUp
       DEF OfferStep, OfferLookup, OfferIgnored, OfferDismissed, OfferBeyondLimit, OfferTaken,
                AddAgentCallMap, Originate, OriginateFails, manager
  <2>3. CASE AgentEnterStep(g)
    BY <2>3 DEF AgentEnterStep, LegLookup, LateAgentGone, AgentJoins, manager
  <2>4. CASE BridgeStep(g)
    BY <2>4 DEF BridgeStep, SetBridged, CreateBridge, AddClient, AddLeg, AddOutBoundCall,
                SetMemberVariable, PublishAccepted, manager
  <2>5. CASE AgentLeaveStep(g) \/ NoAnswerStep(g)
    BY <2>5 DEF AgentLeaveStep, NoAnswerStep, LegLookup, AgentLeft, AgentLeftFails, CallerKept, manager
  <2>6. CASE ClientLeaveStep(g)
    BY <2>6 DEF ClientLeaveStep, ClientLeft, ReasonOfLeave, AlreadyTerminated, Terminate,
                      LogOnTerminate, LogOnTerminateFails, RemoveCall, manager
  <2>7. CASE TimeoutStep(g)
    BY <2>7 DEF TimeoutStep, TimeoutLookup, TimeoutReached, manager
  <2>8. CASE ReSetupStep(g)
    BY <2>8 DEF ReSetupStep, ResetCall, TearDown, Unmap, PublishRejected, manager
  <2>9. CASE CancelTimer(g) \/ HangupClient(g) \/ Send(g)
    BY <2>9 DEF CancelTimer, HangupClient, Send, manager
  <2>10. QED
    BY <1>1, FailureGivesUp, <2>0, <2>1, <2>2, <2>3, <2>4, <2>5, <2>6, <2>7, <2>8, <2>9 DEF Step
<1>2. ASSUME NEW g \in gos, RemoveCall(g) PROVE g.f = "clientLeave"
  BY <1>2 DEF RemoveCall, TimerInv, EndInv, Ends
<1>3. \A c \in calls \ calls' : \E g \in gos : g.c = c /\ g.f = "clientLeave" /\ RemoveCall(g)
  BY <1>2, OnlyRemoveCall
<1>4. \A c \in calls' \ calls : \E g \in gos : g.c = c /\ g.f = "enter" /\ RegisterCall(g)
  BY <1>1, EveryStep, OfWorld DEF RemoveCall, RegisterCall, EnterStep
<1>5. \A l \in agentMap \ agentMap' : \E g \in gos : Unmap(g) /\ g.copy.leg = l
  BY <1>1, EveryStep, OfWorld DEF Unmap, AddAgentCallMap
<1>6. \A g \in gos : AddAgentCallMap(g) => g.leg \in agentMap'
  BY DEF AddAgentCallMap
<1>7. QED
  BY <1>3, <1>4, <1>5, <1>6

\* The requests that tell AID of a call.
LEMMA WhoTells ==
  ASSUME NEW g \in gos, Step(g), aid' # aid
  PROVE  PublishNew(g) \/ Send(g)
<1>0. ~GivesUp(g)
  BY DEF GivesUp
<1>1. EnterStep(g) => PublishNew(g)
  BY <1>0, FailureGivesUp DEF EnterStep, RejectSetup, RegisterCall, QueueProcessStart, ScheduleTimeout, world
<1>2. ~OfferStep(g)
  BY <1>0, FailureGivesUp
     DEF OfferStep, OfferLookup, OfferIgnored, OfferDismissed, OfferBeyondLimit, OfferTaken,
         AddAgentCallMap, Originate, OriginateFails, world
<1>3. ~AgentEnterStep(g) /\ ~BridgeStep(g)
  BY DEF AgentEnterStep, LegLookup, LateAgentGone, AgentJoins, BridgeStep, SetBridged,
         CreateBridge, AddClient, AddLeg, AddOutBoundCall, SetMemberVariable, PublishAccepted, world
<1>4. ~NoAnswerStep(g) /\ ~AgentLeaveStep(g) /\ ~ClientLeaveStep(g) /\ ~TimeoutStep(g)
  BY DEF NoAnswerStep, AgentLeaveStep, LegLookup, AgentLeft, AgentLeftFails, CallerKept,
         ClientLeaveStep, ClientLeft, ReasonOfLeave, AlreadyTerminated, Terminate, LogOnTerminate,
         LogOnTerminateFails, RemoveCall, TimeoutStep, TimeoutLookup, TimeoutReached, world
<1>5. /\ ~ReSetupStep(g) /\ ~CancelTimer(g) /\ ~HangupClient(g)
      /\ ~HangupClientFails(g) /\ ~SendFails(g)
  BY <1>0, FailureGivesUp
     DEF ReSetupStep, ResetCall, TearDown, Unmap, PublishRejected, CancelTimer, HangupClient, world
<1>6. QED
  BY <1>1, <1>2, <1>3, <1>4, <1>5 DEF Step

\* What AID hears of a call is the New of queueProcessStart or a message, unless it
\* offers the call itself.
LEMMA WhoseAid ==
  ASSUME TimerInv, [Next]_vars, NEW c \in Calls, aid'[c] # aid[c]
  PROVE  \/ aid'[c].state = "New"
         \/ \E g \in gos : g.c = c /\ g.f \in Sending /\ Send(g) /\ aid'[c].state = g.arg
         \/ \E h \in gos' : h.c = c /\ h.f = "offer"
<1>0. DataOK
  BY TimerFacts
<1>1. CASE World
  <2>1. PICK d \in Calls, u \in Users : Distribute(d, u)
    BY <1>1 DEF World, TimerFires, ClientEnters, ClientHangsUp, AgentAnswers, AgentFails,
                AgentHangsUp, world
  <2>2. d = c
    BY <1>0, <2>1 DEF Distribute, DataOK
  <2>3. PICK h : h = [Go("offer", "lookup", c) EXCEPT !.user = u, !.n = offers[c] + 1]
    OBVIOUS
  <2>4. h.c = c /\ h.f = "offer" /\ h \in gos'
    BY <2>1, <2>2, <2>3 DEF Distribute, Go
  <2>5. QED
    BY <2>4
<1>2. ASSUME NEW g \in gos, Step(g)
      PROVE  PublishNew(g) \/ Send(g)
  BY <1>2, WhoTells
<1>3. ASSUME NEW g \in gos, PublishNew(g) PROVE aid'[c].state = "New"
  BY <1>0, <1>3, TimerFacts DEF PublishNew, DataOK
<1>4. ASSUME NEW g \in gos, Send(g) PROVE g.c = c /\ g.f \in Sending /\ aid'[c].state = g.arg
  <2>1. g.c \in Calls /\ InPlace(g) /\ g.f \in Handlers /\ g.at = "send"
    BY <1>4, TimerFacts DEF Goroutine, Send
  <2>2. g.f \in Sending
    BY <2>1 DEF InPlace, Handlers, Sending, Ending, ReSetup
  <2>3. aid' = [aid EXCEPT ![g.c] = [state |-> g.arg, user |-> NamedUser(g)]]
    BY <1>4 DEF Send
  <2>4. QED
    BY <1>0, <2>1, <2>2, <2>3 DEF DataOK
<1>5. QED
  BY <1>1, <1>2, <1>3, <1>4, EveryStep

\* A bridge is built up by bridgeCall, and only a teardown takes anything of it away.
LEMMA WhoseBridge ==
  ASSUME TimerInv, [Next]_vars, NEW c \in Calls
  PROVE  \/ /\ bridge[c].up => bridge'[c].up
            /\ bridge[c].client => bridge'[c].client
            /\ bridge[c].legs \subseteq bridge'[c].legs
            /\ bridge'[c].up /\ ~bridge[c].up =>
                 \E g \in gos : g.c = c /\ g.f = "bridge" /\ CreateBridge(g)
         \/ ~bridge'[c].up /\ \E g \in gos : g.c = c /\ TearDown(g) /\ g.copy.bridge
<1>0. DataOK /\ bridge[c] \in BridgeRecord
  BY TimerFacts DEF DataOK, BridgeRecord
<1>1. CASE bridge' = bridge
  BY <1>1
<1>2. ASSUME NEW g \in gos, Step(g), bridge' # bridge
      PROVE  (BridgeStep(g) /\ (CreateBridge(g) \/ AddClient(g) \/ AddLeg(g))) \/ TearDown(g)
  <2>0. ~GivesUp(g)
    BY <1>2 DEF GivesUp, asterisk
  <2>1. ~EnterStep(g)
    BY <1>2, <2>0, FailureGivesUp
       DEF EnterStep, RejectSetup, RegisterCall, QueueProcessStart, ScheduleTimeout, PublishNew, asterisk
  <2>2. ~OfferStep(g)
    BY <1>2, <2>0, FailureGivesUp
       DEF OfferStep, OfferLookup, OfferIgnored, OfferDismissed, OfferBeyondLimit, OfferTaken,
                AddAgentCallMap, Originate, OriginateFails, asterisk
  <2>3. ~AgentEnterStep(g)
    BY <1>2 DEF AgentEnterStep, LegLookup, LateAgentGone, AgentJoins, asterisk
  <2>4. BridgeStep(g) => CreateBridge(g) \/ AddClient(g) \/ AddLeg(g)
    BY <1>2 DEF BridgeStep, SetBridged, AddOutBoundCall, SetMemberVariable, PublishAccepted, asterisk
  <2>5. ~AgentLeaveStep(g) /\ ~NoAnswerStep(g)
    BY <1>2 DEF AgentLeaveStep, NoAnswerStep, LegLookup, AgentLeft, AgentLeftFails, CallerKept, asterisk
  <2>6. ~ClientLeaveStep(g)
    BY <1>2 DEF ClientLeaveStep, ClientLeft, ReasonOfLeave, AlreadyTerminated, Terminate,
                LogOnTerminate, LogOnTerminateFails, RemoveCall, asterisk
  <2>7. ~TimeoutStep(g)
    BY <1>2 DEF TimeoutStep, TimeoutLookup, TimeoutReached, asterisk
  <2>8. ReSetupStep(g) => TearDown(g)
    BY <1>2 DEF ReSetupStep, ResetCall, Unmap, PublishRejected, asterisk
  <2>9. /\ ~CancelTimer(g) /\ ~HangupClient(g) /\ ~HangupClientFails(g)
        /\ ~Send(g) /\ ~SendFails(g)
    BY <1>2, <2>0, FailureGivesUp DEF CancelTimer, HangupClient, Send, asterisk
  <2>10. QED
    BY <1>2, <2>1, <2>2, <2>3, <2>4, <2>5, <2>6, <2>7, <2>8, <2>9 DEF Step
<1>3. ASSUME NEW g \in gos, BridgeStep(g), CreateBridge(g) \/ AddClient(g) \/ AddLeg(g), bridge' # bridge
      PROVE  /\ bridge[c].up => bridge'[c].up
             /\ bridge[c].client => bridge'[c].client
             /\ bridge[c].legs \subseteq bridge'[c].legs
             /\ bridge'[c].up /\ ~bridge[c].up => g.c = c /\ g.f = "bridge" /\ CreateBridge(g)
  <2>1. g.c \in Calls /\ g.f = "bridge"
    BY <1>3, TimerFacts DEF BridgeStep
  <2>2. CASE CreateBridge(g)
    <3>1. bridge' = [bridge EXCEPT ![g.c].up = TRUE]
      BY <1>3, <2>2 DEF CreateBridge
    <3>2. CASE g.c # c
      BY <1>0, <3>1, <3>2 DEF DataOK
    <3>3. CASE g.c = c
      <4>1. bridge'[c] = [bridge[c] EXCEPT !.up = TRUE]
        BY <1>0, <3>1, <3>3 DEF DataOK
      <4>2. bridge'[c].up /\ bridge'[c].client = bridge[c].client /\ bridge'[c].legs = bridge[c].legs
        BY <1>0, <4>1 DEF BridgeRecord
      <4>3. QED
        BY <2>1, <2>2, <3>3, <4>2
    <3>4. QED
      BY <3>2, <3>3
  <2>3. CASE AddClient(g)
    <3>1. bridge' = [bridge EXCEPT ![g.c].client = TRUE]
      BY <1>3, <2>3 DEF AddClient
    <3>2. CASE g.c # c
      BY <1>0, <3>1, <3>2 DEF DataOK
    <3>3. CASE g.c = c
      <4>1. bridge'[c] = [bridge[c] EXCEPT !.client = TRUE]
        BY <1>0, <3>1, <3>3 DEF DataOK
      <4>2. bridge'[c].up = bridge[c].up /\ bridge'[c].client /\ bridge'[c].legs = bridge[c].legs
        BY <1>0, <4>1 DEF BridgeRecord
      <4>3. QED
        BY <4>2
    <3>4. QED
      BY <3>2, <3>3
  <2>4. CASE AddLeg(g)
    <3>1. bridge' = [bridge EXCEPT ![g.c].legs = @ \cup {g.leg}]
      BY <1>3, <2>4 DEF AddLeg
    <3>2. CASE g.c # c
      BY <1>0, <3>1, <3>2 DEF DataOK
    <3>3. CASE g.c = c
      <4>1. bridge'[c] = [bridge[c] EXCEPT !.legs = @ \cup {g.leg}]
        BY <1>0, <3>1, <3>3 DEF DataOK
      <4>2. bridge'[c].up = bridge[c].up /\ bridge'[c].client = bridge[c].client
            /\ bridge'[c].legs = bridge[c].legs \cup {g.leg}
        BY <1>0, <4>1 DEF BridgeRecord
      <4>3. QED
        BY <4>2
    <3>4. QED
      BY <3>2, <3>3
  <2>5. QED
    BY <1>3, <2>2, <2>3, <2>4
<1>4. ASSUME NEW g \in gos, TearDown(g), bridge'[c] # bridge[c]
      PROVE  ~bridge'[c].up /\ g.c = c /\ g.copy.bridge
  BY <1>0, <1>4, TimerFacts DEF TearDown, DataOK, NoBridge
<1>5. CASE bridge'[c] = bridge[c]
  BY <1>5
<1>6. QED
  BY <1>2, <1>3, <1>4, <1>5, EveryStep, OfWorld

\* An offer that is taken while an attempt is torn down is remembered.
LEMMA WhoseOverlap ==
  ASSUME [Next]_vars
  PROVE  /\ overlapped \subseteq overlapped'
         /\ \A g, h \in gos : OfferTaken(g) /\ h.c = g.c /\ h.at = "teardown" => g.c \in overlapped'
<1>0. ASSUME NEW g, GivesUp(g) \/ TearDown(g) PROVE overlapped \subseteq overlapped'
  BY <1>0 DEF GivesUp, TearDown
<1>1. ASSUME NEW g \in gos, Step(g) PROVE overlapped \subseteq overlapped'
  BY <1>0, <1>1, FailureGivesUp DEF Step, EnterStep, RejectSetup, RegisterCall, QueueProcessStart, ScheduleTimeout,
     PublishNew, OfferStep, OfferLookup, OfferIgnored, OfferDismissed, OfferBeyondLimit,
     OfferTaken, AddAgentCallMap, Originate, OriginateFails, AgentEnterStep, LegLookup,
     LateAgentGone, AgentJoins, BridgeStep, SetBridged, CreateBridge, AddClient, AddLeg,
     AddOutBoundCall, SetMemberVariable, PublishAccepted, NoAnswerStep, AgentLeaveStep, AgentLeft,
     AgentLeftFails, CallerKept, ClientLeaveStep, ClientLeft, ReasonOfLeave, AlreadyTerminated,
     Terminate, LogOnTerminate, LogOnTerminateFails, RemoveCall, TimeoutStep, TimeoutLookup,
     TimeoutReached, ReSetupStep, ResetCall, Unmap, PublishRejected, CancelTimer, HangupClient, Send,
     world
<1>2. \A g, h \in gos : OfferTaken(g) /\ h.c = g.c /\ h.at = "teardown" => g.c \in overlapped'
  BY DEF OfferTaken
<1>3. QED
  BY <1>1, <1>2, EveryStep, OfWorld

-----------------------------------------------------------------------------
(* Where goroutines come from. *)

\* h goes on with what g had.
Resumes(g, h) == h.f = g.f /\ h.c = g.c /\ h.leg = g.leg /\ h.copy = g.copy /\ h.arg = g.arg

\* A goroutine that an event or a timer starts.
Starts(h) ==
  /\ h.at \in {"create", "lookup"}
  /\ h.f \in {"agentEnter", "noAnswer", "agentLeave", "enter", "offer", "timeout", "clientLeave"}
  /\ h.f = "enter" => clientCh[h.c] = "none" /\ clientCh'[h.c] = "stasis"
  /\ h.f = "offer" => aid[h.c].state \notin {NoReason, "Terminated"}
  /\ h.f \in {"agentEnter", "noAnswer", "agentLeave"} =>
       h.leg \in Legs /\ h.c = h.leg[1] /\ legCh[h.leg] # "none"
  /\ h.f = "clientLeave" => /\ clientCh[h.c] = "stasis" /\ clientCh'[h.c] = "gone"
                            /\ h = Go("clientLeave", "lookup", h.c)
  /\ h.f = "agentEnter" => legCh[h.leg] = "dialing" /\ legCh'[h.leg] = "stasis"
  /\ h.f = "noAnswer" => legCh[h.leg] = "dialing" /\ legCh'[h.leg] = "gone"

\* A goroutine that g goes on as.
Succeeds(g, h) ==
  /\ h.c = g.c
  /\ \/ /\ Resumes(g, h) /\ h.at \notin {"create", "lookup", "map", "set", "terminate", "send"}
        /\ h.at = "teardown" => CancelTimer(g)
        /\ h.at = "unmap" => TearDown(g)
        /\ h.at = "cancel" => g.f = "timeout"
        /\ g.f = "clientLeave" /\ h.at = "lock" => ClientLeft(g)
        /\ Carries(h) => Carries(g)
        /\ h.f = "bridge" /\ h.at \in Bridging => BridgeStep(g)
     \/ OfferTaken(g) /\ g.f = "offer" /\ h.f = "offer" /\ h.at = "map"
     \/ AgentJoins(g) /\ g.f = "agentEnter" /\ h.f = "bridge" /\ h.at = "set" /\ h.leg = g.leg
     \/ ResetCall(g) /\ h.f = g.f /\ h.at = "teardown" /\ h.copy = CopyOf(g.c)
     \/ g.f = "clientLeave" /\ ReasonOfLeave(g) /\ h.f = "clientLeave" /\ h.at = "terminate"
     \/ /\ g.f = "clientLeave" /\ Terminate(g)
        /\ h.f = "clientLeave" /\ h.at = "cancel" /\ h.copy = CopyOf(g.c)
     \/ /\ h.f \in Sending /\ h.at = "send"
        /\ \/ h.arg \in {"Dismissed", "Rejected"} /\ g.f \in {"offer", "bridge", "noAnswer"}
           \/ h.arg = "Accepted" /\ g.f = "bridge" /\ PublishAccepted(g) /\ h.leg = g.leg
           \/ h.arg = "Terminated" /\ h.f = "message" /\ g.f = "clientLeave" /\ RemoveCall(g)

\* A goroutine that goes on at an ordinary step.
LEMMA GoesOnTo ==
  ASSUME NEW g \in Goroutine,
         NEW step \in Steps \ {"create", "lookup", "map", "set", "terminate", "send",
                               "teardown", "unmap", "cancel"},
         Goto(g, step) \/ Return(g), NEW h \in gos' \ gos,
         Carries([g EXCEPT !.at = step]) => Carries(g),
         g.f = "bridge" /\ step \in Bridging => BridgeStep(g),
         g.f = "clientLeave" /\ step = "lock" => ClientLeft(g)
  PROVE  Succeeds(g, h)
<1>1. h = [g EXCEPT !.at = step]
  BY DEF Goto, Return, Becomes
<1>2. Resumes(g, h) /\ h.at = step
  BY <1>1 DEF Goroutine, Resumes
<1>3. QED
  BY <1>1, <1>2 DEF Succeeds, Resumes

\* A handler that gives up starts nothing.
LEMMA GivingUpStarts ==
  ASSUME NEW g, GivesUp(g)
  PROVE  gos' \subseteq gos
BY DEF GivesUp, Return, Becomes

\* The event of a caller that is hung up starts a goroutine.
LEMMA ClientEventStarts ==
  ASSUME NEW c \in Calls, clientCh[c] = "stasis" => clientCh'[c] = "gone"
  PROVE  \A h \in ClientEndEvent(c) : Starts(h)
BY DEF ClientEndEvent, Go, Starts

\* The events of agents' channels that are hung up start goroutines.
LEMMA LegEventsStart ==
  ASSUME NEW H \in SUBSET Legs, \A l \in H : legCh[l] = "dialing" => legCh'[l] = "gone"
  PROVE  \A h \in LegEndEvents(H) \cup DialFailures(H) : Starts(h)
<1>1. ASSUME NEW l \in H, legCh[l] = "stasis" PROVE Starts(GoLeg("agentLeave", "lookup", l))
  BY <1>1 DEF GoLeg, Go, Starts
<1>2. ASSUME NEW l \in H, legCh[l] = "dialing" PROVE Starts(GoLeg("noAnswer", "lookup", l))
  BY <1>2 DEF GoLeg, Go, Starts
<1>3. (\A h \in LegEndEvents(H) : Starts(h)) /\ (\A h \in DialFailures(H) : Starts(h))
  BY <1>1, <1>2 DEF LegEndEvents, DialFailures
<1>4. QED
  BY <1>3

\* A goroutine that was not in flight is started by an event, or another one goes on
\* as it: first in the outside world.
LEMMA WorldOrigin ==
  ASSUME TimerInv, World, NEW h \in gos' \ gos
  PROVE  Starts(h)
<1>0. DataOK
  BY TimerFacts
<1>1. ASSUME NEW c \in Calls, ClientEnters(c) PROVE Starts(h)
  BY <1>0, <1>1 DEF ClientEnters, DataOK, Go, Starts
<1>2. ASSUME NEW c \in Calls, ClientHangsUp(c) PROVE Starts(h)
  <2>1. clientCh'[c] = "gone"
    BY <1>0, <1>2 DEF ClientHangsUp, ClientGone, DataOK
  <2>2. QED
    BY <1>2, <2>1, ClientEventStarts DEF ClientHangsUp
<1>3. ASSUME NEW c \in Calls, TimerFires(c) PROVE Starts(h)
  BY <1>3 DEF TimerFires, Go, Starts
<1>4. ASSUME NEW l \in Legs, AgentAnswers(l) PROVE Starts(h)
  <2>1. h = GoLeg("agentEnter", "lookup", l) /\ legCh'[l] = "stasis" /\ legCh[l] = "dialing"
    BY <1>0, <1>4 DEF AgentAnswers, DataOK
  <2>2. QED
    BY <2>1 DEF GoLeg, Go, Starts
<1>5. ASSUME NEW l \in Legs, AgentFails(l) \/ AgentHangsUp(l) PROVE Starts(h)
  <2>1. \A k \in {l} : legCh[k] = "dialing" => legCh'[k] = "gone"
    BY <1>5 DEF AgentFails, AgentHangsUp, LegsGone
  <2>2. h \in LegEndEvents({l}) \cup DialFailures({l})
    BY <1>5 DEF AgentFails, AgentHangsUp
  <2>3. QED
    BY <2>1, <2>2, LegEventsStart
<1>6. ASSUME NEW c \in Calls, NEW u \in Users, Distribute(c, u) PROVE Starts(h)
  <2>1. h = [Go("offer", "lookup", c) EXCEPT !.user = u, !.n = offers[c] + 1]
    BY <1>6 DEF Distribute
  <2>2. h.f = "offer" /\ h.at = "lookup" /\ h.c = c
    BY <2>1 DEF Go
  <2>3. aid[c].state \notin {NoReason, "Terminated"}
    BY <1>6 DEF Distribute, NoReason
  <2>4. QED
    BY <2>2, <2>3 DEF Starts
<1>7. QED
  BY <1>1, <1>2, <1>3, <1>4, <1>5, <1>6 DEF World

\* The handler of a caller that enters.
LEMMA EnterOrigin ==
  ASSUME TimerInv, NEW g \in gos, EnterStep(g), NEW h \in gos' \ gos
  PROVE  Starts(h) \/ Succeeds(g, h)
<1>0. g \in Goroutine /\ g.c \in Calls /\ g.f = "enter" /\ DataOK
  BY TimerFacts DEF EnterStep
<1>1. CASE RejectSetup(g)
  <2>1. clientCh[g.c] = "stasis" => clientCh'[g.c] = "gone"
    BY <1>0, <1>1 DEF RejectSetup, ClientGone, DataOK
  <2>2. QED
    BY <1>0, <1>1, <2>1, ClientEventStarts DEF RejectSetup, Becomes
<1>2. ASSUME NEW step \in {"start", "schedule", "publish"}, Goto(g, step) \/ Return(g)
      PROVE  Succeeds(g, h)
  <2>1. ~Carries([g EXCEPT !.at = step])
    BY <1>0, Moved DEF Carries, Steps, Sending
  <2>2. QED
    BY <1>0, <1>2, <2>1, GoesOnTo DEF Steps
<1>3. CASE ~RejectSetup(g)
  BY <1>2, <1>3, FailureGivesUp, GivingUpStarts
     DEF EnterStep, RegisterCall, QueueProcessStart, ScheduleTimeout, PublishNew, Return, Goto
<1>4. QED
  BY <1>1, <1>3

\* The handler of a distribution message.
LEMMA OfferOrigin ==
  ASSUME TimerInv, NEW g \in gos, OfferStep(g), NEW h \in gos' \ gos
  PROVE  Succeeds(g, h)
<1>0. g \in Goroutine /\ g.c \in Calls /\ g.f = "offer" /\ DataOK
  BY TimerFacts DEF OfferStep
<1>1. ASSUME NEW step \in {"lock", "hangup", "originate", "reset"}, Goto(g, step) \/ Return(g),
             step \in {"originate", "reset"} => g.at \in {"map", "originate"}
      PROVE  Succeeds(g, h)
  <2>1. Carries([g EXCEPT !.at = step]) => Carries(g)
    <3>1. step \in Steps
      BY DEF Steps
    <3>2. QED
      BY <1>0, <1>1, <3>1, Moved DEF Carries, Sending
  <2>2. step \in Steps \ {"create", "lookup", "map", "set", "terminate", "send", "teardown", "unmap", "cancel"}
    BY DEF Steps
  <2>3. QED
    BY <1>0, <1>1, <2>1, <2>2, GoesOnTo
<1>2. CASE OfferDismissed(g)
  <2>1. PICK u \in Users \cup {NoUser} : h = Message(g, "Dismissed", u)
    <3>1. g.user \in Users \cup {NoUser}
      BY <1>0 DEF Goroutine
    <3>2. QED
      BY <1>2, <3>1 DEF OfferDismissed, Becomes
  <2>2. h.c = g.c /\ h.f = "message" /\ h.at = "send" /\ h.arg = "Dismissed"
    BY <1>0, <2>1 DEF Message, Goroutine
  <2>3. h.f \in Sending
    BY <2>2 DEF Sending
  <2>4. QED
    BY <1>0, <2>2, <2>3 DEF Succeeds
<1>3. CASE OfferTaken(g)
  <2>1. PICK l : h = [g EXCEPT !.at = "map", !.leg = l]
    BY <1>3 DEF OfferTaken, Becomes
  <2>2. h.c = g.c /\ h.f = "offer" /\ h.at = "map"
    BY <1>0, <2>1 DEF Goroutine
  <2>3. QED
    BY <1>0, <1>3, <2>2 DEF Succeeds
<1>4. CASE OfferLookup(g) \/ OfferIgnored(g) \/ OfferBeyondLimit(g)
  BY <1>1, <1>4 DEF OfferLookup, OfferIgnored, OfferBeyondLimit, Return, Goto
<1>5. CASE AddAgentCallMap(g) \/ Originate(g) \/ OriginateFails(g)
  BY <1>1, <1>5 DEF AddAgentCallMap, Originate, OriginateFails
<1>6. QED
  BY <1>2, <1>3, <1>4, <1>5, FailureGivesUp, GivingUpStarts DEF OfferStep

\* The handler of an agent that answers, and bridgeCall.
LEMMA AgentOrigin ==
  ASSUME TimerInv, NEW g \in gos, AgentEnterStep(g) \/ BridgeStep(g), NEW h \in gos' \ gos
  PROVE  Starts(h) \/ Succeeds(g, h)
<1>0. g \in Goroutine /\ g.c \in Calls /\ g.f \in {"agentEnter", "bridge"} /\ DataOK /\ g.leg \in Legs
  BY TimerFacts, SoundTypes DEF AgentEnterStep, BridgeStep, Sound, LegHandlers
<1>1. ASSUME NEW step \in {"lock", "reset"} \cup Bridging, Goto(g, step) \/ Return(g),
             Goto(g, step) => (step # "lock" /\ BridgeStep(g)) \/ (step = "lock" /\ AgentEnterStep(g)),
             g.at \in {"set"} \cup Bridging \/ AgentEnterStep(g)
      PROVE  Succeeds(g, h)
  <2>0. Goto(g, step)
    BY <1>1 DEF Return, Becomes
  <2>1. Carries([g EXCEPT !.at = step]) => Carries(g)
    <3>1. step \in Steps
      BY DEF Steps, Bridging
    <3>2. QED
      BY <1>0, <1>1, <2>0, <3>1, Moved DEF Carries, Sending, BridgeStep, AgentEnterStep
  <2>2. step \in Steps \ {"create", "lookup", "map", "set", "terminate", "send", "teardown", "unmap", "cancel"}
    BY DEF Steps, Bridging
  <2>3. QED
    BY <1>0, <1>1, <2>0, <2>1, <2>2, GoesOnTo DEF Bridging
<1>2. CASE AgentEnterStep(g)
  <2>1. CASE AgentJoins(g)
    <3>1. PICK late : late \subseteq {g.leg} /\ LegsGone(late)
                      /\ gos' = (gos \ {g}) \cup ({[g EXCEPT !.f = "bridge", !.at = "set"]} \cup LegEndEvents(late))
      BY <2>1 DEF AgentJoins, Becomes
    <3>2. late \in SUBSET Legs /\ \A l \in late : legCh[l] = "dialing" => legCh'[l] = "gone"
      BY <1>0, <3>1 DEF LegsGone
    <3>3. CASE h \in LegEndEvents(late)
      BY <3>2, <3>3, LegEventsStart
    <3>4. CASE h = [g EXCEPT !.f = "bridge", !.at = "set"]
      <4>1. h.c = g.c /\ h.f = "bridge" /\ h.at = "set" /\ h.leg = g.leg
        BY <1>0, <3>4 DEF Goroutine
      <4>2. QED
        BY <1>2, <2>1, <4>1 DEF Succeeds, AgentEnterStep
    <3>5. QED
      BY <3>1, <3>3, <3>4
  <2>2. CASE LegLookup(g, "lock") \/ LateAgentGone(g)
    BY <1>1, <1>2, <2>2 DEF LegLookup, LateAgentGone, Return, Goto
  <2>3. QED
    BY <1>2, <2>1, <2>2 DEF AgentEnterStep
<1>3. CASE BridgeStep(g)
  <2>1. CASE PublishAccepted(g)
    <3>1. PICK u \in Users \cup {NoUser} : h = Message(g, "Accepted", u)
      BY <1>0, <2>1, TimerFacts DEF PublishAccepted, Becomes, Call
    <3>2. h.c = g.c /\ h.f = "message" /\ h.at = "send" /\ h.arg = "Accepted" /\ h.leg = g.leg
      BY <1>0, <3>1, MessageAside DEF Messages
    <3>3. QED
      BY <1>3, <2>1, <3>2 DEF Succeeds, Sending, BridgeStep
  <2>2. CASE ~PublishAccepted(g)
    <3>1. SetBridged(g) \/ CreateBridge(g) \/ AddClient(g) \/ AddLeg(g) \/ AddOutBoundCall(g) \/ SetMemberVariable(g)
      BY <1>3, <2>2 DEF BridgeStep
    <3>2. PICK step \in {"reset"} \cup Bridging : Goto(g, step)
      BY <3>1 DEF SetBridged, CreateBridge, AddClient, AddLeg, AddOutBoundCall, SetMemberVariable, Bridging
    <3>3. g.at \in {"set"} \cup Bridging
      BY <3>1 DEF SetBridged, CreateBridge, AddClient, AddLeg, AddOutBoundCall, SetMemberVariable, Bridging
    <3>4. QED
      <4>1. step \in {"lock", "reset"} \cup Bridging /\ step # "lock"
        BY DEF Bridging
      <4>2. QED
        BY <1>1, <1>3, <3>2, <3>3, <4>1 DEF Goto
  <2>3. QED
    BY <2>1, <2>2
<1>4. QED
  BY <1>2, <1>3

\* The handlers of an agent that was not reached or that leaves.
LEMMA AgentLeaveOrigin ==
  ASSUME TimerInv, NEW g \in gos, NoAnswerStep(g) \/ AgentLeaveStep(g), NEW h \in gos' \ gos
  PROVE  Starts(h) \/ Succeeds(g, h)
<1>0. g \in Goroutine /\ g.c \in Calls /\ g.f \in {"noAnswer", "agentLeave"} /\ DataOK
  BY TimerFacts DEF NoAnswerStep, AgentLeaveStep
<1>1. ASSUME NEW step \in {"lock", "reset"}, Goto(g, step) \/ Return(g),
             Carries([g EXCEPT !.at = step]) => Carries(g)
      PROVE  Succeeds(g, h)
  BY <1>0, <1>1, GoesOnTo DEF Steps, Bridging
<1>2. CASE NoAnswerStep(g)
  <2>1. Carries(g)
    BY <1>2 DEF NoAnswerStep, LegLookup, Carries
  <2>2. QED
    BY <1>1, <1>2, <2>1 DEF NoAnswerStep, LegLookup
<1>3. CASE AgentLeaveStep(g)
  <2>1. CASE LegLookup(g, "lock")
    <3>1. ~Carries([g EXCEPT !.at = "lock"])
      BY <1>0, <1>3, Moved DEF Carries, Sending, AgentLeaveStep, Steps
    <3>2. QED
      BY <1>1, <2>1, <3>1 DEF LegLookup
  <2>2. CASE AgentLeft(g)
    <3>1. h \in ClientEndEvent(g.c) /\ ClientGone(g.c)
      BY <2>2 DEF AgentLeft, Return, Becomes
    <3>2. clientCh[g.c] = "stasis" => clientCh'[g.c] = "gone"
      BY <1>0, <3>1 DEF ClientGone, DataOK
    <3>3. QED
      BY <1>0, <3>1, <3>2, ClientEventStarts
  <2>3. ~AgentLeftFails(g)
    BY DEF AgentLeftFails, CallerKept, Return, Becomes
  <2>4. QED
    BY <1>3, <2>1, <2>2, <2>3 DEF AgentLeaveStep
<1>4. QED
  BY <1>2, <1>3

\* The handler of a caller that leaves, and terminateCall.
LEMMA ClientLeaveOrigin ==
  ASSUME TimerInv, NEW g \in gos, ClientLeaveStep(g), NEW h \in gos' \ gos
  PROVE  Succeeds(g, h)
<1>0. g \in Goroutine /\ g.c \in Calls /\ g.f = "clientLeave" /\ DataOK
  BY TimerFacts DEF ClientLeaveStep
<1>1. ASSUME NEW step \in {"lock", "remove"}, Goto(g, step) \/ Return(g),
             step = "lock" => ClientLeft(g)
      PROVE  Succeeds(g, h)
  <2>1. ~Carries([g EXCEPT !.at = step])
    BY <1>0, <1>1, Moved DEF Carries, Sending, Steps
  <2>2. QED
    BY <1>0, <1>1, <2>1, GoesOnTo DEF Steps
<1>2. CASE ReasonOfLeave(g)
  <2>1. PICK r : h = [g EXCEPT !.at = "terminate", !.arg = r]
    BY <1>2 DEF ReasonOfLeave, Becomes
  <2>2. h.c = g.c /\ h.f = "clientLeave" /\ h.at = "terminate"
    BY <1>0, <2>1 DEF Goroutine
  <2>3. QED
    BY <1>0, <1>2, <2>2 DEF Succeeds
<1>3. CASE Terminate(g)
  <2>1. h = [g EXCEPT !.at = "cancel", !.copy = CopyOf(g.c)]
    BY <1>3 DEF Terminate, Becomes
  <2>2. h.c = g.c /\ h.f = "clientLeave" /\ h.at = "cancel" /\ h.copy = CopyOf(g.c)
    BY <1>0, <2>1 DEF Goroutine
  <2>3. QED
    BY <1>0, <1>3, <2>2 DEF Succeeds
<1>4. CASE RemoveCall(g)
  <2>1. PICK u \in Users \cup {NoUser} : h = Message(g, "Terminated", u)
    <3>1. g.copy.user \in Users \cup {NoUser}
      BY <1>0 DEF Goroutine, Copy
    <3>2. QED
      BY <1>4, <3>1 DEF RemoveCall, Becomes
  <2>2. h.c = g.c /\ h.f = "message" /\ h.at = "send" /\ h.arg = "Terminated"
    BY <1>0, <2>1 DEF Message, Goroutine
  <2>3. h.f \in Sending
    BY <2>2 DEF Sending
  <2>4. QED
    BY <1>0, <1>4, <2>2, <2>3 DEF Succeeds
<1>5. CASE ClientLeft(g) \/ AlreadyTerminated(g) \/ LogOnTerminate(g) \/ LogOnTerminateFails(g)
  BY <1>1, <1>5 DEF ClientLeft, AlreadyTerminated, LogOnTerminate, LogOnTerminateFails, Return, Goto
<1>6. QED
  BY <1>2, <1>3, <1>4, <1>5 DEF ClientLeaveStep

\* The queue timeout, and steps that several handlers share.
LEMMA TimeoutOrigin ==
  ASSUME TimerInv, NEW g \in gos, NEW h \in gos' \ gos,
         \/ TimeoutStep(g) \/ CancelTimer(g) \/ HangupClient(g) \/ HangupClientFails(g)
         \/ Send(g) \/ SendFails(g)
  PROVE  Starts(h) \/ Succeeds(g, h)
<1>0. g \in Goroutine /\ g.c \in Calls /\ DataOK /\ InPlace(g) /\ g.f \in Handlers
  BY TimerFacts DEF Goroutine
<1>1. CASE TimeoutStep(g)
  <2>1. ASSUME NEW step \in {"lock", "hangup"}, Goto(g, step) \/ Return(g)
        PROVE  Succeeds(g, h)
    <3>1. g.f = "timeout"
      BY <1>1 DEF TimeoutStep
    <3>2. ~Carries([g EXCEPT !.at = step])
      BY <1>0, <2>1, <3>1, Moved DEF Carries, Sending, Steps
    <3>3. QED
      BY <1>0, <2>1, <3>1, <3>2, GoesOnTo DEF Steps
  <2>2. CASE TimeoutLookup(g)
    BY <2>1, <2>2 DEF TimeoutLookup
  <2>3. CASE TimeoutReached(g)
    <3>1. CASE Return(g)
      BY <2>1, <3>1
    <3>2. CASE Goto(g, "cancel")
      <4>1. h = [g EXCEPT !.at = "cancel"]
        BY <3>2 DEF Goto, Becomes
      <4>2. Resumes(g, h) /\ h.at = "cancel" /\ g.f = "timeout"
        BY <1>0, <1>1, <4>1 DEF Goroutine, Resumes, TimeoutStep
      <4>3. ~Carries(h)
        BY <4>2 DEF Carries, Sending, Resumes
      <4>4. QED
        BY <4>2, <4>3 DEF Succeeds, Resumes
    <3>3. QED
      BY <2>3, <3>1, <3>2 DEF TimeoutReached
  <2>4. QED
    BY <1>1, <2>2, <2>3 DEF TimeoutStep
<1>2. CASE CancelTimer(g)
  <2>1. PICK step \in {"hangup", "teardown"} : h = [g EXCEPT !.at = step]
    BY <1>2 DEF CancelTimer, Goto, Becomes
  <2>2. Resumes(g, h) /\ h.at = step /\ g.f \in {"timeout", "clientLeave"}
    <3>1. Resumes(g, h) /\ h.at = step
      <4>1. h = [g EXCEPT !.at = step]
        BY <2>1
      <4>2. QED
        BY <1>0, <4>1 DEF Goroutine, Resumes
    <3>2. g.f \in {"timeout", "clientLeave"}
      BY <1>0, <1>2 DEF CancelTimer, InPlace, Handlers, ReSetup
    <3>3. QED
      BY <3>1, <3>2
  <2>3. ~Carries(h)
    BY <2>2 DEF Carries, Sending, Resumes
  <2>4. QED
    BY <1>2, <2>2, <2>3 DEF Succeeds, Resumes
<1>3. CASE HangupClient(g)
  <2>1. h \in ClientEndEvent(g.c) /\ ClientGone(g.c)
    BY <1>3 DEF HangupClient, Becomes
  <2>2. clientCh[g.c] = "stasis" => clientCh'[g.c] = "gone"
    BY <1>0, <2>1 DEF ClientGone, DataOK
  <2>3. QED
    BY <1>0, <2>1, <2>2, ClientEventStarts
<1>4. ~Send(g) /\ ~SendFails(g) /\ ~HangupClientFails(g)
  BY FailureGivesUp, GivingUpStarts DEF Send, Return, Becomes
<1>5. QED
  BY <1>1, <1>2, <1>3, <1>4

\* reSetupCallForQueue and the tail of terminateCall.
LEMMA ReSetupOrigin ==
  ASSUME TimerInv, NEW g \in gos, ReSetupStep(g), NEW h \in gos' \ gos
  PROVE  Starts(h) \/ Succeeds(g, h)
<1>0. g \in Goroutine /\ g.c \in Calls /\ DataOK /\ g.copy \in Copy
  BY TimerFacts, SoundTypes
<1>1. CASE ResetCall(g)
  <2>1. h = [g EXCEPT !.at = "teardown", !.copy = CopyOf(g.c)]
    BY <1>1 DEF ResetCall, Becomes
  <2>2. h.c = g.c /\ h.f = g.f /\ h.at = "teardown" /\ h.copy = CopyOf(g.c)
    BY <1>0, <2>1 DEF Goroutine
  <2>3. QED
    BY <1>1, <2>2 DEF Succeeds
<1>2. ASSUME NEW step \in {"unmap", "log", "rejected"}, h = [g EXCEPT !.at = step],
             step = "unmap" => TearDown(g)
      PROVE  Succeeds(g, h)
  <2>1. Resumes(g, h) /\ h.at = step
    BY <1>0, <1>2 DEF Goroutine, Resumes
  <2>2. h.f \notin {"agentEnter"} \cup Sending
    <3>1. InPlace(g) /\ g.at \in ReSetup
      BY TimerFacts DEF ReSetupStep, ResetCall, TearDown, Unmap, PublishRejected, ReSetup
    <3>2. QED
      BY <2>1, <3>1 DEF InPlace, ReSetup, Resumes, Sending
  <2>3. ~Carries(h) /\ h.at \notin Bridging
    BY <1>2, <2>1, <2>2 DEF Carries, Resumes, Bridging
  <2>4. QED
    BY <1>2, <2>1, <2>3 DEF Succeeds, Resumes
<1>3. CASE TearDown(g)
  <2>1. PICK H \in SUBSET Legs :
           \E unanswered \in SUBSET DialFailures(H) :
             /\ LegsGone(H)
             /\ h \in {[g EXCEPT !.at = "unmap"]} \cup LegEndEvents(H) \cup unanswered
    BY <1>3, TornDown
  <2>2. \A l \in H : legCh[l] = "dialing" => legCh'[l] = "gone"
    BY <2>1 DEF LegsGone
  <2>3. CASE h = [g EXCEPT !.at = "unmap"]
    BY <1>2, <1>3, <2>3
  <2>4. CASE h \in LegEndEvents(H) \cup DialFailures(H)
    BY <2>2, <2>4, LegEventsStart
  <2>5. QED
    BY <2>1, <2>3, <2>4
<1>4. CASE Unmap(g)
  <2>1. PICK step \in {"log", "rejected"} : h = [g EXCEPT !.at = step]
    BY <1>4 DEF Unmap, Goto, Becomes
  <2>2. QED
    BY <1>2, <2>1
<1>5. CASE PublishRejected(g)
  <2>1. PICK u \in Users \cup {NoUser} :
          h \in {Message(g, "Rejected", u), [Message(g, "Rejected", u) EXCEPT !.f = "messageAgain"]}
    BY <1>0, <1>5 DEF PublishRejected, Becomes, Copy
  <2>2. h.c = g.c /\ h.f \in Sending /\ h.at = "send" /\ h.arg = "Rejected"
    BY <1>0, <2>1 DEF Message, Goroutine, Sending
  <2>3. g.f \in {"offer", "bridge", "noAnswer"}
    <3>1. InPlace(g) /\ g.f \in Handlers /\ g.at = "rejected"
      BY <1>0, <1>5, TimerFacts DEF Goroutine, PublishRejected
    <3>2. QED
      BY <3>1 DEF InPlace, Handlers, Ending
  <2>4. QED
    BY <2>2, <2>3 DEF Succeeds
<1>6. QED
  BY <1>1, <1>3, <1>4, <1>5 DEF ReSetupStep

\* A goroutine that is new after a step of another one.
LEMMA OriginOf ==
  ASSUME TimerInv, NEW g \in gos, Step(g), NEW h \in gos' \ gos
  PROVE  Starts(h) \/ Succeeds(g, h)
BY EnterOrigin, OfferOrigin, AgentOrigin, AgentLeaveOrigin, ClientLeaveOrigin,
   TimeoutOrigin, ReSetupOrigin DEF Step

\* A goroutine that was not in flight is started by an event or a timer, or is what
\* another one goes on as.
LEMMA Origin ==
  ASSUME TimerInv, [Next]_vars, NEW h \in gos' \ gos
  PROVE  Starts(h) \/ \E g \in gos : Step(g) /\ Succeeds(g, h)
BY OriginOf, EveryStep, WorldOrigin

-----------------------------------------------------------------------------
(* What the critical sections leave of a call, and what stays behind them. *)

\* Each critical section, by what it makes of the attempt, the bridge and the state.
LEMMA EffectOf ==
  ASSUME TimerInv, NEW g \in gos
  PROVE  LET x == call[g.c]
             y == call'[g.c] IN
         /\ QueueProcessStart(g) =>
              /\ y.state = "InQueue" /\ y.inDistribution = x.inDistribution /\ y.attempts = x.attempts
              /\ y.leg = x.leg /\ y.bridge = x.bridge /\ y.bridged = x.bridged
         /\ OfferTaken(g) =>
              /\ y.state = x.state /\ y.inDistribution /\ y.attempts = x.attempts + 1
              /\ y.leg = <<g.c, g.user, x.attempts + 1>> /\ y.bridge = x.bridge /\ y.bridged = x.bridged
         /\ AgentJoins(g) =>
              /\ y.state = "Bridged" /\ y.inDistribution = x.inDistribution /\ y.attempts = x.attempts
              /\ y.leg = x.leg /\ y.bridge = x.bridge /\ y.bridged = x.bridged
         /\ SetBridged(g) =>
              /\ y.state = x.state /\ y.inDistribution = x.inDistribution /\ y.attempts = x.attempts
              /\ y.leg = g.leg /\ y.bridge /\ y.bridged = g.leg
         /\ ResetCall(g) =>
              /\ y.state = "InQueue" /\ ~y.inDistribution /\ y.attempts = x.attempts
              /\ y.leg = NoLeg /\ ~y.bridge /\ y.bridged = NoLeg
         /\ Terminate(g) =>
              /\ y.state = "Terminated" /\ y.inDistribution = x.inDistribution /\ y.attempts = x.attempts
              /\ y.leg = x.leg /\ y.bridge = x.bridge /\ y.bridged = x.bridged
<1>1. g.c \in Calls /\ call[g.c] \in Call /\ call \in [Calls -> Call]
  BY TimerFacts DEF DataOK
<1>2. ASSUME NEW r, call' = [call EXCEPT ![g.c] = r] PROVE call'[g.c] = r
  BY <1>1, <1>2
<1> DEFINE x == call[g.c]
<1>3. ASSUME QueueProcessStart(g) PROVE call'[g.c] = [x EXCEPT !.state = "InQueue"]
  BY <1>2, <1>3 DEF QueueProcessStart
<1>4. ASSUME OfferTaken(g)
      PROVE  call'[g.c] = [x EXCEPT !.attempts = @ + 1, !.inDistribution = TRUE, !.user = g.user,
                                    !.leg = <<g.c, g.user, x.attempts + 1>>]
  <2>1. call' = [call EXCEPT ![g.c] =
                   [x EXCEPT !.attempts = @ + 1, !.inDistribution = TRUE, !.user = g.user,
                             !.leg = <<g.c, g.user, x.attempts + 1>>]]
    BY <1>4 DEF OfferTaken
  <2>2. QED
    BY <1>2, <2>1
<1>5. ASSUME AgentJoins(g)
      PROVE  call'[g.c] = [x EXCEPT !.state = "Bridged", !.handled = TRUE]
  <2>1. call' = [call EXCEPT ![g.c] = [x EXCEPT !.state = "Bridged", !.handled = TRUE]]
    BY <1>5 DEF AgentJoins
  <2>2. QED
    BY <1>2, <2>1
<1>6. ASSUME SetBridged(g)
      PROVE  call'[g.c] = [x EXCEPT !.bridge = TRUE, !.bridged = g.leg, !.leg = g.leg]
  <2>1. call' = [call EXCEPT ![g.c] = [x EXCEPT !.bridge = TRUE, !.bridged = g.leg, !.leg = g.leg]]
    BY <1>6 DEF SetBridged
  <2>2. QED
    BY <1>2, <2>1
<1>7. ASSUME ResetCall(g)
      PROVE  call'[g.c] = [x EXCEPT !.state = "InQueue", !.inDistribution = FALSE, !.user = NoUser,
                                    !.leg = NoLeg, !.bridge = FALSE, !.bridged = NoLeg]
  <2>1. call' = [call EXCEPT ![g.c] =
                   [x EXCEPT !.state = "InQueue", !.inDistribution = FALSE, !.user = NoUser,
                             !.leg = NoLeg, !.bridge = FALSE, !.bridged = NoLeg]]
    BY <1>7 DEF ResetCall
  <2>2. QED
    BY <1>2, <2>1
<1>8. ASSUME Terminate(g)
      PROVE  call'[g.c] = [x EXCEPT !.state = "Terminated", !.reason = IF @ = NoReason THEN g.arg ELSE @]
  <2>1. call' = [call EXCEPT ![g.c] =
                   [x EXCEPT !.state = "Terminated", !.reason = IF @ = NoReason THEN g.arg ELSE @]]
    BY <1>8 DEF Terminate
  <2>2. QED
    BY <1>2, <2>1
<1>9. QED
  BY <1>1, <1>3, <1>4, <1>5, <1>6, <1>7, <1>8 DEF Call

\* queueProcessStart of a call is entered once.
LEMMA StaysAfter ==
  ASSUME TimerInv, [Next]_vars, NEW c \in Calls, ~Before(c)
  PROVE  ~Before(c)'
<1>1. clientCh'[c] # "none"
  BY WhoseClient DEF Before
<1>2. ASSUME NEW h \in gos', h.f = "enter", h.c = c PROVE FALSE
  <2>1. h \in gos' \ gos
    BY <1>2 DEF Before
  <2>2. ~Starts(h)
    BY <1>2 DEF Starts, Before
  <2>3. PICK g \in gos : Step(g) /\ Succeeds(g, h)
    BY <2>1, <2>2, Origin
  <2>4. g.f = "enter" /\ g.c = c
    BY <1>2, <2>3 DEF Succeeds, Resumes, Sending
  <2>5. QED
    BY <2>4 DEF Before
<1>3. QED
  BY <1>1, <1>2 DEF Before

\* A goroutine that goes on at step is in flight.
LEMMA InFlight ==
  ASSUME NEW g \in Goroutine, NEW step \in Steps, Goto(g, step)
  PROVE  \E h \in gos' : h = [g EXCEPT !.at = step] /\ Resumes(g, h) /\ h.at = step
<1>1. PICK h : h = [g EXCEPT !.at = step]
  OBVIOUS
<1>2. h \in gos'
  BY <1>1 DEF Goto, Becomes
<1>3. Resumes(g, h) /\ h.at = step
  BY <1>1 DEF Goroutine, Resumes
<1>4. QED
  BY <1>1, <1>2, <1>3

-----------------------------------------------------------------------------
(* Calls that have not begun. *)

\* No agent is dialled for a call that queueProcessStart has not put in the queue, nor
\* does anything come back to it.
Unqueued(c) ==
  call[c].state = "New" =>
    /\ Fresh(c)
    /\ \A g \in gos :
         g.c = c => (g.f = "enter" /\ g.at \in {"create", "start"}) \/ Harmless(g)

\* Nothing is known of a call before its caller enters.
Idle(c) == clientCh[c] = "none" => c \notin calls /\ call[c].state = "New"

\* A channel of an agent that is not there yet is made by Originate, whatever it returns.
LEMMA WhoMakesLeg ==
  ASSUME TimerInv, [Next]_vars, NEW l \in Legs, legCh[l] = "none", legCh'[l] # "none"
  PROVE  \E g \in gos : g.f = "offer" /\ g.c = l[1]
<1>0. DataOK
  BY TimerFacts
<1>1. ASSUME NEW H, LegsGone(H) PROVE FALSE
  BY <1>1 DEF LegsGone
<1>2. ASSUME NEW g, GivesUp(g) \/ TearDown(g) PROVE FALSE
  BY <1>1, <1>2, TornDown DEF GivesUp, asterisk
<1>3. ~World
  BY <1>0, <1>1 DEF World, ClientEnters, ClientHangsUp, TimerFires, AgentAnswers, AgentFails, AgentHangsUp,
     Distribute, asterisk, DataOK
<1>4. PICK g \in gos : Step(g)
  BY <1>3, EveryStep
<1>5. ~EnterStep(g)
  BY <1>2, FailureGivesUp
     DEF EnterStep, RejectSetup, RegisterCall, QueueProcessStart, ScheduleTimeout, PublishNew, asterisk
<1>6. OfferStep(g) => g.f = "offer" /\ (Originate(g) \/ OriginateFails(g))
  BY <1>2, FailureGivesUp
     DEF OfferStep, OfferLookup, OfferIgnored, OfferDismissed, OfferBeyondLimit, OfferTaken,
         AddAgentCallMap, asterisk
<1>7. ~AgentEnterStep(g)
  BY <1>1 DEF AgentEnterStep, LegLookup, LateAgentGone, AgentJoins, asterisk
<1>8. ~BridgeStep(g)
  BY DEF BridgeStep, SetBridged, CreateBridge, AddClient, AddLeg, AddOutBoundCall,
         SetMemberVariable, PublishAccepted, asterisk
<1>9. ~AgentLeaveStep(g) /\ ~NoAnswerStep(g)
  BY DEF AgentLeaveStep, NoAnswerStep, LegLookup, AgentLeft, AgentLeftFails, CallerKept, asterisk
<1>10. ~ClientLeaveStep(g)
  BY DEF ClientLeaveStep, ClientLeft, ReasonOfLeave, AlreadyTerminated, Terminate,
         LogOnTerminate, LogOnTerminateFails, RemoveCall, asterisk
<1>11. ~TimeoutStep(g)
  BY DEF TimeoutStep, TimeoutLookup, TimeoutReached, asterisk
<1>12. ~ReSetupStep(g)
  BY <1>2 DEF ReSetupStep, ResetCall, Unmap, PublishRejected, asterisk
<1>13. /\ ~CancelTimer(g) /\ ~HangupClient(g) /\ ~HangupClientFails(g)
       /\ ~Send(g) /\ ~SendFails(g)
  BY <1>2, FailureGivesUp DEF CancelTimer, HangupClient, Send, asterisk
<1>14. g.f = "offer" /\ (Originate(g) \/ OriginateFails(g))
  BY <1>4, <1>5, <1>6, <1>7, <1>8, <1>9, <1>10, <1>11, <1>12, <1>13 DEF Step
<1>15. g.leg = l /\ g.at = "originate"
  BY <1>0, <1>14 DEF Originate, OriginateFails, DataOK
<1>16. QED
  BY <1>14, <1>15, TimerFacts DEF Placed

\* A caller's entry starts when the caller does, and goes on step by step.
LEMMA EnterGoesOn ==
  ASSUME TimerInv, TimerInv', [Next]_vars, NEW h \in gos' \ gos, h.f = "enter"
  PROVE  \/ h.at = "create" /\ clientCh[h.c] = "none"
         \/ \E g \in gos :
              /\ g.f = "enter" /\ g.c = h.c /\ g.at # "publish"
              /\ \/ RegisterCall(g) /\ h.at = "start"
                 \/ QueueProcessStart(g) /\ h.at \notin {"create", "start"}
                 \/ ScheduleTimeout(g) /\ h.at = "publish"
<1>1. InPlace(h)
  BY DEF TimerInv, Placed, InPlace
<1>2. CASE Starts(h)
  BY <1>1, <1>2 DEF Starts, InPlace
<1>3. ASSUME NEW g \in gos, Step(g), Succeeds(g, h)
      PROVE  /\ g.f = "enter" /\ g.c = h.c /\ g.at # "publish"
             /\ \/ RegisterCall(g) /\ h.at = "start"
                \/ QueueProcessStart(g) /\ h.at \notin {"create", "start"}
                \/ ScheduleTimeout(g) /\ h.at = "publish"
  <2>0. g \in Goroutine /\ InPlace(g)
    BY TimerFacts
  <2>1. g.f = "enter" /\ g.c = h.c
    BY <1>1, <1>3 DEF Succeeds, Resumes, InPlace, Sending
  <2>2. EnterStep(g)
    BY <1>3, <2>1, HandlerOf
  <2>3. ~RejectSetup(g)
    BY <1>3, <2>1 DEF RejectSetup, Becomes, ClientEndEvent, Go
  <2>4. ~PublishNew(g) /\ ~GivesUp(g)
    BY GivingUpStarts DEF PublishNew, Return, Becomes
  <2>5. ASSUME NEW step, Goto(g, step) PROVE h.at = step
    BY <2>0, <2>5 DEF Goto, Becomes, Goroutine
  <2>6. CASE RegisterCall(g)
    BY <2>1, <2>5, <2>6 DEF RegisterCall
  <2>7. CASE QueueProcessStart(g)
    BY <2>1, <2>5, <2>7 DEF QueueProcessStart
  <2>8. CASE ScheduleTimeout(g)
    <3>1. Goto(g, "publish") /\ g.at = "schedule"
      BY <2>8 DEF ScheduleTimeout, Return, Becomes
    <3>2. QED
      BY <2>1, <2>5, <2>8, <3>1
  <2>9. QED
    BY <2>2, <2>3, <2>4, <2>6, <2>7, <2>8, FailureGivesUp DEF EnterStep
<1>4. QED
  BY <1>2, <1>3, Origin

\* A call leaves the state it has at first in queueProcessStart, unless it was
\* terminated before that.
LEMMA WhoBegins ==
  ASSUME TimerInv, [Next]_vars, NEW c \in Calls, Unqueued(c), call[c].state = "New",
         call'[c].state # "New"
  PROVE  \E g \in gos : /\ g.c = c
                        /\ \/ g.f = "enter" /\ QueueProcessStart(g)
                           \/ g.f = "clientLeave" /\ Terminate(g)
<1>1. PICK g \in gos : g.c = c /\ Changes(g)
  BY WhoChanges DEF SameAs
<1>2. g.f = "enter" \/ Harmless(g)
  BY <1>1 DEF Unqueued
<1>3. QED
  BY <1>1, <1>2 DEF Changes, Harmless

\* A call that is not new does not become new again.
LEMMA NeverNewAgain ==
  ASSUME TimerInv, [Next]_vars, NEW c \in Calls, call'[c].state = "New"
  PROVE  call[c].state = "New"
<1>1. CASE SameAs(call'[c], call[c])
  BY <1>1 DEF SameAs
<1>2. CASE ~SameAs(call'[c], call[c])
  <2>1. PICK g \in gos : g.c = c /\ Changes(g)
    BY <1>2, WhoChanges
  <2>2. QED
    BY <2>1, EffectOf DEF Changes
<1>3. QED
  BY <1>1, <1>2

\* Nobody hears of a call that is not queued, and no agent is dialled for it.
LEMMA StaysFresh ==
  ASSUME TimerInv, [Next]_vars, NEW c \in Calls, Unqueued(c), call[c].state = "New",
         call'[c].state = "New"
  PROVE  Fresh(c)'
<1>0. DataOK
  BY TimerFacts
<1>1. aid'[c].state \in {NoReason, "Terminated"}
  <2>1. CASE World
    BY <1>0, <2>1 DEF World, ClientEnters, ClientHangsUp, TimerFires, AgentAnswers, AgentFails,
       AgentHangsUp, Distribute, world, DataOK, Unqueued, Fresh, NoReason
  <2>2. ASSUME NEW g \in gos, Step(g), aid'[c] # aid[c] PROVE aid'[c].state = "Terminated"
    <3>1. PublishNew(g) \/ Send(g)
      BY <2>2, WhoTells
    <3>2. g.c = c /\ InPlace(g)
      BY <1>0, <2>2, <3>1, TimerFacts DEF PublishNew, Send, DataOK
    <3>3. (g.f = "enter" /\ g.at \in {"create", "start"}) \/ Harmless(g)
      BY <3>2 DEF Unqueued
    <3>4. Send(g) /\ g.arg = "Terminated"
      BY <3>1, <3>2, <3>3 DEF PublishNew, Send, Harmless, InPlace, Ending
    <3>5. aid' = [aid EXCEPT ![c] = [state |-> "Terminated", user |-> NamedUser(g)]]
      BY <3>2, <3>4 DEF Send
    <3>6. QED
      BY <1>0, <3>5 DEF DataOK
  <2>3. QED
    BY <2>1, <2>2, EveryStep DEF Unqueued, Fresh
<1>2. ASSUME NEW l \in Legs, l[1] = c PROVE legCh'[l] = "none"
  <2>1. legCh[l] = "none" /\ \A g \in gos : g.c = c => g.f # "offer"
    BY <1>2 DEF Unqueued, Fresh, Harmless
  <2>2. QED
    BY <1>2, <2>1, WhoMakesLeg
<1>3. QED
  BY <1>1, <1>2 DEF Fresh

\* Unqueued holds on.
LEMMA UnqueuedStays ==
  ASSUME TimerInv, TimerInv', [Next]_vars, NEW c \in Calls, Unqueued(c)
  PROVE  Unqueued(c)'
<1> SUFFICES ASSUME call'[c].state = "New" PROVE Unqueued(c)'
  BY DEF Unqueued
<1>1. call[c].state = "New"
  BY NeverNewAgain
<1>2. Fresh(c) /\ Fresh(c)'
  BY <1>1, StaysFresh DEF Unqueued
<1>3. ASSUME NEW h \in gos' \ gos, h.c = c
      PROVE  (h.f = "enter" /\ h.at \in {"create", "start"}) \/ Harmless(h)
  <2>1. InPlace(h)
    BY DEF TimerInv, Placed, InPlace
  <2>2. CASE Starts(h)
    BY <1>2, <1>3, <2>1, <2>2 DEF Starts, Fresh, Harmless, InPlace
  <2>3. ASSUME NEW g \in gos, Step(g), Succeeds(g, h)
        PROVE  (h.f = "enter" /\ h.at \in {"create", "start"}) \/ Harmless(h)
    <3>1. g.c = c /\ InPlace(g)
      BY <1>3, <2>3, TimerFacts DEF Succeeds
    <3>2. (g.f = "enter" /\ g.at \in {"create", "start"}) \/ Harmless(g)
      BY <1>1, <3>1 DEF Unqueued
    <3>3. CASE g.f = "enter"
      <4>1. h.f = "enter"
        BY <2>3, <3>1, <3>3 DEF Succeeds, Resumes, InPlace
      <4>2. ~QueueProcessStart(g)
        BY <1>1, <3>1, EffectOf DEF QueueProcessStart
      <4>3. g.at \in {"create", "start"}
        BY <3>2, <3>3 DEF Harmless
      <4>5. ASSUME NEW w \in gos, w.f = "enter", w.c = h.c PROVE w = g
        BY <1>3, <3>1, <3>3, <4>5 DEF TimerInv, OneEntry
      <4>6. h.at \in {"create", "start"}
        BY <1>3, <4>1, <4>2, <4>3, <4>5, EnterGoesOn DEF ScheduleTimeout
      <4>7. QED
        BY <4>1, <4>6
    <3>4. CASE Harmless(g)
      BY <2>3, <3>1, <3>4 DEF Succeeds, Resumes, InPlace, Harmless, ResetCall, Sending
    <3>5. QED
      BY <3>2, <3>3, <3>4
  <2>4. QED
    BY <2>2, <2>3, Origin
<1>4. QED
  BY <1>1, <1>2, <1>3 DEF Unqueued

\* Idle holds on.
LEMMA IdleStays ==
  ASSUME TimerInv, [Next]_vars, NEW c \in Calls, Idle(c)
  PROVE  Idle(c)'
<1> SUFFICES ASSUME clientCh'[c] = "none" PROVE c \notin calls' /\ call'[c].state = "New"
  BY DEF Idle
<1>1. clientCh[c] = "none" /\ c \notin calls /\ call[c].state = "New"
  BY WhoseClient DEF Idle
<1>2. \A g \in gos : g.c # c
  BY <1>1, TimerFacts DEF Placed
<1>3. c \notin calls'
  BY <1>1, <1>2, WhoseMaps
<1>4. SameAs(call'[c], call[c])
  BY <1>2, WhoChanges
<1>5. QED
  BY <1>1, <1>3, <1>4 DEF SameAs

-----------------------------------------------------------------------------
(* Callers that leave. *)

\* Only a call whose caller has left is terminated.
StateEnds(c) == call[c].state = "Terminated" => clientCh[c] = "gone"

\* A call whose caller is there is registered, or queueProcessStart of it is not under
\* way: AddCall is still to come, or the call was not set up and the hangup has failed.
Starting(c) == \E g \in gos : g.f = "enter" /\ g.at = "start" /\ g.c = c
Present(c) ==
  clientCh[c] = "stasis" => c \in calls \/ (call[c].state = "New" /\ ~Starting(c))

OneLeave ==
  \A g, h \in gos : g.f = "clientLeave" /\ h.f = "clientLeave" /\ g.c = h.c => g = h

Leaving(g) ==
  g.f = "clientLeave" => /\ clientCh[g.c] = "gone"
                         /\ g.at \in {"lookup", "lock", "terminate"} => call[g.c].state # "Terminated"

LeaveInv ==
  /\ TimerInv
  /\ \A c \in Calls : StateEnds(c) /\ Present(c) /\ Unqueued(c) /\ Idle(c)
  /\ OneLeave
  /\ \A g \in gos : Leaving(g)

\* A step of the goroutine of a caller that leaves goes on as at most one such goroutine.
LEMMA LeaverMoves ==
  ASSUME TimerInv, NEW g \in gos, g.f = "clientLeave", Step(g)
  PROVE  /\ g \notin gos'
         /\ \A h, k \in gos' \ gos : h.f = "clientLeave" /\ k.f = "clientLeave" => h = k
<1>0. g \in Goroutine /\ g.c \in Calls /\ g \in Sound
  BY TimerFacts
<1>1. ASSUME NEW step \in Steps, step # g.at, Goto(g, step) \/ Return(g)
      PROVE  g \notin gos' /\ \A h, k \in gos' \ gos : h = k
  BY <1>0, <1>1, PlaceOf DEF Goto, Return, Becomes
<1>2. ASSUME NEW h, h # g, NEW G, Becomes(g, {h} \cup G), \A k \in G : k.f # "clientLeave"
      PROVE  g \notin gos' /\ \A k, j \in gos' \ gos : k.f = "clientLeave" /\ j.f = "clientLeave" => k = j
  BY <1>2 DEF Becomes
<1>3. CASE ClientLeft(g) \/ AlreadyTerminated(g) \/ LogOnTerminate(g) \/ LogOnTerminateFails(g)
  BY <1>1, <1>3
     DEF ClientLeft, AlreadyTerminated, LogOnTerminate, LogOnTerminateFails, Goto, Return, Steps
<1>4. CASE ReasonOfLeave(g)
  <2>1. PICK r : Becomes(g, {[g EXCEPT !.at = "terminate", !.arg = r]}) /\ g.at = "lock"
    BY <1>4 DEF ReasonOfLeave
  <2>2. [g EXCEPT !.at = "terminate", !.arg = r] # g
    BY <1>0, <2>1 DEF Goroutine
  <2>3. QED
    BY <1>2, <2>1, <2>2 DEF Becomes
<1>5. CASE Terminate(g)
  <2>1. Becomes(g, {[g EXCEPT !.at = "cancel", !.copy = CopyOf(g.c)]}) /\ g.at = "terminate"
    BY <1>5 DEF Terminate
  <2>2. [g EXCEPT !.at = "cancel", !.copy = CopyOf(g.c)] # g
    BY <1>0, <2>1 DEF Goroutine
  <2>3. QED
    BY <1>2, <2>1, <2>2 DEF Becomes
<1>6. CASE RemoveCall(g)
  <2>1. PICK m : Becomes(g, {m}) /\ m.f = "message"
    <3>1. Message(g, "Terminated", g.copy.user).f = "message"
      BY <1>0 DEF Message, Goroutine
    <3>2. QED
      BY <1>6, <3>1 DEF RemoveCall
  <2>2. QED
    BY <2>1 DEF Becomes
<1>7. CASE TearDown(g)
  <2>1. PICK H \in SUBSET Legs : \E unanswered \in SUBSET DialFailures(H) :
          Becomes(g, {[g EXCEPT !.at = "unmap"]} \cup LegEndEvents(H) \cup unanswered)
    BY <1>7, TornDown DEF Becomes
  <2>2. PICK unanswered \in SUBSET DialFailures(H) :
          Becomes(g, {[g EXCEPT !.at = "unmap"]} \cup LegEndEvents(H) \cup unanswered)
    BY <2>1
  <2>3. \A k \in LegEndEvents(H) \cup unanswered : k.f # "clientLeave"
    BY DEF LegEndEvents, DialFailures, GoLeg, Go
  <2>4. [g EXCEPT !.at = "unmap"] # g
    BY <1>0, <1>7 DEF Goroutine, TearDown
  <2>5. QED
    BY <1>2, <2>2, <2>3, <2>4 DEF Becomes
<1>8. CASE CancelTimer(g) \/ Unmap(g)
  BY <1>1, <1>8 DEF CancelTimer, Unmap, Steps
<1>9. QED
  BY <1>3, <1>4, <1>5, <1>6, <1>7, <1>8, HandlerOf DEF ClientLeaveStep

\* A goroutine of a caller that leaves is started by the event, or goes on.
LEMMA LeaveOrigin ==
  ASSUME TimerInv, [Next]_vars, NEW h \in gos' \ gos, h.f = "clientLeave"
  PROVE  \/ Starts(h)
         \/ \E g \in gos : g.f = "clientLeave" /\ g.c = h.c /\ Step(g) /\ Succeeds(g, h)
<1>1. ASSUME NEW g \in gos, Step(g), Succeeds(g, h) PROVE g.f = "clientLeave" /\ g.c = h.c
  <2>1. ResetCall(g) => g.f # "clientLeave"
    BY TimerFacts DEF ResetCall, InPlace, Ending
  <2>2. QED
    BY <1>1, <2>1 DEF Succeeds, Resumes, Sending
<1>2. QED
  BY <1>1, Origin

\* A call ends by the Terminate of a caller that has left.
LEMMA WhoTerminates ==
  ASSUME TimerInv, [Next]_vars, NEW c \in Calls,
         call[c].state # "Terminated", call'[c].state = "Terminated"
  PROVE  \E g \in gos : g.c = c /\ g.f = "clientLeave" /\ g.at = "terminate" /\ Step(g)
<1>1. PICK g \in gos : g.c = c /\ Changes(g)
  BY WhoChanges DEF SameAs
<1>2. /\ call \in [Calls -> Call]
      /\ InPlace(g)
  BY TimerFacts DEF DataOK
<1>3. ASSUME NEW r, call' = [call EXCEPT ![c] = r], r.state # "Terminated" PROVE FALSE
  BY <1>2, <1>3
<1>4. Terminate(g) /\ g.f = "clientLeave"
  BY <1>1, <1>2 DEF Changes, QueueProcessStart, OfferTaken, AgentJoins, SetBridged, ResetCall, Call
<1>5. QED
  BY <1>1, <1>4 DEF Terminate, Step, ClientLeaveStep

\* No step leaves the invariant of the callers that leave.
LEMMA LeaveInductive == LeaveInv /\ [Next]_vars => LeaveInv'
<1> SUFFICES ASSUME LeaveInv, [Next]_vars PROVE LeaveInv'
  OBVIOUS
<1>1. TimerInv /\ TimerInv' /\ EndInv'
  BY TimerInductive DEF LeaveInv, TimerInv
<1>2. \A g \in gos : g \in Goroutine /\ g.c \in Calls
  BY <1>1, TimerFacts
<1>3. \A g \in gos' : g.c \in Calls
  BY <1>1, SoundTypes DEF TimerInv, EndInv, IInv
<1>4. \A g \in gos : g.f = "clientLeave" => clientCh[g.c] = "gone"
  BY DEF LeaveInv, Leaving
<1>5. \A g \in gos' : g.f = "clientLeave" => clientCh'[g.c] = "gone"
  BY <1>1 DEF EndInv, Ends
<1>6. ASSUME NEW c \in Calls, clientCh[c] = "gone" PROVE clientCh'[c] = "gone"
  BY <1>1, <1>6, WhoseClient
<1>7. ASSUME NEW c \in Calls PROVE StateEnds(c)'
  BY <1>1, <1>4, <1>6, WhoTerminates DEF StateEnds, LeaveInv
<1>12. ASSUME NEW c \in Calls PROVE Unqueued(c)' /\ Idle(c)'
  BY <1>1, UnqueuedStays, IdleStays DEF LeaveInv
<1>8. ASSUME NEW c \in Calls PROVE Present(c)'
  <2> SUFFICES ASSUME clientCh'[c] = "stasis"
               PROVE  c \in calls' \/ (call'[c].state = "New" /\ ~Starting(c)')
    BY DEF Present
  <2>1. CASE c \in calls
    <3>1. clientCh[c] # "none"
      BY <2>1 DEF LeaveInv, Idle
    <3>2. clientCh[c] = "stasis"
      BY <1>1, <3>1, WhoseClient
    <3>3. QED
      BY <1>1, <1>4, <2>1, <3>2, WhoseMaps
  <2>2. CASE c \notin calls
    <3>1. call[c].state = "New" /\ ~Starting(c) /\ Unqueued(c)
      <4>1. CASE clientCh[c] = "none"
        <5>1. \A g \in gos : g.c # c
          BY <1>1, <4>1, TimerFacts DEF Placed
        <5>2. QED
          BY <4>1, <5>1 DEF LeaveInv, Idle, Starting
      <4>2. CASE clientCh[c] # "none"
        BY <1>1, <2>2, <4>2, WhoseClient DEF LeaveInv, Present
      <4>3. QED
        BY <4>1, <4>2 DEF LeaveInv
    <3>2. call'[c].state = "New"
      <4>1. \A g \in gos : g.f = "clientLeave" => g.c # c
        BY <1>4, <1>6
      <4>2. QED
        BY <1>1, <3>1, <4>1, WhoBegins DEF QueueProcessStart, Starting
    <3>3. ASSUME Starting(c)' PROVE c \in calls'
      <4>1. PICK h \in gos' : h.f = "enter" /\ h.at = "start" /\ h.c = c
        BY <3>3 DEF Starting
      <4>2. h \notin gos
        BY <3>1, <4>1 DEF Starting
      <4>3. PICK g \in gos : g.c = c /\ RegisterCall(g)
        BY <1>1, <4>1, <4>2, EnterGoesOn
      <4>4. QED
        BY <4>3 DEF RegisterCall
    <3>4. QED
      BY <3>2, <3>3
  <2>3. QED
    BY <2>1, <2>2
<1>9. OneLeave'
  <2> SUFFICES ASSUME NEW h \in gos', NEW k \in gos', h.f = "clientLeave", k.f = "clientLeave", h.c = k.c
               PROVE  h = k
    BY DEF OneLeave
  <2>1. ASSUME NEW a \in gos' \ gos, NEW b \in gos' \cap gos, a.f = "clientLeave", b.f = "clientLeave", a.c = b.c
        PROVE  FALSE
    <3>1. ~Starts(a)
      BY <1>4, <2>1 DEF Starts
    <3>2. PICK g \in gos : g.f = "clientLeave" /\ g.c = a.c /\ Step(g)
      BY <1>1, <2>1, <3>1, LeaveOrigin
    <3>3. g = b
      BY <2>1, <3>2 DEF LeaveInv, OneLeave
    <3>4. QED
      BY <1>1, <3>2, <3>3, LeaverMoves
  <2>2. ASSUME h \in gos' \ gos, k \in gos' \ gos PROVE h = k
    <3>1. CASE Starts(h) /\ Starts(k)
      BY <3>1 DEF Starts
    <3>2. ASSUME NEW a \in {h, k}, ~Starts(a) PROVE h = k
      <4>1. PICK g \in gos : g.f = "clientLeave" /\ g.c = a.c /\ Step(g)
        BY <1>1, <2>2, <3>2, LeaveOrigin
      <4>2. QED
        BY <1>1, <2>2, <4>1, LeaverMoves
    <3>3. QED
      BY <3>1, <3>2
  <2>3. CASE h \in gos /\ k \in gos
    BY <2>3 DEF LeaveInv, OneLeave
  <2>4. QED
    BY <2>1, <2>2, <2>3
<1>10. ASSUME NEW h \in gos' PROVE Leaving(h)'
  <2> SUFFICES ASSUME h.f = "clientLeave", h.at \in {"lookup", "lock", "terminate"},
                      call'[h.c].state = "Terminated"
               PROVE  FALSE
    BY <1>5 DEF Leaving
  <2> DEFINE c == h.c
  <2>0. c \in Calls
    BY <1>3
  <2>1. CASE call[c].state # "Terminated"
    <3>1. PICK g \in gos : g.c = c /\ g.f = "clientLeave" /\ g.at = "terminate" /\ Step(g)
      BY <1>1, <2>0, <2>1, WhoTerminates
    <3>2. CASE h \in gos
      BY <1>1, <3>1, <3>2, LeaverMoves DEF LeaveInv, OneLeave
    <3>3. CASE h \notin gos
      <4>1. ~Starts(h)
        BY <1>4, <3>1 DEF Starts
      <4>2. PICK k \in gos : k.f = "clientLeave" /\ k.c = c /\ Step(k) /\ Succeeds(k, h)
        BY <1>1, <3>3, <4>1, LeaveOrigin
      <4>3. k = g
        BY <3>1, <4>2 DEF LeaveInv, OneLeave
      <4>4. ~ClientLeft(k) /\ ~ReasonOfLeave(k)
        BY <3>1, <4>3 DEF ClientLeft, ReasonOfLeave
      <4>5. QED
        BY <4>2, <4>4 DEF Succeeds, Resumes, Sending
    <3>4. QED
      BY <3>2, <3>3
  <2>2. CASE call[c].state = "Terminated"
    <3>1. h \notin gos
      BY <2>2 DEF LeaveInv, Leaving
    <3>2. ~Starts(h)
      BY <2>0, <2>2 DEF LeaveInv, StateEnds, Starts
    <3>3. PICK k \in gos : k.f = "clientLeave" /\ k.c = c /\ Step(k) /\ Succeeds(k, h)
      BY <1>1, <3>1, <3>2, LeaveOrigin
    <3>4. ClientLeft(k) \/ ReasonOfLeave(k)
      BY <3>3 DEF Succeeds, Resumes, Sending
    <3>5. k.at \in {"lookup", "lock"}
      BY <3>4 DEF ClientLeft, ReasonOfLeave
    <3>6. QED
      BY <2>2, <3>3, <3>5 DEF LeaveInv, Leaving
  <2>3. QED
    BY <2>1, <2>2
<1>11. QED
  BY <1>1, <1>7, <1>8, <1>9, <1>10, <1>12 DEF LeaveInv

\* Nobody is there to leave at the start.
LEMMA InitLeave == Init => LeaveInv
BY InitTimer
   DEF Init, LeaveInv, StateEnds, Present, Starting, Unqueued, Idle, OneLeave, Leaving, Fresh, NewCall,
       TimerInv

-----------------------------------------------------------------------------
(* Who takes a bridge down. *)

\* Bridge and BridgedChannel of a call are set and cleared together.
Paired(c) == call[c].bridge <=> call[c].bridged # NoLeg

\* A goroutine that is about to terminate the bridge of its call.
Tears(g) == g.at = "teardown" /\ g.copy.bridge

\* A goroutine that takes the bridge down whatever happens to it.
WillTear(g) ==
  \/ /\ g.f = "clientLeave" /\ g.at \in {"lookup", "lock", "terminate"}
     /\ call[g.c].bridge /\ (g.at = "lookup" => g.c \in calls)
  \/ g.f = "clientLeave" /\ g.at = "cancel" /\ g.copy.bridge
  \/ Tears(g)
  \/ /\ g.f = "bridge" /\ g.at \in {"reset"} \cup (Bridging \ {"accept"})
     /\ call[g.c].bridge

Owned(c) ==
  bridge[c].up /\ ~Failed("bridge", c) =>
    /\ ~Before(c)
    /\ call[c].state # "New"
    /\ call[c].bridge \/ clientCh[c] = "gone" \/ \E g \in gos : g.c = c /\ Tears(g)
    /\ clientCh[c] = "gone" => \E g \in gos : g.c = c /\ WillTear(g)

OwnInv ==
  /\ AttemptInv
  /\ LeaveInv
  /\ \A c \in Calls : Paired(c) /\ Owned(c)

\* A call that gives its bridge up leaves it to a goroutine that terminates it.
LEMMA GivenUp ==
  ASSUME TimerInv, [Next]_vars, NEW c \in Calls, call[c].bridge, ~call'[c].bridge
  PROVE  \E h \in gos' : h.c = c /\ Tears(h)
<1>1. PICK g \in gos : g.c = c /\ Changes(g)
  BY WhoChanges DEF SameAs
<1>2. ResetCall(g)
  BY <1>1, EffectOf DEF Changes
<1>3. PICK h : h = [g EXCEPT !.at = "teardown", !.copy = CopyOf(g.c)]
  OBVIOUS
<1>4. h \in gos'
  BY <1>2, <1>3 DEF ResetCall, Becomes
<1>5. g \in Goroutine
  BY TimerFacts
<1>6. h.c = c /\ h.at = "teardown" /\ h.copy = CopyOf(c)
  BY <1>1, <1>3, <1>5 DEF Goroutine
<1>7. h.copy.bridge
  BY <1>6 DEF CopyOf
<1>8. QED
  BY <1>4, <1>6, <1>7 DEF Tears

\* A bridge that stays up, its deletion not having failed, has not been terminated.
LEMMA StillTears ==
  ASSUME TimerInv, [Next]_vars, NEW w \in gos, Tears(w), bridge'[w.c].up, ~Failed("bridge", w.c)'
  PROVE  w \in gos'
<1>1. SUFFICES ASSUME w \notin gos' PROVE FALSE
  OBVIOUS
<1>2. Step(w) /\ w.c \in Calls /\ w.f \in Handlers /\ InPlace(w) /\ DataOK
  BY <1>1, Mover, TimerFacts DEF Goroutine
<1>3. TearDown(w)
  BY <1>2 DEF Tears, Step, EnterStep, RejectSetup, RejectSetupFails, RegisterCall,
     NoQueueToEnter, PublishNewFails, QueueProcessStart, ScheduleTimeout, PublishNew,
     OfferStep, OfferLookup, NoQueueForOffer, OfferIgnored, OfferDismissed,
     OfferBeyondLimit, OfferTaken, AddAgentCallMap, Originate, OriginateFails,
     AgentEnterStep, LegLookup, LateAgentGone, AgentJoins, BridgeStep, SetBridged,
     CreateBridge, AddClient, AddLeg, AddOutBoundCall, SetMemberVariable,
     PublishAccepted, NoAnswerStep, AgentLeaveStep, AgentLeft, AgentLeftFails,
     ClientLeaveStep, ClientLeft, ReasonOfLeave, AlreadyTerminated, Terminate,
     LogOnTerminate, LogOnTerminateFails, RemoveCall, TimeoutStep, TimeoutLookup,
     TimeoutReached, ReSetupStep, ResetCall, Unmap, PublishRejected, CancelTimer,
     HangupClient, HangupClientFails, Send, SendFails
<1>4. failed' # failed \cup {<<"bridge", w.c>>} /\ w.copy.bridge
  BY DEF Failed, Tears
<1>5. bridge' = [bridge EXCEPT ![w.c] = NoBridge]
  BY <1>2, <1>3, <1>4, TornBridge
<1>6. bridge'[w.c] = NoBridge
  BY <1>2, <1>5 DEF DataOK
<1>7. QED
  BY <1>6 DEF NoBridge

\* No step leaves a bridge without a goroutine that takes it down, once the caller is gone.
LEMMA OwnInductive ==
  ASSUME ~OriginateMayBeLost PROVE OwnInv /\ [Next]_vars => OwnInv'
<1> SUFFICES ASSUME OwnInv, [Next]_vars PROVE OwnInv'
  OBVIOUS
<1>1. AttemptInv' /\ LeaveInv'
  BY AttemptInductive, LeaveInductive DEF OwnInv
<1>2. AttemptInv /\ LeaveInv /\ TimerInv
  BY DEF OwnInv, AttemptInv
<1>3. \A g \in gos : g \in Goroutine /\ g.c \in Calls /\ g.f \in Handlers /\ InPlace(g)
  BY <1>2, TimerFacts DEF Goroutine
<1>4. \A g \in gos : g.f = "bridge" /\ g.at \in Bridging => call[g.c].bridge
  <2> SUFFICES ASSUME NEW g \in gos, g.f = "bridge", g.at \in Bridging PROVE call[g.c].bridge
    OBVIOUS
  <2>1. call[g.c].bridged = g.leg /\ g.leg \in Legs
    BY <1>2 DEF AttemptInv, Carries, Carried
  <2>2. call[g.c].bridged # NoLeg
    BY <2>1, NoLegAssumption
  <2>3. QED
    BY <1>3, <2>2 DEF OwnInv, Paired
<1>5. ASSUME NEW c \in Calls PROVE Paired(c)'
  <2>1. CASE SameAs(call'[c], call[c])
    BY <2>1 DEF OwnInv, Paired, SameAs
  <2>2. ASSUME NEW g \in gos, g.c = c, Changes(g) PROVE Paired(c)'
    <3>1. CASE g.f = "bridge" /\ SetBridged(g)
      <4>1. g.leg \in Legs
        BY <1>2, <3>1, TimerFacts DEF Sound, LegHandlers
      <4>2. QED
        BY <1>2, <2>2, <3>1, <4>1, EffectOf, NoLegAssumption DEF Paired
    <3>2. CASE ResetCall(g)
      BY <1>2, <2>2, <3>2, EffectOf DEF Paired
    <3>3. CASE ~(g.f = "bridge" /\ SetBridged(g)) /\ ~ResetCall(g)
      BY <1>2, <2>2, <3>3, EffectOf DEF Changes, OwnInv, Paired
    <3>4. QED
      BY <3>1, <3>2, <3>3
  <2>3. QED
    BY <1>2, <2>1, <2>2, WhoChanges
<1>6. ASSUME NEW c \in Calls PROVE Owned(c)'
  <2> SUFFICES ASSUME bridge'[c].up, ~Failed("bridge", c)'
               PROVE  /\ ~Before(c)'
                      /\ call'[c].state # "New"
                      /\ call'[c].bridge \/ clientCh'[c] = "gone" \/ \E g \in gos' : g.c = c /\ Tears(g)
                      /\ clientCh'[c] = "gone" => \E g \in gos' : g.c = c /\ WillTear(g)'
    BY DEF Owned, Tears
  <2>1. CASE ~bridge[c].up
    <3>1. PICK g \in gos : g.c = c /\ g.f = "bridge" /\ CreateBridge(g)
      BY <1>2, <2>1, WhoseBridge
    <3>2. ~Before(c)'
      BY <1>2, <3>1, Later, StaysAfter DEF Harmless
    <3>3. call[c].bridge /\ call' = call
      BY <1>4, <3>1 DEF CreateBridge, Bridging
    <3>4. Goto(g, "addClient") \/ Goto(g, "reset")
      BY <3>1 DEF CreateBridge
    <3>5. PICK step \in {"addClient", "reset"} : Goto(g, step)
      BY <3>4
    <3>6. PICK h \in gos' : Resumes(g, h) /\ h.at = step
      BY <1>3, <3>5, InFlight DEF Steps
    <3>7. h.c = c /\ WillTear(h)'
      BY <3>1, <3>3, <3>6 DEF Resumes, WillTear, Bridging
    <3>8. call'[c].state # "New"
      BY <1>2, <3>1, <3>3 DEF LeaveInv, Unqueued, Harmless
    <3>9. QED
      BY <3>2, <3>3, <3>7, <3>8
  <2>2. CASE bridge[c].up
    <3>0. ~Failed("bridge", c)
      BY HistoryGrows DEF Failed
    <3>01. call[c].state # "New" /\ call'[c].state # "New"
      BY <1>2, <2>2, <3>0, NeverNewAgain DEF OwnInv, Owned
    <3>1. /\ ~Before(c) /\ ~Before(c)'
          /\ call[c].bridge \/ clientCh[c] = "gone" \/ \E g \in gos : g.c = c /\ Tears(g)
          /\ clientCh[c] = "gone" => \E g \in gos : g.c = c /\ WillTear(g)
      BY <1>2, <2>2, <3>0, StaysAfter DEF OwnInv, Owned
    <3>2. ASSUME NEW w \in gos, w.c = c, Tears(w) PROVE w \in gos'
      BY <1>2, <3>2, StillTears
    <3>3. ASSUME call[c].bridge, ~call'[c].bridge PROVE \E h \in gos' : h.c = c /\ Tears(h)
      BY <1>2, <3>3, GivenUp
    <3>4. \A h \in gos' : Tears(h) => WillTear(h)'
      BY DEF WillTear, Tears
    <3>5. clientCh[c] = "gone" => clientCh'[c] = "gone"
      BY <1>2, WhoseClient
    <3>6. call'[c].bridge \/ clientCh'[c] = "gone" \/ \E g \in gos' : g.c = c /\ Tears(g)
      BY <3>1, <3>2, <3>3, <3>5
    <3>7. ASSUME clientCh[c] # "gone", clientCh'[c] = "gone"
          PROVE  \E g \in gos' : g.c = c /\ WillTear(g)'
      <4>1. PICK h : h = Go("clientLeave", "lookup", c) /\ h \in gos'
        BY <1>2, <3>7, WhoseClient
      <4>2. h.f = "clientLeave" /\ h.at = "lookup" /\ h.c = c
        BY <4>1 DEF Go
      <4>3. c \in calls
        BY <3>01, <3>1, <3>7, <1>2, WhoseClient DEF LeaveInv, Present, Before
      <4>4. c \in calls'
        BY <1>2, <3>7, <4>3, WhoseMaps DEF LeaveInv, Leaving
      <4>5. CASE call'[c].bridge
        BY <4>1, <4>2, <4>4, <4>5 DEF WillTear
      <4>6. CASE ~call'[c].bridge
        BY <3>1, <3>2, <3>3, <3>4, <3>7, <4>6
      <4>7. QED
        BY <4>5, <4>6
    <3>8. ASSUME clientCh[c] = "gone" PROVE \E g \in gos' : g.c = c /\ WillTear(g)'
      <4>1. PICK w \in gos : w.c = c /\ WillTear(w)
        BY <3>1, <3>8
      <4>2. CASE Tears(w)
        BY <3>2, <3>4, <4>1, <4>2
      <4>3. CASE call[c].bridge /\ ~call'[c].bridge
        BY <3>3, <3>4, <4>3
      <4>4. ASSUME ~Tears(w), call[c].bridge => call'[c].bridge, w \in gos'
            PROVE  WillTear(w)'
        <5>1. ASSUME w.f = "clientLeave", w.at = "lookup", c \in calls PROVE c \in calls'
          <6>1. \A g \in gos : g.c = c /\ g.f = "clientLeave" => g = w
            BY <1>2, <4>1, <5>1 DEF LeaveInv, OneLeave
          <6>2. ~RemoveCall(w)
            BY <5>1 DEF RemoveCall
          <6>3. QED
            BY <1>2, <5>1, <6>1, <6>2, WhoseMaps
        <5>2. QED
          BY <4>1, <4>4, <5>1 DEF WillTear, Tears
      <4>5. ASSUME ~Tears(w), call[c].bridge => call'[c].bridge, w \notin gos'
            PROVE  \E g \in gos' : g.c = c /\ WillTear(g)'
        <5>0. Step(w)
          BY <4>5, Mover
        <5>1. CASE w.f = "clientLeave"
          <6>1. ClientLeaveStep(w) \/ CancelTimer(w) \/ TearDown(w) \/ Unmap(w)
            BY <1>2, <5>0, <5>1, HandlerOf
          <6>2. CASE w.at = "lookup"
            <7>1. Goto(w, "lock") /\ call' = call
              BY <4>1, <5>1, <6>1, <6>2 DEF WillTear, Tears, ClientLeaveStep, ClientLeft, ReasonOfLeave,
                 AlreadyTerminated, Terminate, LogOnTerminate, LogOnTerminateFails, RemoveCall, CancelTimer,
                 TearDown, Unmap
            <7>2. PICK h \in gos' : Resumes(w, h) /\ h.at = "lock"
              BY <1>3, <7>1, InFlight DEF Steps
            <7>3. QED
              BY <4>1, <5>1, <6>2, <7>1, <7>2 DEF WillTear, Tears, Resumes
          <6>3. CASE w.at = "lock"
            <7>1. ReasonOfLeave(w)
              BY <6>1, <6>3 DEF ClientLeaveStep, ClientLeft, ReasonOfLeave,
                 AlreadyTerminated, Terminate, LogOnTerminate, LogOnTerminateFails, RemoveCall, CancelTimer,
                 TearDown, Unmap
            <7>2. PICK h, r : h = [w EXCEPT !.at = "terminate", !.arg = r] /\ h \in gos'
              BY <7>1 DEF ReasonOfLeave, Becomes
            <7>3. h.f = "clientLeave" /\ h.c = c /\ h.at = "terminate"
              BY <1>3, <4>1, <5>1, <7>2 DEF Goroutine
            <7>4. call' = call
              BY <7>1 DEF ReasonOfLeave
            <7>5. QED
              BY <4>1, <5>1, <6>3, <7>2, <7>3, <7>4 DEF WillTear, Tears
          <6>4. CASE w.at = "terminate"
            <7>1. Terminate(w)
              BY <1>2, <5>1, <6>1, <6>4 DEF ClientLeaveStep, ClientLeft, ReasonOfLeave,
                 AlreadyTerminated, Terminate, LogOnTerminate, LogOnTerminateFails, RemoveCall, CancelTimer,
                 TearDown, Unmap,
                 LeaveInv, Leaving
            <7>2. PICK h : h = [w EXCEPT !.at = "cancel", !.copy = CopyOf(c)] /\ h \in gos'
              BY <4>1, <7>1 DEF Terminate, Becomes
            <7>3. h.f = "clientLeave" /\ h.c = c /\ h.at = "cancel" /\ h.copy = CopyOf(c)
              BY <1>3, <4>1, <5>1, <7>2 DEF Goroutine
            <7>4. h.copy.bridge
              BY <4>1, <5>1, <6>4, <7>3 DEF CopyOf, WillTear, Tears
            <7>5. QED
              BY <7>2, <7>3, <7>4 DEF WillTear
          <6>5. CASE w.at = "cancel"
            <7>1. Goto(w, "teardown")
              BY <5>1, <6>1, <6>5 DEF ClientLeaveStep, ClientLeft, ReasonOfLeave,
                 AlreadyTerminated, Terminate, LogOnTerminate, LogOnTerminateFails, RemoveCall, CancelTimer,
                 TearDown, Unmap
            <7>2. PICK h \in gos' : Resumes(w, h) /\ h.at = "teardown"
              BY <1>3, <7>1, InFlight DEF Steps
            <7>3. QED
              BY <3>4, <4>1, <5>1, <6>5, <7>2 DEF WillTear, Tears, Resumes
          <6>6. QED
            BY <4>1, <4>5, <5>1, <6>2, <6>3, <6>4, <6>5 DEF WillTear, Tears
        <5>2. CASE w.f = "bridge"
          <6>1. w.at \in {"reset"} \cup (Bridging \ {"accept"}) /\ call[c].bridge /\ call'[c].bridge
            BY <4>1, <4>5, <5>2 DEF WillTear, Tears
          <6>2. BridgeStep(w) \/ ReSetupStep(w)
            BY <1>2, <5>0, <5>2, HandlerOf
          <6>3. ~ResetCall(w)
            BY <1>2, <4>1, <6>1, EffectOf
          <6>4. \E step \in {"reset"} \cup (Bridging \ {"accept"}) : Goto(w, step)
            BY <3>8, <4>1, <6>1, <6>2, <6>3 DEF BridgeStep, SetBridged, CreateBridge, AddClient, AddLeg,
               AddOutBoundCall, SetMemberVariable, PublishAccepted, ReSetupStep, TearDown, Unmap,
               PublishRejected, Bridging
          <6>5. PICK step \in {"reset"} \cup (Bridging \ {"accept"}) : Goto(w, step)
            BY <6>4
          <6>6. PICK h \in gos' : Resumes(w, h) /\ h.at = step
            BY <1>3, <6>5, InFlight DEF Steps, Bridging
          <6>7. QED
            BY <4>1, <5>2, <6>1, <6>6 DEF WillTear, Resumes
        <5>3. QED
          BY <4>1, <4>5, <5>1, <5>2 DEF WillTear
      <4>6. QED
        BY <4>1, <4>2, <4>3, <4>4, <4>5
    <3>9. QED
      BY <3>01, <3>1, <3>6, <3>7, <3>8
  <2>3. QED
    BY <2>1, <2>2
<1>7. QED
  BY <1>1, <1>5, <1>6 DEF OwnInv

\* There is no bridge at the start.
LEMMA InitOwn == Init => OwnInv
BY InitAttempt, InitLeave DEF Init, OwnInv, Paired, Owned, NewCall, NoBridge

\* In every behaviour the bridge of a call whose caller is gone has been terminated when
\* nothing of the call is in flight, unless a request to delete it failed
\* (call.go:416-419): however bridgeCall, reSetupCallForQueue and terminateCall were
\* interleaved, and whichever of their other requests failed (handlers.ari.go:120-177,
\* 184-211, call.go:122-160).
THEOREM BridgeEndsWithCall ==
  ASSUME ~OriginateMayBeLost PROVE Spec => []NoOrphanBridge
<1>1. OwnInv => NoOrphanBridge
  BY DEF OwnInv, Owned, NoOrphanBridge, Quiet
<1>2. QED
  BY <1>1, InitOwn, OwnInductive, PTL DEF Spec

-----------------------------------------------------------------------------
(* A waiting call is offered, or AID knows that it waits. *)

\* An attempt that nobody carries on rings.
TakenUp(c) ==
  call[c].state = "InQueue" /\ call[c].inDistribution /\ c \in calls =>
    legCh[call[c].leg] = "dialing" \/ \E g \in gos : Carries(g) /\ g.c = c

\* The leg of an attempt is found in agentCalltoCall, or is about to be.
Mapped(c) ==
  call[c].inDistribution /\ (call[c].state = "InQueue" \/ clientCh[c] = "stasis") =>
    call[c].leg \in agentMap \/ \E g \in gos : g.f = "offer" /\ g.at = "map" /\ g.c = c

\* A goroutine that tells AID of the call when it is done, or takes the call further.
Stirs(g) ==
  \/ g.f \in {"enter", "offer", "bridge", "noAnswer"}
  \/ g.f \in Sending /\ g.arg \in {"Rejected", "Dismissed"}

Known(c) ==
  /\ c \in calls /\ clientCh[c] = "stasis" /\ ~LostToAid(c)
  /\ call[c].state = "InQueue" /\ ~call[c].inDistribution
  => aid[c].state \in {"New", "Rejected", "Dismissed"} \/ \E g \in gos : Stirs(g) /\ g.c = c

\* Legs are numbered by the attempts of the call.
Numbered(c) ==
  \A l \in Legs \cap {call[c].leg, call[c].bridged} : l[1] = c /\ l[3] <= call[c].attempts

Unentered(c) == Before(c) => ~call[c].inDistribution

\* The legs that are hung up belong to attempts that are over, unless the call ends.
Spent(g) ==
  g.at \in {"teardown", "unmap"} \/ (g.f = "clientLeave" /\ g.at = "cancel") =>
    \A l \in Legs \cap {g.copy.leg, g.copy.bridged} :
      /\ l[1] = g.c /\ l[3] <= call[g.c].attempts
      /\ Current(l) => g.f = "clientLeave" /\ call[g.c].state # "InQueue"

Joined(g) == Carries(g) /\ g.f \in {"bridge"} \cup Sending => call[g.c].state # "InQueue"

Told(g) == g.f \in Sending /\ g.arg = "Terminated" => clientCh[g.c] = "gone"

WaitInv ==
  /\ AttemptInv
  /\ LeaveInv
  /\ \A c \in Calls : TakenUp(c) /\ Mapped(c) /\ Known(c) /\ Numbered(c) /\ Unentered(c)
  /\ \A g \in gos : Spent(g) /\ Joined(g) /\ Told(g)

\* What the invariant gives of the goroutines before and after a step.
LEMMA WaitFacts ==
  ASSUME ~OriginateMayBeLost, WaitInv, [Next]_vars
  PROVE  /\ AttemptInv /\ AttemptInv' /\ LeaveInv /\ LeaveInv' /\ TimerInv /\ TimerInv' /\ DataOK /\ DataOK'
         /\ \A g \in gos : g \in Goroutine /\ g.c \in Calls /\ g.f \in Handlers /\ InPlace(g)
         /\ \A g \in gos' : g \in Goroutine /\ g.c \in Calls /\ g.f \in Handlers /\ InPlace(g)
<1>1. AttemptInv /\ AttemptInv' /\ LeaveInv /\ LeaveInv' /\ TimerInv /\ TimerInv'
  BY AttemptInductive, LeaveInductive DEF WaitInv, LeaveInv
<1>2. /\ DataOK
      /\ \A g \in gos : g \in Goroutine /\ g.c \in Calls /\ g.f \in Handlers /\ InPlace(g)
  BY <1>1, TimerFacts DEF Goroutine
<1>3. DataOK' /\ \A g \in gos' : g \in Sound /\ InPlace(g)
  BY <1>1 DEF TimerInv, EndInv, IInv, Placed, InPlace
<1>4. \A g \in gos' : g \in Goroutine /\ g.c \in Calls /\ g.f \in Handlers
  BY <1>3, SoundTypes DEF Goroutine
<1>5. QED
  BY <1>1, <1>2, <1>3, <1>4

\* Who gives an attempt up carried it, and carries nothing on.
LEMMA ResetCarries ==
  ASSUME NEW g \in Goroutine, g.f \in {"offer", "bridge", "noAnswer"}, ResetCall(g)
  PROVE  /\ Carries(g) /\ g \notin gos'
         /\ \E h \in gos' : /\ h.f = g.f /\ h.c = g.c /\ h.at = "teardown" /\ h.copy = CopyOf(g.c)
                            /\ gos' = (gos \ {g}) \cup {h}
<1>1. PICK h : h = [g EXCEPT !.at = "teardown", !.copy = CopyOf(g.c)] /\ gos' = (gos \ {g}) \cup {h}
  BY DEF ResetCall, Becomes
<1>2. h.f = g.f /\ h.c = g.c /\ h.at = "teardown" /\ h.copy = CopyOf(g.c)
  BY <1>1 DEF Goroutine
<1>3. g.at = "reset" /\ Carries(g)
  BY DEF ResetCall, Carries
<1>4. QED
  BY <1>1, <1>2, <1>3

\* A call is put back in the queue by who enters it and by who gives its attempt up.
LEMMA WhoQueues ==
  ASSUME TimerInv, [Next]_vars, NEW c \in Calls,
         call[c].state # "InQueue", call'[c].state = "InQueue"
  PROVE  \E g \in gos : /\ g.c = c
                        /\ \/ g.f = "enter" /\ QueueProcessStart(g)
                           \/ g.f \in {"offer", "bridge", "noAnswer"} /\ ResetCall(g)
<1>1. PICK g \in gos : g.c = c /\ Changes(g)
  BY WhoChanges DEF SameAs
<1>2. QED
  BY <1>1, EffectOf DEF Changes

\* Attempts are counted up.
LEMMA CountsUp ==
  ASSUME TimerInv, [Next]_vars, NEW c \in Calls
  PROVE  call[c].attempts \in Nat /\ call'[c].attempts \in Nat /\ call[c].attempts <= call'[c].attempts
<1>1. call[c].attempts \in Nat
  BY TimerFacts, CallAssumption DEF Call
<1>2. CASE SameAs(call'[c], call[c])
  BY <1>1, <1>2 DEF SameAs
<1>3. CASE ~SameAs(call'[c], call[c])
  <2>1. PICK g \in gos : g.c = c /\ Changes(g)
    BY <1>3, WhoChanges
  <2>2. call'[c].attempts \in {call[c].attempts, call[c].attempts + 1}
    BY <2>1, EffectOf DEF Changes
  <2>3. QED
    BY <1>1, <2>2
<1>4. QED
  BY <1>2, <1>3

\* A carrier has the leg of the attempt that its call is in.
LEMMA CarriesCurrent ==
  ASSUME AttemptInv, NEW g \in gos, Carries(g)
  PROVE  /\ g.leg \in Legs /\ g.leg[1] = g.c /\ call[g.c].inDistribution /\ call[g.c].leg = g.leg
         /\ ~Before(g.c)
         /\ \A h \in gos : Carries(h) /\ h.c = g.c => h = g
<1>1. Carried(g)
  BY DEF AttemptInv
<1>2. ~Before(g.c)
  BY Later DEF AttemptInv, Carries, Harmless, Sending
<1>3. QED
  BY <1>1, <1>2 DEF Carried, Current

\* An attempt stays the attempt of its call: only OfferTaken begins another one.
LEMMA NewAttempt ==
  ASSUME AttemptInv, [Next]_vars, NEW c \in Calls, call'[c].inDistribution,
         ~(call[c].inDistribution /\ call[c].leg = call'[c].leg)
  PROVE  \E g \in gos : g.c = c /\ g.f = "offer" /\ OfferTaken(g)
<1>1. PICK g \in gos : g.c = c /\ Changes(g)
  BY WhoChanges DEF SameAs, AttemptInv
<1>2. TimerInv
  BY DEF AttemptInv
<1>3. g.f = "bridge" /\ SetBridged(g) => call[c].inDistribution /\ call[c].leg = g.leg
  <2>1. g.f = "bridge" /\ SetBridged(g) => Carries(g)
    BY DEF SetBridged, Carries
  <2>2. QED
    BY <1>1, <2>1, CarriesCurrent
<1>4. QED
  BY <1>1, <1>2, <1>3, EffectOf DEF Changes

\* A waiting call has neither been told to AID as accepted nor as terminated.
LEMMA JoinedStays ==
  ASSUME ~OriginateMayBeLost, WaitInv, [Next]_vars, NEW h \in gos'
  PROVE  Joined(h)' /\ Told(h)'
<1>0. /\ AttemptInv /\ TimerInv /\ TimerInv'
      /\ \A g \in gos : g \in Goroutine /\ g.c \in Calls /\ g.f \in Handlers /\ InPlace(g)
      /\ h.c \in Calls /\ InPlace(h)
  BY WaitFacts
<1>1. Told(h)'
  <2> SUFFICES ASSUME h.f \in Sending, h.arg = "Terminated" PROVE clientCh'[h.c] = "gone"
    BY DEF Told
  <2>1. clientCh[h.c] = "gone" => clientCh'[h.c] = "gone"
    BY <1>0, WhoseClient
  <2>2. CASE h \in gos
    BY <2>1, <2>2 DEF WaitInv, Told
  <2>3. CASE h \notin gos
    <3>1. ~Starts(h)
      BY DEF Starts, Sending
    <3>2. PICK g \in gos : Step(g) /\ Succeeds(g, h)
      BY <1>0, <2>3, <3>1, Origin
    <3>3. h.at = "send"
      BY <1>0 DEF InPlace, Sending
    <3>4. g.f = "clientLeave" /\ g.c = h.c
      BY <3>2, <3>3 DEF Succeeds, Sending
    <3>5. QED
      BY <2>1, <3>4 DEF WaitInv, LeaveInv, Leaving
  <2>4. QED
    BY <2>2, <2>3
<1>2. Joined(h)'
  <2> SUFFICES ASSUME Carries(h), h.f \in {"bridge"} \cup Sending, call'[h.c].state = "InQueue"
               PROVE  FALSE
    BY DEF Joined, Carries
  <2>1. PICK g \in gos : /\ Carries(g) /\ g.c = h.c /\ g.f \in {"bridge"} \cup Sending
                         /\ g = h \/ (Step(g) /\ Succeeds(g, h))
    <3>1. CASE h \in gos
      BY <3>1
    <3>2. CASE h \notin gos
      <4>1. ~Starts(h)
        BY DEF Starts, Sending
      <4>2. PICK g \in gos : Step(g) /\ Succeeds(g, h)
        BY <1>0, <3>2, <4>1, Origin
      <4>3. CASE h.f = "bridge"
        <5>1. ~AgentJoins(g)
          BY <1>0, <4>2, EffectOf DEF Succeeds
        <5>2. Resumes(g, h) /\ Carries(g) /\ g.c = h.c
          <6>1. h.at # "teardown"
            BY <4>3 DEF Carries, Bridging, Sending
          <6>2. QED
            BY <4>2, <4>3, <5>1, <6>1 DEF Succeeds, Sending
        <5>3. QED
          BY <4>2, <4>3, <5>2 DEF Resumes
      <4>4. CASE h.f \in Sending
        <5>1. h.at = "send" /\ h.arg = "Accepted"
          BY <1>0, <4>4 DEF InPlace, Sending, Carries
        <5>2. g.f = "bridge" /\ PublishAccepted(g) /\ g.c = h.c
          BY <4>2, <4>4, <5>1 DEF Succeeds, Sending
        <5>3. Carries(g)
          BY <5>2 DEF PublishAccepted, Carries, Bridging
        <5>4. QED
          BY <4>2, <5>2, <5>3
      <4>5. QED
        BY <4>3, <4>4
    <3>3. QED
      BY <3>1, <3>2
  <2>2. call[h.c].state # "InQueue"
    BY <2>1 DEF WaitInv, Joined
  <2>3. PICK k \in gos : /\ k.c = h.c
                         /\ \/ k.f = "enter" /\ QueueProcessStart(k)
                            \/ k.f \in {"offer", "bridge", "noAnswer"} /\ ResetCall(k)
    BY <1>0, <2>2, WhoQueues
  <2>4. k.f # "enter"
    BY <1>0, <2>1, <2>3, CarriesCurrent DEF Before
  <2>5. k = g /\ g \notin gos' /\ \E j \in gos' : gos' = (gos \ {g}) \cup {j} /\ j.at = "teardown"
    BY <1>0, <2>1, <2>3, <2>4, CarriesCurrent, ResetCarries
  <2>6. h \in gos' \ gos /\ h.at = "teardown"
    BY <1>0, <2>1, <2>3, <2>5, CarriesCurrent
  <2>7. QED
    BY <1>0, <2>6 DEF Carries, Bridging, Sending, InPlace
<1>3. QED
  BY <1>1, <1>2

\* Legs stay numbered, and no attempt begins before queueProcessStart is over.
LEMMA NumberedStays ==
  ASSUME ~OriginateMayBeLost, WaitInv, [Next]_vars, NEW c \in Calls
  PROVE  Numbered(c)' /\ Unentered(c)'
<1>0. /\ AttemptInv /\ TimerInv
      /\ \A g \in gos : g \in Goroutine /\ g.c \in Calls /\ g.f \in Handlers /\ InPlace(g)
  BY WaitFacts
<1>1. Unentered(c)'
  <2> SUFFICES ASSUME Before(c)', call'[c].inDistribution PROVE FALSE
    BY DEF Unentered
  <2>1. Before(c) /\ ~call[c].inDistribution
    BY <1>0, StaysAfter DEF WaitInv, Unentered
  <2>2. PICK g \in gos : g.c = c /\ g.f = "offer"
    BY <1>0, <2>1, NewAttempt
  <2>3. QED
    BY <1>0, <2>1, <2>2, Later DEF Harmless
<1>2. Numbered(c)'
  <2>1. Numbered(c) /\ call[c].attempts \in Nat /\ call'[c].attempts \in Nat
        /\ call[c].attempts <= call'[c].attempts
    BY <1>0, CountsUp DEF WaitInv
  <2>2. CASE SameAs(call'[c], call[c])
    BY <2>1, <2>2 DEF SameAs, Numbered
  <2>3. ASSUME NEW g \in gos, g.c = c, Changes(g) PROVE Numbered(c)'
    <3>1. CASE OfferTaken(g)
      <4>1. /\ call'[c].attempts = call[c].attempts + 1 /\ call'[c].bridged = call[c].bridged
            /\ call'[c].leg = <<c, g.user, call[c].attempts + 1>>
        BY <1>0, <2>3, <3>1, EffectOf
      <4>2. \A l \in Legs : l \in {call[c].leg, call[c].bridged} => l[1] = c /\ l[3] <= call[c].attempts /\ l[3] \in Nat
        BY <2>1, CallAssumption DEF Numbered, Legs
      <4>3. QED
        BY <2>1, <4>1, <4>2 DEF Numbered
    <3>2. CASE g.f = "bridge" /\ SetBridged(g)
      <4>1. Carries(g)
        BY <3>2 DEF SetBridged, Carries
      <4>2. call[c].leg = g.leg /\ g.leg \in Legs
        BY <1>0, <2>3, <4>1, CarriesCurrent
      <4>3. call'[c].leg = g.leg /\ call'[c].bridged = g.leg /\ call'[c].attempts = call[c].attempts
        BY <1>0, <2>3, <3>2, EffectOf
      <4>4. QED
        BY <2>1, <4>2, <4>3 DEF Numbered
    <3>3. CASE ResetCall(g)
      BY <1>0, <2>3, <3>3, EffectOf, NoLegAssumption DEF Numbered
    <3>4. CASE ~OfferTaken(g) /\ ~(g.f = "bridge" /\ SetBridged(g)) /\ ~ResetCall(g)
      BY <1>0, <2>1, <2>3, <3>4, EffectOf DEF Changes, Numbered
    <3>5. QED
      BY <3>1, <3>2, <3>3, <3>4
  <2>4. QED
    BY <1>0, <2>2, <2>3, WhoChanges
<1>3. QED
  BY <1>1, <1>2

\* A leg that is going to be hung up stays one of an attempt that is over.
LEMMA SpentStays ==
  ASSUME ~OriginateMayBeLost, WaitInv, [Next]_vars, NEW h \in gos'
  PROVE  Spent(h)'
<1>0. /\ AttemptInv /\ TimerInv /\ TimerInv'
      /\ \A g \in gos : g \in Goroutine /\ g.c \in Calls /\ g.f \in Handlers /\ InPlace(g)
      /\ h.c \in Calls /\ InPlace(h)
  BY WaitFacts
<1>1. SUFFICES ASSUME h.at \in {"teardown", "unmap"} \/ (h.f = "clientLeave" /\ h.at = "cancel"),
                      NEW l \in Legs \cap {h.copy.leg, h.copy.bridged}
               PROVE  /\ l[1] = h.c /\ l[3] <= call'[h.c].attempts
                      /\ Current(l)' => h.f = "clientLeave" /\ call'[h.c].state # "InQueue"
  BY DEF Spent
<1> DEFINE c == h.c
<1>2. /\ call[c].attempts \in Nat /\ call'[c].attempts \in Nat /\ call[c].attempts <= call'[c].attempts
      /\ l[3] \in Nat
  BY <1>0, CountsUp, CallAssumption DEF Legs
<1>3. ASSUME l[1] = c, l[3] <= call[c].attempts, Current(l) => h.f = "clientLeave" /\ call[c].state # "InQueue"
      PROVE  /\ l[1] = c /\ l[3] <= call'[c].attempts
             /\ Current(l)' => h.f = "clientLeave" /\ call'[c].state # "InQueue"
  <2>1. SUFFICES ASSUME Current(l)' PROVE h.f = "clientLeave" /\ call'[c].state # "InQueue"
    BY <1>2, <1>3
  <2>2. Current(l)
    <3>1. SUFFICES ASSUME ~Current(l) PROVE FALSE
      OBVIOUS
    <3>2. PICK g \in gos : g.c = c /\ OfferTaken(g)
      BY <1>0, <1>3, <2>1, <3>1, NewAttempt DEF Current
    <3>3. call'[c].leg = <<c, g.user, call[c].attempts + 1>>
      BY <1>0, <3>2, EffectOf
    <3>4. QED
      BY <1>2, <1>3, <2>1, <3>3 DEF Current
  <2>3. ASSUME call'[c].state = "InQueue" PROVE FALSE
    <3>1. PICK k \in gos : /\ k.c = c
                           /\ \/ k.f = "enter" /\ QueueProcessStart(k)
                              \/ k.f \in {"offer", "bridge", "noAnswer"} /\ ResetCall(k)
      BY <1>0, <1>3, <2>2, <2>3, WhoQueues
    <3>2. ~ResetCall(k)
      BY <1>0, <1>3, <2>1, <3>1, EffectOf DEF Current
    <3>3. QED
      BY <1>0, <1>3, <2>2, <3>1, <3>2 DEF WaitInv, Unentered, Before, Current
  <2>4. QED
    BY <1>3, <2>2, <2>3
<1>4. CASE h \in gos
  BY <1>1, <1>3, <1>4 DEF WaitInv, Spent
<1>5. CASE h \notin gos
  <2>1. ~Starts(h)
    BY <1>1 DEF Starts
  <2>2. PICK g \in gos : Step(g) /\ Succeeds(g, h)
    BY <1>0, <1>5, <2>1, Origin
  <2>3. CASE Resumes(g, h) /\ (CancelTimer(g) \/ TearDown(g)) /\ g.f # "timeout"
    <3>1. g.c = c /\ h.copy = g.copy /\ h.f = g.f
      BY <2>3 DEF Resumes
    <3>2. g.at \in {"teardown", "unmap"} \/ (g.f = "clientLeave" /\ g.at = "cancel")
      BY <1>0, <2>3 DEF CancelTimer, TearDown, InPlace, Handlers, ReSetup
    <3>3. QED
      BY <1>3, <3>1, <3>2 DEF WaitInv, Spent
  <2>4. CASE ResetCall(g) /\ g.c = c /\ h.copy = CopyOf(c)
    <3>1. ~call'[c].inDistribution /\ call'[c].attempts = call[c].attempts
      BY <1>0, <2>4, EffectOf
    <3>2. l \in {call[c].leg, call[c].bridged}
      BY <1>1, <2>4 DEF CopyOf
    <3>3. l[1] = c /\ l[3] <= call[c].attempts
      BY <1>0, <3>2 DEF WaitInv, Numbered
    <3>4. QED
      BY <3>1, <3>3 DEF Current
  <2>5. CASE h.f = "clientLeave" /\ g.c = c /\ h.copy = CopyOf(c) /\ Terminate(g)
    <3>1. call'[c].state = "Terminated" /\ call'[c].attempts = call[c].attempts
      BY <1>0, <2>5, EffectOf
    <3>2. l \in {call[c].leg, call[c].bridged}
      BY <1>1, <2>5 DEF CopyOf
    <3>3. l[1] = c /\ l[3] <= call[c].attempts
      BY <1>0, <3>2 DEF WaitInv, Numbered
    <3>4. QED
      BY <2>5, <3>1, <3>3
  <2>6. Succeeds(g, h) => \/ Resumes(g, h) /\ (CancelTimer(g) \/ TearDown(g)) /\ g.f # "timeout"
                          \/ ResetCall(g) /\ g.c = c /\ h.copy = CopyOf(c)
                          \/ h.f = "clientLeave" /\ g.c = c /\ h.copy = CopyOf(c) /\ Terminate(g)
    BY <1>0, <1>1 DEF Succeeds, Resumes, InPlace
  <2>7. QED
    BY <2>2, <2>3, <2>4, <2>5, <2>6
<1>6. QED
  BY <1>4, <1>5

\* A call that is in an attempt stays in it, or the attempt is a new one.
LEMMA AttemptGoesOn ==
  ASSUME ~OriginateMayBeLost, WaitInv, [Next]_vars, NEW c \in Calls, call'[c].inDistribution
  PROVE  \/ \E h \in gos' : h.c = c /\ h.f = "offer" /\ h.at = "map"
         \/ call[c].inDistribution /\ call[c].leg = call'[c].leg /\ call[c].leg \in Legs /\ call[c].leg[1] = c
<1>0. AttemptInv /\ TimerInv /\ \A g \in gos : g \in Goroutine
  BY WaitFacts
<1>1. ASSUME NEW g \in gos, g.c = c, g.f = "offer", OfferTaken(g)
      PROVE  \E h \in gos' : h.c = c /\ h.f = "offer" /\ h.at = "map"
  <2>1. PICK h, l : h = [g EXCEPT !.at = "map", !.leg = l] /\ h \in gos'
    BY <1>1 DEF OfferTaken, Becomes
  <2>2. h.c = c /\ h.f = "offer" /\ h.at = "map"
    BY <1>0, <1>1, <2>1 DEF Goroutine
  <2>3. QED
    BY <2>1, <2>2
<1>2. call[c].inDistribution => call[c].leg \in Legs /\ call[c].leg[1] = c
  BY DEF WaitInv, AttemptInv, Names
<1>3. QED
  BY <1>0, <1>1, <1>2, NewAttempt

\* The leg of an attempt stays in agentCalltoCall.
LEMMA MappedStays ==
  ASSUME ~OriginateMayBeLost, WaitInv, [Next]_vars, NEW c \in Calls
  PROVE  Mapped(c)'
<1>0. /\ AttemptInv /\ TimerInv /\ LeaveInv
      /\ \A g \in gos : g \in Goroutine /\ g.c \in Calls /\ g.f \in Handlers /\ InPlace(g)
  BY WaitFacts
<1>1. SUFFICES ASSUME call'[c].inDistribution, call'[c].state = "InQueue" \/ clientCh'[c] = "stasis"
               PROVE  call'[c].leg \in agentMap' \/ \E g \in gos' : g.f = "offer" /\ g.at = "map" /\ g.c = c
  BY DEF Mapped
<1>2. CASE \E h \in gos' : h.c = c /\ h.f = "offer" /\ h.at = "map"
  BY <1>2
<1>3. CASE ~\E h \in gos' : h.c = c /\ h.f = "offer" /\ h.at = "map"
  <2>1. call[c].inDistribution /\ call[c].leg = call'[c].leg /\ call[c].leg \in Legs /\ call[c].leg[1] = c
    BY <1>1, <1>3, AttemptGoesOn
  <2>2. ~Before(c)
    BY <2>1 DEF WaitInv, Unentered
  <2>3. call[c].state = "InQueue" \/ clientCh[c] = "stasis"
    <3>1. CASE clientCh'[c] = "stasis"
      BY <1>0, <2>2, <3>1, WhoseClient DEF Before
    <3>2. ASSUME call'[c].state = "InQueue", call[c].state # "InQueue" PROVE FALSE
      <4>1. PICK k \in gos : k.c = c /\ (k.f = "enter" \/ ResetCall(k))
        BY <1>0, <3>2, WhoQueues
      <4>2. QED
        BY <1>0, <1>1, <2>2, <4>1, EffectOf DEF Before
    <3>3. QED
      BY <1>1, <3>1, <3>2
  <2>4. CASE call[c].leg \in agentMap
    <3>1. SUFFICES ASSUME call[c].leg \notin agentMap' PROVE FALSE
      BY <2>1
    <3>2. PICK g \in gos : Unmap(g) /\ g.copy.leg = call[c].leg
      BY <1>0, <2>4, <3>1, WhoseMaps
    <3>3. Spent(g) /\ g.at = "unmap" /\ Current(call[c].leg)
      BY <2>1, <3>2 DEF WaitInv, Unmap, Current
    <3>4. g.c = c /\ g.f = "clientLeave" /\ call[c].state # "InQueue"
      BY <2>1, <3>2, <3>3 DEF Spent
    <3>5. clientCh[c] = "gone"
      BY <1>0, <3>4 DEF LeaveInv, Leaving
    <3>6. QED
      BY <2>3, <3>4, <3>5
  <2>5. ASSUME NEW w \in gos, w.f = "offer", w.at = "map", w.c = c
        PROVE  call'[c].leg \in agentMap'
    <3>1. Step(w)
      BY <1>3, <2>5, Mover
    <3>2. AddAgentCallMap(w)
      BY <1>0, <2>5, <3>1, HandlerOf DEF OfferStep, OfferLookup, NoQueueForOffer, OfferIgnored,
         OfferDismissed, OfferBeyondLimit, OfferTaken, Originate, OriginateFails, HangupClient,
         HangupClientFails, ReSetupStep, ResetCall, TearDown, Unmap, PublishRejected
    <3>3. w.leg = call[c].leg
      BY <1>0, <2>5, CarriesCurrent DEF Carries
    <3>4. QED
      BY <1>0, <2>1, <3>2, <3>3, WhoseMaps
  <2>6. QED
    BY <2>1, <2>3, <2>4, <2>5 DEF WaitInv, Mapped
<1>4. QED
  BY <1>2, <1>3

\* An attempt of a waiting call rings or is carried on.
LEMMA TakenUpStays ==
  ASSUME ~OriginateMayBeLost, WaitInv, [Next]_vars, NEW c \in Calls
  PROVE  TakenUp(c)'
<1>0. /\ AttemptInv /\ TimerInv /\ LeaveInv /\ DataOK
      /\ \A g \in gos : g \in Goroutine /\ g.c \in Calls /\ g.f \in Handlers /\ InPlace(g)
  BY WaitFacts
<1>1. SUFFICES ASSUME call'[c].state = "InQueue", call'[c].inDistribution, c \in calls',
                      \A h \in gos' : Carries(h) => h.c # c
               PROVE  legCh'[call'[c].leg] = "dialing"
  BY DEF TakenUp, Carries
<1>2. call[c].inDistribution /\ call[c].leg = call'[c].leg /\ call[c].leg \in Legs /\ call[c].leg[1] = c
  BY <1>1, AttemptGoesOn DEF Carries
<1> DEFINE l == call[c].leg
<1>3. ~Before(c)
  BY <1>2 DEF WaitInv, Unentered
<1>4. c \in calls
  BY <1>0, <1>1, <1>3, WhoseMaps DEF Before
<1>5. call[c].state = "InQueue"
  <2>1. SUFFICES ASSUME call[c].state # "InQueue" PROVE FALSE
    OBVIOUS
  <2>2. PICK k \in gos : k.c = c /\ (k.f = "enter" \/ ResetCall(k))
    BY <1>0, <1>1, <2>1, WhoQueues
  <2>3. QED
    BY <1>0, <1>1, <1>3, <2>2, EffectOf DEF Before
<1>6. CASE legCh[l] = "dialing"
  <2>1. SUFFICES ASSUME legCh'[l] # "dialing" PROVE FALSE
    BY <1>2
  <2>2. \A f \in {"agentEnter", "noAnswer"} : GoLeg(f, "lookup", l) \notin gos'
    <3>1. \A f \in {"agentEnter", "noAnswer"} : Carries(GoLeg(f, "lookup", l)) /\ GoLeg(f, "lookup", l).c = c
      BY <1>2 DEF GoLeg, Go, Carries
    <3>2. QED
      BY <1>1, <3>1
  <2>3. ~\E g \in gos : Originate(g) /\ g.leg = l
    BY <1>0, <1>2, <2>1 DEF Originate, DataOK
  <2>4. PICK g \in gos : TearDown(g) /\ l \in {g.copy.leg, g.copy.bridged}
    BY <1>0, <1>2, <1>6, <2>1, <2>2, <2>3, WhoseLeg
  <2>5. g.at = "teardown" /\ Spent(g) /\ Current(l)
    BY <1>2, <2>4 DEF WaitInv, TearDown, Current
  <2>6. g.c = c /\ call[c].state # "InQueue"
    BY <1>2, <2>4, <2>5 DEF Spent
  <2>7. QED
    BY <1>5, <2>6
<1>7. ASSUME NEW w \in gos, Carries(w), w.c = c PROVE legCh'[l] = "dialing"
  <2>1. w \notin gos' /\ Step(w)
    BY <1>1, <1>7, Mover
  <2>2. w.leg = l /\ \A h \in gos : Carries(h) /\ h.c = c => h = w
    BY <1>0, <1>7, CarriesCurrent
  <2>3. FoundByLeg(l) \/ (w.f = "offer" /\ w.at = "map")
    BY <1>2, <1>4, <1>5, <2>2 DEF WaitInv, Mapped, FoundByLeg, Carries
  <2>4. w.f \notin {"bridge"} \cup Sending
    BY <1>5, <1>7 DEF WaitInv, Joined
  <2>5. ASSUME NEW step \in {"originate", "reset", "lock"}, Goto(w, step), w.f \in {"offer", "agentEnter", "noAnswer"},
               step = "lock" => w.f = "agentEnter", step = "originate" => w.f = "offer"
        PROVE  FALSE
    <3>1. PICK h \in gos' : Resumes(w, h) /\ h.at = step
      BY <1>0, <2>5, InFlight DEF Steps
    <3>2. Carries(h) /\ h.c = c
      BY <1>7, <2>5, <3>1 DEF Resumes, Carries
    <3>3. QED
      BY <1>1, <3>2
  <2>6. ~ResetCall(w)
    BY <1>0, <1>1, <1>7, EffectOf
  <2>7. CASE w.f = "offer"
    <3>1. AddAgentCallMap(w) \/ Originate(w) \/ OriginateFails(w)
      BY <1>0, <1>7, <2>1, <2>6, <2>7, HandlerOf DEF Carries, OfferStep, OfferLookup, NoQueueForOffer,
         OfferIgnored, OfferDismissed, OfferBeyondLimit, OfferTaken, HangupClient, HangupClientFails,
         ReSetupStep, TearDown, Unmap, PublishRejected, Sending
    <3>2. Originate(w)
      BY <2>5, <2>7, <3>1 DEF AddAgentCallMap, OriginateFails
    <3>3. QED
      BY <1>0, <1>2, <2>2, <3>2 DEF Originate, DataOK
  <2>8. CASE w.f = "agentEnter"
    <3>1. LegLookup(w, "lock") \/ LateAgentGone(w) \/ AgentJoins(w)
      BY <1>0, <2>1, <2>8, HandlerOf DEF AgentEnterStep
    <3>2. ~LegLookup(w, "lock")
      BY <2>2, <2>3, <2>5, <2>8 DEF LegLookup
    <3>3. ~LateAgentGone(w)
      BY <1>5, <1>7 DEF LateAgentGone
    <3>4. ~AgentJoins(w)
      BY <1>0, <1>1, <1>7, EffectOf
    <3>5. QED
      BY <3>1, <3>2, <3>3, <3>4
  <2>9. CASE w.f = "noAnswer"
    <3>1. LegLookup(w, "reset")
      BY <1>0, <1>7, <2>1, <2>6, <2>9, HandlerOf DEF NoAnswerStep, Carries, ReSetupStep,
         TearDown, Unmap, PublishRejected, Sending
    <3>2. QED
      BY <2>2, <2>3, <2>5, <2>9, <3>1 DEF LegLookup
  <2>10. QED
    BY <1>7, <2>4, <2>7, <2>8, <2>9 DEF Carries
<1>8. QED
  BY <1>2, <1>4, <1>5, <1>6, <1>7 DEF WaitInv, TakenUp

\* A handler that gives up for a queue, a message or a hangup that failed leaves a call
\* that is lost to AID.
LEMMA GivingUpLoses ==
  ASSUME NEW g, \/ RejectSetupFails(g) \/ HangupClientFails(g) \/ NoQueueToEnter(g)
                \/ NoQueueForOffer(g) \/ PublishNewFails(g) \/ SendFails(g)
  PROVE  LostToAid(g.c)'
<1>1. PICK request \in {"publish", "queue", "hangup"} : Fails(request, g.c)
  BY DEF RejectSetupFails, HangupClientFails, CallerKept, NoQueueToEnter, NoQueueForOffer,
         QueueNotFound, PublishNewFails, SendFails, MessageLost
<1>2. <<request, g.c>> \in failed'
  BY <1>1 DEF Fails
<1>3. QED
  BY <1>2 DEF LostToAid, Failed

\* A goroutine that stirs a waiting call goes on until AID is told of the call.
LEMMA StirsOn ==
  ASSUME ~OriginateMayBeLost, WaitInv, [Next]_vars, NEW w \in gos, Stirs(w), w \notin gos',
         w.c \in calls', ~LostToAid(w.c)', clientCh'[w.c] = "stasis",
         ~call[w.c].inDistribution, ~call'[w.c].inDistribution
  PROVE  \/ aid'[w.c].state \in {"New", "Rejected", "Dismissed"}
         \/ \E h \in gos' : Stirs(h) /\ h.c = w.c
<1>0. /\ AttemptInv /\ TimerInv /\ LeaveInv /\ DataOK
      /\ \A g \in gos : g \in Goroutine /\ g.c \in Calls /\ g.f \in Handlers /\ InPlace(g)
      /\ Step(w)
  BY WaitFacts, Mover
<1>1. ASSUME NEW step \in Steps, Goto(w, step), w.f \in {"enter", "offer", "bridge", "noAnswer"}
      PROVE  \E h \in gos' : Stirs(h) /\ h.c = w.c
  <2>1. PICK h \in gos' : Resumes(w, h)
    BY <1>0, <1>1, InFlight
  <2>2. QED
    BY <1>1, <2>1 DEF Resumes, Stirs
<1>2. ASSUME NEW m, NEW u, NEW r \in {"Rejected", "Dismissed"}, m = Message(w, r, u), m \in gos'
      PROVE  \E h \in gos' : Stirs(h) /\ h.c = w.c
  <2>1. m.c = w.c /\ m.f = "message" /\ m.arg = r
    BY <1>0, <1>2 DEF Message, Goroutine
  <2>2. QED
    BY <1>2, <2>1 DEF Stirs, Sending
<1>3. ~Carries(w)
  BY <1>0, CarriesCurrent
<1>4. ~ClientGone(w.c)
  BY <1>0 DEF ClientGone, DataOK
<1>4a. /\ ~RejectSetupFails(w) /\ ~NoQueueToEnter(w) /\ ~PublishNewFails(w)
       /\ ~NoQueueForOffer(w) /\ ~HangupClientFails(w) /\ ~SendFails(w)
  BY GivingUpLoses
<1>5. CASE w.f = "enter"
  <2>1. CASE PublishNew(w)
    BY <1>0, <2>1 DEF PublishNew, DataOK
  <2>2. CASE ~PublishNew(w)
    <3>1. ~RejectSetup(w)
      BY <1>4 DEF RejectSetup
    <3>2. \E step \in Steps : Goto(w, step)
      BY <1>0, <1>4a, <1>5, <2>2, <3>1, HandlerOf DEF EnterStep, RegisterCall, QueueProcessStart,
         ScheduleTimeout, Steps
    <3>3. QED
      BY <1>1, <1>5, <3>2
  <2>3. QED
    BY <2>1, <2>2
<1>6. ASSUME ReSetupStep(w), w.f \in {"offer", "bridge", "noAnswer"}
      PROVE  \E h \in gos' : Stirs(h) /\ h.c = w.c
  <2>1. CASE ResetCall(w)
    BY <1>0, <1>6, <2>1, ResetCarries DEF Stirs
  <2>2. CASE TearDown(w)
    <3>1. PICK h : h = [w EXCEPT !.at = "unmap"] /\ h \in gos'
      BY <2>2, TornDown
    <3>2. h.f = w.f /\ h.c = w.c
      BY <1>0, <3>1 DEF Goroutine
    <3>3. QED
      BY <1>6, <3>1, <3>2 DEF Stirs
  <2>3. CASE PublishRejected(w)
    <3>1. PICK m, u : m = Message(w, "Rejected", u) /\ m \in gos'
      BY <2>3 DEF PublishRejected, Becomes
    <3>2. QED
      BY <1>2, <3>1
  <2>4. CASE Unmap(w)
    <3>1. \E step \in Steps : Goto(w, step)
      BY <2>4 DEF Unmap, Steps
    <3>2. QED
      BY <1>1, <1>6, <3>1
  <2>5. QED
    BY <1>6, <2>1, <2>2, <2>3, <2>4 DEF ReSetupStep
<1>7. CASE w.f = "offer"
  <2>1. CASE OfferDismissed(w)
    <3>1. PICK m : m = Message(w, "Dismissed", w.user) /\ m \in gos'
      BY <2>1 DEF OfferDismissed, Becomes
    <3>2. QED
      BY <1>2, <3>1
  <2>2. ~HangupClient(w) /\ ~OfferIgnored(w)
    BY <1>4 DEF HangupClient, OfferIgnored
  <2>3. w.c \in calls
    BY <1>0, <1>7, Later, WhoseMaps DEF Harmless, Before
  <2>4. ~OfferTaken(w)
    BY <1>0, EffectOf
  <2>5. CASE OfferLookup(w) \/ OfferBeyondLimit(w) \/ AddAgentCallMap(w) \/ OriginateFails(w)
    <3>1. \E step \in Steps : Goto(w, step)
      BY <2>3, <2>5 DEF OfferLookup, OfferBeyondLimit, AddAgentCallMap, OriginateFails, Steps
    <3>2. QED
      BY <1>1, <1>7, <3>1
  <2>6. ~Originate(w)
    BY <1>3, <1>7 DEF Originate, Carries
  <2>7. QED
    BY <1>0, <1>4a, <1>6, <1>7, <2>1, <2>2, <2>4, <2>5, <2>6, HandlerOf DEF OfferStep
<1>8. CASE w.f = "bridge"
  <2>1. ~BridgeStep(w)
    BY <1>3, <1>8 DEF BridgeStep, SetBridged, CreateBridge, AddClient, AddLeg, AddOutBoundCall,
       SetMemberVariable, PublishAccepted, Carries, Bridging
  <2>2. QED
    BY <1>0, <1>6, <1>8, <2>1, HandlerOf
<1>9. CASE w.f = "noAnswer"
  <2>1. ~NoAnswerStep(w)
    BY <1>3, <1>9 DEF NoAnswerStep, LegLookup, Carries
  <2>2. QED
    BY <1>0, <1>6, <1>9, <2>1, HandlerOf
<1>10. CASE w.f \in Sending
  <2>1. Send(w) /\ w.arg \in {"Rejected", "Dismissed"}
    BY <1>0, <1>4a, <1>10, HandlerOf DEF Stirs, Sending
  <2>2. aid'[w.c].state = w.arg
    BY <1>0, <2>1 DEF Send, DataOK
  <2>3. QED
    BY <2>1, <2>2
<1>11. QED
  BY <1>5, <1>7, <1>8, <1>9, <1>10 DEF Stirs

\* A waiting call that is in no attempt is known to AID, or is stirred.
LEMMA KnownStays ==
  ASSUME ~OriginateMayBeLost, WaitInv, [Next]_vars, NEW c \in Calls
  PROVE  Known(c)'
<1>0. /\ AttemptInv /\ TimerInv /\ LeaveInv /\ DataOK
      /\ \A g \in gos : g \in Goroutine /\ g.c \in Calls /\ g.f \in Handlers /\ InPlace(g)
  BY WaitFacts
<1>1. SUFFICES ASSUME c \in calls', ~LostToAid(c)', clientCh'[c] = "stasis",
                      call'[c].state = "InQueue", ~call'[c].inDistribution,
                      \A h \in gos' : Stirs(h) => h.c # c
               PROVE  aid'[c].state \in {"New", "Rejected", "Dismissed"}
  BY DEF Known, Stirs
<1>2. ASSUME NEW w \in gos, w.c = c, Goto(w, "start") \/ Goto(w, "schedule"), w.f = "enter" PROVE FALSE
  <2>1. PICK h \in gos' : Resumes(w, h)
    BY <1>0, <1>2, InFlight DEF Steps
  <2>2. QED
    BY <1>1, <1>2, <2>1 DEF Resumes, Stirs
<1>3. clientCh[c] = "stasis"
  <2>1. SUFFICES ASSUME Go("enter", "create", c) \in gos' PROVE FALSE
    BY <1>0, <1>1, WhoseClient
  <2>2. Stirs(Go("enter", "create", c)) /\ Go("enter", "create", c).c = c
    BY DEF Go, Stirs
  <2>3. QED
    BY <1>1, <2>1, <2>2
<1>4. c \in calls
  BY <1>0, <1>1, <1>2, WhoseMaps DEF RegisterCall
<1>5. \A k \in gos : k.c = c /\ k.f \in {"offer", "bridge", "noAnswer"} => ~ResetCall(k)
  <2>1. SUFFICES ASSUME NEW k \in gos, k.c = c, k.f \in {"offer", "bridge", "noAnswer"}, ResetCall(k)
                 PROVE  FALSE
    OBVIOUS
  <2>2. PICK h \in gos' : h.f = k.f /\ h.c = k.c
    BY <1>0, <2>1, ResetCarries
  <2>3. QED
    BY <1>1, <2>1, <2>2 DEF Stirs
<1>6. call[c].state = "InQueue"
  <2>1. SUFFICES ASSUME call[c].state # "InQueue" PROVE FALSE
    OBVIOUS
  <2>2. PICK k \in gos : k.c = c /\ k.f = "enter" /\ QueueProcessStart(k)
    BY <1>0, <1>1, <1>5, <2>1, WhoQueues
  <2>3. QED
    BY <1>2, <2>2 DEF QueueProcessStart
<1>7. ~call[c].inDistribution
  <2>1. SUFFICES ASSUME call[c].inDistribution PROVE FALSE
    OBVIOUS
  <2>2. PICK g \in gos : g.c = c /\ Changes(g)
    BY <1>0, <1>1, <2>1, WhoChanges DEF SameAs
  <2>3. QED
    BY <1>0, <1>1, <1>5, <2>1, <2>2, EffectOf DEF Changes
<1>8. CASE aid[c].state \in {"New", "Rejected", "Dismissed"}
  <2>1. CASE aid'[c] = aid[c]
    BY <1>8, <2>1
  <2>2. ASSUME NEW g \in gos, g.c = c, g.f \in Sending, Send(g), aid'[c].state = g.arg
        PROVE  aid'[c].state \in {"New", "Rejected", "Dismissed"}
    <3>1. g.arg \in Messages
      BY <1>0, <2>2, TimerFacts DEF Sound, Send
    <3>2. g.arg # "Accepted"
      BY <1>6, <2>2 DEF WaitInv, Joined, Carries
    <3>3. g.arg # "Terminated"
      BY <1>3, <2>2 DEF WaitInv, Told
    <3>4. QED
      BY <2>2, <3>1, <3>2, <3>3 DEF Messages
  <2>3. ~\E h \in gos' : h.c = c /\ h.f = "offer"
    BY <1>1 DEF Stirs
  <2>4. QED
    BY <1>0, <2>1, <2>2, <2>3, WhoseAid
<1>9. ASSUME NEW w \in gos, Stirs(w), w.c = c PROVE aid'[c].state \in {"New", "Rejected", "Dismissed"}
  <2>1. w \notin gos'
    BY <1>1, <1>9
  <2>2. QED
    BY <1>1, <1>7, <1>9, <2>1, StirsOn
<1>10. ~LostToAid(c)
  BY <1>1, HistoryGrows DEF LostToAid, Failed
<1>11. QED
  BY <1>1, <1>3, <1>4, <1>6, <1>7, <1>8, <1>9, <1>10 DEF WaitInv, Known

\* No step leaves the invariant of the waiting calls, if a failed Originate leaves no
\* channel.
LEMMA WaitInductive ==
  ASSUME ~OriginateMayBeLost PROVE WaitInv /\ [Next]_vars => WaitInv'
<1> SUFFICES ASSUME WaitInv, [Next]_vars PROVE WaitInv'
  OBVIOUS
<1>1. AttemptInv' /\ LeaveInv'
  BY WaitFacts
<1>2. \A c \in Calls : TakenUp(c)' /\ Mapped(c)' /\ Known(c)' /\ Numbered(c)' /\ Unentered(c)'
  BY TakenUpStays, MappedStays, KnownStays, NumberedStays
<1>3. \A g \in gos' : Spent(g)' /\ Joined(g)' /\ Told(g)'
  BY SpentStays, JoinedStays
<1>4. QED
  BY <1>1, <1>2, <1>3 DEF WaitInv

\* Nobody waits at the start.
LEMMA InitWait == Init => WaitInv
BY InitAttempt, InitLeave, NoLegAssumption
   DEF Init, WaitInv, TakenUp, Mapped, Known, Numbered, Unentered, Spent, Joined, Told, NewCall

\* In every behaviour a waiting call that is marked as being in distribution, and of
\* which nothing is in flight, has a leg that rings: no order of offers, answers,
\* failures and teardowns leaves IsCallInDistribution set for nothing, which would make
\* the engine ignore every later offer (call.go:274, handlers.ari.go:184-219).
THEOREM OfferIsNotStuck ==
  ASSUME ~OriginateMayBeLost PROVE Spec => []OfferNotStuck
<1>1. WaitInv => OfferNotStuck
  <2> SUFFICES ASSUME WaitInv, NEW c \in calls, Quiet(c), call[c].state = "InQueue", call[c].inDistribution
               PROVE  call[c].leg \in {l \in Legs : legCh[l] = "dialing"}
    BY DEF OfferNotStuck
  <2>1. c \in Calls /\ AttemptInv
    BY AttemptFacts DEF WaitInv, DataOK
  <2>2. legCh[call[c].leg] = "dialing"
    BY <2>1 DEF WaitInv, TakenUp, Quiet
  <2>3. call[c].leg \in Legs
    BY <2>1 DEF AttemptInv, Names
  <2>4. QED
    BY <2>2, <2>3
<1>2. QED
  BY <1>1, InitWait, WaitInductive, PTL DEF Spec

\* In every behaviour a waiting call that is not being offered, and of which nothing is
\* in flight, is known to AID as waiting, unless one of its messages was not published,
\* its queue was not found, or the hangup of its caller failed (redis.go:193, call.go:65,
\* call.go:258, call.go:399): whatever ends an attempt is followed by a Rejected or a
\* Dismissed, which no Accepted overtakes (handlers.ari.go:184-219, call.go:283-290).
THEOREM AidKnowsWhoWaits ==
  ASSUME ~OriginateMayBeLost PROVE Spec => []AidKnowsWaitingCall
<1>1. WaitInv => AidKnowsWaitingCall
  <2> SUFFICES ASSUME WaitInv, NEW c \in calls, Quiet(c), call[c].state = "InQueue",
                      ~call[c].inDistribution, clientCh[c] = "stasis", ~LostToAid(c)
               PROVE  aid[c].state \in {"New", "Rejected", "Dismissed"}
    BY DEF AidKnowsWaitingCall
  <2>1. c \in Calls
    BY AttemptFacts DEF WaitInv, DataOK
  <2>2. QED
    BY <2>1 DEF WaitInv, Known, Quiet
<1>2. QED
  BY <1>1, InitWait, WaitInductive, PTL DEF Spec

-----------------------------------------------------------------------------
(* The caller and an agent of a bridged call are in its bridge. *)

\* An attempt whose agent has not been let in yet does not talk.
NotYet(g) ==
  Carries(g) /\ g.f \in {"offer", "agentEnter", "noAnswer"} =>
    call[g.c].state # "Bridged" /\ call[g.c].bridged = NoLeg

Rings(l) ==
  legCh[l] = "dialing" => call[l[1]].state # "Bridged" /\ call[l[1]].bridged = NoLeg

\* bridgeCall is under way for an attempt.
Connects(g) == g.f = "bridge" /\ Carries(g)

Talks(c) ==
  call[c].state = "Bridged" => call[c].bridged # NoLeg \/ \E g \in gos : Connects(g) /\ g.c = c

\* Unless an offer was taken too early, only terminateCall tears an attempt down.
NoTear(c) ==
  c \notin overlapped /\ call[c].inDistribution =>
    \A g \in gos : g.c = c /\ g.at = "teardown" => g.f = "clientLeave"

Watched(c) == clientCh[c] = "stasis" /\ c \notin overlapped

\* A bridged call has its seats taken, or bridgeCall is still at work.
Seat(c) ==
  Watched(c) /\ call[c].bridged # NoLeg =>
    \/ bridge[c].up /\ bridge[c].client /\ call[c].bridged \in bridge[c].legs
    \/ \E g \in gos : Connects(g) /\ g.c = c

\* What bridgeCall has done so far.
InBridge(g) ==
  g.f = "bridge" /\ Watched(g.c) =>
    /\ g.at \in Bridging \ {"createBridge"} => bridge[g.c].up
    /\ g.at \in Bridging \ {"createBridge", "addClient"} => bridge[g.c].client
    /\ g.at \in Bridging \ {"createBridge", "addClient", "addLeg"} => g.leg \in bridge[g.c].legs

\* The agent of the leg has answered for the attempt that the call is in.
Answered(l) ==
  \/ call[l[1]].bridged = l
  \/ \E g \in gos : Carries(g) /\ g.f \in {"agentEnter", "bridge"} /\ g.leg = l

\* An agent that has answered is there, or that it left is going to be handled, or has
\* been, but the hangup of the caller failed.
Heard(l) ==
  Answered(l) /\ clientCh[l[1]] = "stasis" /\ ~Failed("hangup", l[1]) =>
    legCh[l] = "stasis" \/ \E g \in gos : g.f = "agentLeave" /\ g.leg = l /\ g.c = l[1]

TalkInv ==
  /\ WaitInv
  /\ \A c \in Calls : Talks(c) /\ NoTear(c) /\ Seat(c)
  /\ \A l \in Legs : Rings(l) /\ Heard(l)
  /\ \A g \in gos : NotYet(g) /\ InBridge(g)

\* After a step a carrier is the only one of its call.
LEMMA CarriesCurrentAfter ==
  ASSUME ~OriginateMayBeLost, WaitInv, [Next]_vars, NEW h \in gos', Carries(h)
  PROVE  /\ h.leg \in Legs /\ h.leg[1] = h.c /\ call'[h.c].inDistribution /\ call'[h.c].leg = h.leg
         /\ \A k \in gos' : Carries(k) /\ k.c = h.c => k = h
<1>1. AttemptInv'
  BY WaitFacts
<1>2. Carried(h)'
  BY <1>1 DEF AttemptInv, Carries
<1>3. QED
  BY <1>2 DEF Carried, Current, Carries

\* A call is made bridged by an agent that is let in, and bridgeCall goes on.
LEMMA WhoJoins ==
  ASSUME ~OriginateMayBeLost, WaitInv, [Next]_vars, NEW c \in Calls,
         call[c].state # "Bridged", call'[c].state = "Bridged"
  PROVE  \E h \in gos' : h.c = c /\ Connects(h)
<1>0. /\ AttemptInv /\ TimerInv /\ \A g \in gos : g \in Goroutine /\ g.c \in Calls
  BY WaitFacts
<1>1. PICK g \in gos : g.c = c /\ Changes(g)
  BY <1>0, WhoChanges DEF SameAs
<1>2. g.f = "agentEnter" /\ AgentJoins(g)
  BY <1>0, <1>1, EffectOf DEF Changes
<1>3. PICK h : h = [g EXCEPT !.f = "bridge", !.at = "set"] /\ h \in gos'
  BY <1>2 DEF AgentJoins, Becomes
<1>4. h.c = c /\ h.f = "bridge" /\ h.at = "set"
  BY <1>0, <1>1, <1>3 DEF Goroutine
<1>5. QED
  BY <1>3, <1>4 DEF Connects, Carries

\* BridgedChannel is set by bridgeCall, which goes on.
LEMMA WhoSeats ==
  ASSUME ~OriginateMayBeLost, WaitInv, [Next]_vars, NEW c \in Calls,
         call'[c].bridged # call[c].bridged
  PROVE  \/ /\ call'[c].bridged = NoLeg /\ call'[c].state = "InQueue" /\ ~call'[c].inDistribution
         \/ \E g \in gos, h \in gos' : /\ g.c = c /\ Connects(g) /\ g.leg = call'[c].bridged
                                       /\ h.c = c /\ Connects(h)
<1>0. /\ AttemptInv /\ TimerInv /\ \A g \in gos : g \in Goroutine /\ g.c \in Calls
  BY WaitFacts
<1>1. PICK g \in gos : g.c = c /\ ((BridgeStep(g) /\ SetBridged(g)) \/ ResetCall(g))
  BY <1>0, WhoBridges
<1>2. CASE ResetCall(g)
  BY <1>0, <1>1, <1>2, EffectOf
<1>3. CASE BridgeStep(g) /\ SetBridged(g)
  <2>1. g.f = "bridge" /\ g.at = "set" /\ Goto(g, "createBridge") /\ call'[c].bridged = g.leg
    BY <1>0, <1>1, <1>3, EffectOf DEF BridgeStep, SetBridged
  <2>2. PICK h \in gos' : Resumes(g, h) /\ h.at = "createBridge"
    BY <1>0, <2>1, InFlight DEF Steps
  <2>3. Connects(g) /\ Connects(h) /\ h.c = c
    BY <1>1, <2>1, <2>2 DEF Connects, Carries, Resumes, Bridging
  <2>4. QED
    BY <1>1, <2>1, <2>3
<1>4. QED
  BY <1>1, <1>2, <1>3

\* bridgeCall goes on until it has told AID or gives the attempt up.
LEMMA BridgeGoesOn ==
  ASSUME ~OriginateMayBeLost, WaitInv, [Next]_vars, NEW w \in gos, Connects(w), w \notin gos'
  PROVE  \/ \E h \in gos' : h.c = w.c /\ Connects(h)
         \/ ResetCall(w)
         \/ PublishAccepted(w)
<1>0. /\ AttemptInv /\ TimerInv /\ \A g \in gos : g \in Goroutine /\ g.c \in Calls
      /\ Step(w) /\ w.f = "bridge"
  BY WaitFacts, Mover DEF Connects
<1>1. CASE BridgeStep(w)
  <2>1. PublishAccepted(w) \/ \E step \in {"reset"} \cup Bridging : Goto(w, step)
    BY <1>1 DEF BridgeStep, SetBridged, CreateBridge, AddClient, AddLeg, AddOutBoundCall,
       SetMemberVariable, Bridging
  <2>2. ASSUME NEW step \in {"reset"} \cup Bridging, Goto(w, step)
        PROVE  \E h \in gos' : h.c = w.c /\ Connects(h)
    <3>1. PICK h \in gos' : Resumes(w, h) /\ h.at = step
      BY <1>0, <2>2, InFlight DEF Steps, Bridging
    <3>2. QED
      BY <1>0, <2>2, <3>1 DEF Resumes, Connects, Carries
  <2>3. QED
    BY <2>1, <2>2
<1>2. CASE ReSetupStep(w)
  BY <1>0, <1>2 DEF ReSetupStep, TearDown, Unmap, PublishRejected, Connects,
     Carries, Bridging, Sending
<1>3. QED
  BY <1>0, <1>1, <1>2, HandlerOf

\* An agent that is let in is let in by bridgeCall.
LEMMA StaysUnjoined ==
  ASSUME ~OriginateMayBeLost, WaitInv, [Next]_vars, NEW c \in Calls,
         call[c].state # "Bridged", call[c].bridged = NoLeg,
         \A h \in gos' : Connects(h) => h.c # c
  PROVE  call'[c].state # "Bridged" /\ call'[c].bridged = NoLeg
BY WhoJoins, WhoSeats

\* An attempt whose agent has not been let in does not talk after a step either.
LEMMA NotYetStays ==
  ASSUME ~OriginateMayBeLost, TalkInv, [Next]_vars, NEW h \in gos'
  PROVE  NotYet(h)'
<1>0. /\ WaitInv /\ AttemptInv /\ TimerInv
      /\ \A g \in gos : g \in Goroutine /\ g.c \in Calls
      /\ h.c \in Calls /\ InPlace(h)
  BY WaitFacts DEF TalkInv
<1>1. SUFFICES ASSUME Carries(h), h.f \in {"offer", "agentEnter", "noAnswer"}
               PROVE  call'[h.c].state # "Bridged" /\ call'[h.c].bridged = NoLeg
  BY DEF NotYet, Carries
<1>2. h.leg \in Legs /\ h.leg[1] = h.c /\ \A k \in gos' : Connects(k) => k.c # h.c
  BY <1>0, <1>1, CarriesCurrentAfter DEF Connects
<1>3. call[h.c].state # "Bridged" /\ call[h.c].bridged = NoLeg
  <2>1. CASE h \in gos
    BY <1>1, <2>1 DEF TalkInv, NotYet
  <2>2. CASE h \notin gos /\ Starts(h)
    BY <1>1, <1>2, <2>2 DEF Starts, Carries, Sending, TalkInv, Rings
  <2>3. ASSUME NEW g \in gos, Step(g), Succeeds(g, h)
        PROVE  call[h.c].state # "Bridged" /\ call[h.c].bridged = NoLeg
    <3>1. g.c = h.c
      BY <2>3 DEF Succeeds
    <3>2. CASE Resumes(g, h) /\ Carries(g)
      BY <1>1, <3>1, <3>2 DEF Resumes, TalkInv, NotYet
    <3>3. CASE OfferTaken(g)
      BY <1>0, <3>1, <3>3 DEF OfferTaken, AttemptInv, Names
    <3>4. h.at \notin {"teardown", "cancel", "terminate", "send"}
      BY <1>0, <1>1 DEF InPlace, Carries, Sending
    <3>5. QED
      BY <1>1, <2>3, <3>2, <3>3, <3>4 DEF Succeeds
  <2>4. QED
    BY <1>0, <2>1, <2>2, <2>3, Origin
<1>4. QED
  BY <1>0, <1>2, <1>3, StaysUnjoined

\* A call whose agent rings does not talk.
LEMMA RingsStays ==
  ASSUME ~OriginateMayBeLost, TalkInv, [Next]_vars, NEW l \in Legs
  PROVE  Rings(l)'
<1>0. WaitInv /\ AttemptInv /\ AttemptInv' /\ TimerInv /\ l[1] \in Calls
  BY WaitFacts DEF TalkInv, Legs
<1>1. SUFFICES ASSUME legCh'[l] = "dialing"
               PROVE  call'[l[1]].state # "Bridged" /\ call'[l[1]].bridged = NoLeg
  BY DEF Rings
<1>2. \A k \in gos' : Connects(k) => k.c # l[1]
  BY <1>0, <1>1 DEF AttemptInv, Rung, Connects, Carries
<1>3. CASE legCh[l] = "dialing"
  BY <1>0, <1>2, <1>3, StaysUnjoined DEF TalkInv, Rings
<1>4. CASE legCh[l] # "dialing"
  <2>1. PICK g \in gos : g.f = "offer" /\ Originate(g) /\ g.leg = l
    BY <1>0, <1>1, <1>4, WhoseLeg
  <2>2. Carries(g) /\ g.c = l[1]
    BY <1>0, <2>1, CarriesCurrent DEF Carries, Originate
  <2>3. QED
    BY <1>0, <1>2, <2>1, <2>2, StaysUnjoined DEF TalkInv, NotYet
<1>5. QED
  BY <1>3, <1>4

\* A bridged call has its BridgedChannel, or bridgeCall is under way.
LEMMA TalksStays ==
  ASSUME ~OriginateMayBeLost, TalkInv, [Next]_vars, NEW c \in Calls
  PROVE  Talks(c)'
<1>0. /\ WaitInv /\ AttemptInv /\ TimerInv
      /\ \A g \in gos : g \in Goroutine /\ g.c \in Calls
  BY WaitFacts DEF TalkInv
<1>1. SUFFICES ASSUME call'[c].state = "Bridged", \A h \in gos' : Connects(h) => h.c # c
               PROVE  call'[c].bridged # NoLeg
  BY DEF Talks, Connects, Carries
<1>2. call[c].state = "Bridged"
  BY <1>0, <1>1, WhoJoins
<1>3. call'[c].bridged = call[c].bridged
  BY <1>0, <1>1, WhoSeats
<1>4. ASSUME NEW w \in gos, Connects(w), w.c = c PROVE call[c].bridged # NoLeg
  <2>1. w \notin gos'
    BY <1>1, <1>4
  <2>2. ~ResetCall(w)
    BY <1>0, <1>1, <1>4, EffectOf
  <2>3. PublishAccepted(w)
    BY <1>0, <1>1, <1>4, <2>1, <2>2, BridgeGoesOn
  <2>4. call[c].bridged = w.leg /\ w.leg \in Legs
    BY <1>0, <1>4, <2>3 DEF Connects, AttemptInv, Carried, PublishAccepted, Bridging
  <2>5. QED
    BY <2>4, NoLegAssumption
<1>5. QED
  BY <1>2, <1>3, <1>4 DEF TalkInv, Talks

\* Only terminateCall tears an attempt down that another one has not overtaken.
LEMMA NoTearStays ==
  ASSUME ~OriginateMayBeLost, TalkInv, [Next]_vars, NEW c \in Calls
  PROVE  NoTear(c)'
<1>0. /\ WaitInv /\ AttemptInv /\ TimerInv
      /\ \A g \in gos : g \in Goroutine /\ g.c \in Calls /\ InPlace(g)
      /\ \A g \in gos' : InPlace(g)
  BY WaitFacts DEF TalkInv
<1>1. SUFFICES ASSUME c \notin overlapped', call'[c].inDistribution,
                      NEW h \in gos', h.c = c, h.at = "teardown"
               PROVE  h.f = "clientLeave"
  BY DEF NoTear
<1>2. c \notin overlapped
  BY <1>1, WhoseOverlap
<1>3. ASSUME ~call[c].inDistribution PROVE FALSE
  <2>1. PICK g \in gos : g.c = c /\ OfferTaken(g)
    BY <1>0, <1>1, <1>3, NewAttempt
  <2>2. h \notin gos
    BY <1>1, <2>1, WhoseOverlap
  <2>3. PICK l : h = [g EXCEPT !.at = "map", !.leg = l]
    BY <1>1, <2>1, <2>2 DEF OfferTaken, Becomes
  <2>4. h.at = "map"
    BY <1>0, <2>3 DEF Goroutine
  <2>5. QED
    BY <1>1, <2>4
<1>4. CASE h \in gos
  BY <1>1, <1>2, <1>3, <1>4 DEF TalkInv, NoTear
<1>5. CASE h \notin gos
  <2>1. ~Starts(h)
    BY <1>1 DEF Starts
  <2>2. PICK g \in gos : Step(g) /\ Succeeds(g, h)
    BY <1>0, <1>5, <2>1, Origin
  <2>3. ~ResetCall(g)
    BY <1>0, <1>1, <2>2, EffectOf DEF Succeeds
  <2>4. Resumes(g, h) /\ CancelTimer(g)
    BY <1>0, <1>1, <2>2, <2>3 DEF Succeeds, InPlace, Sending
  <2>5. QED
    BY <1>0, <1>1, <2>4 DEF Resumes, CancelTimer, InPlace, ReSetup, Ending, Goroutine, Handlers
<1>6. QED
  BY <1>4, <1>5

\* The bridge of a watched call is not taken down while the call is in an attempt.
LEMMA Unbroken ==
  ASSUME ~OriginateMayBeLost, TalkInv, [Next]_vars, NEW c \in Calls, Watched(c), call[c].inDistribution
  PROVE  /\ bridge[c].up => bridge'[c].up
         /\ bridge[c].client => bridge'[c].client
         /\ bridge[c].legs \subseteq bridge'[c].legs
<1>1. TimerInv /\ LeaveInv
  BY WaitFacts DEF TalkInv
<1>2. ASSUME NEW g \in gos, g.c = c, TearDown(g) PROVE FALSE
  <2>1. g.f = "clientLeave"
    BY <1>2 DEF TalkInv, NoTear, Watched, TearDown
  <2>2. QED
    BY <1>1, <1>2, <2>1 DEF LeaveInv, Leaving, Watched
<1>3. QED
  BY <1>1, <1>2, WhoseBridge

\* bridgeCall has put into the bridge what it says, unless the caller has left.
LEMMA InBridgeStays ==
  ASSUME ~OriginateMayBeLost, TalkInv, [Next]_vars, NEW h \in gos'
  PROVE  InBridge(h)'
<1>0. /\ WaitInv /\ AttemptInv /\ TimerInv /\ DataOK
      /\ \A g \in gos : g \in Goroutine /\ g.c \in Calls /\ clientCh[g.c] # "none"
      /\ h \in Goroutine /\ h.c \in Calls /\ InPlace(h)
  BY WaitFacts, TimerFacts DEF TalkInv
<1> DEFINE c == h.c
<1>1. SUFFICES ASSUME h.f = "bridge", clientCh'[c] = "stasis", c \notin overlapped', h.at \in Bridging
               PROVE  /\ h.at # "createBridge" => bridge'[c].up
                      /\ h.at \notin {"createBridge", "addClient"} => bridge'[c].client
                      /\ h.at \notin {"createBridge", "addClient", "addLeg"} => h.leg \in bridge'[c].legs
  BY DEF InBridge, Watched
<1>2. Carries(h) /\ ~Starts(h)
  BY <1>1 DEF Carries, Starts
<1>3. ASSUME NEW g \in gos, g.c = c, Carries(g)
      PROVE  /\ Watched(c)
             /\ bridge[c].up => bridge'[c].up
             /\ bridge[c].client => bridge'[c].client
             /\ bridge[c].legs \subseteq bridge'[c].legs
  <2>1. call[c].inDistribution
    BY <1>0, <1>3, CarriesCurrent
  <2>2. Watched(c)
    BY <1>0, <1>1, <1>3, WhoseClient, WhoseOverlap DEF Watched
  <2>3. QED
    BY <1>0, <2>1, <2>2, Unbroken
<1>4. CASE h \in gos
  BY <1>1, <1>2, <1>3, <1>4 DEF TalkInv, InBridge
<1>5. CASE h \notin gos
  <2>1. PICK g \in gos : Step(g) /\ Succeeds(g, h)
    BY <1>0, <1>2, <1>5, Origin
  <2>2. h.at \notin {"map", "set", "teardown", "cancel", "terminate", "send"}
    BY <1>1 DEF Bridging
  <2>3. Resumes(g, h) /\ Carries(g) /\ BridgeStep(g)
    BY <1>1, <1>2, <2>1, <2>2 DEF Succeeds
  <2>4. /\ g.c = c /\ g.leg = h.leg /\ g.f = "bridge" /\ bridge[c].legs \subseteq Legs
    BY <1>0, <1>1, <2>3 DEF Resumes, DataOK
  <2>5. /\ InBridge(g) /\ Watched(c) /\ bridge[c] \in BridgeRecord
        /\ bridge[c].up => bridge'[c].up
        /\ bridge[c].client => bridge'[c].client
        /\ bridge[c].legs \subseteq bridge'[c].legs
    BY <1>0, <1>3, <2>3, <2>4 DEF TalkInv, DataOK, BridgeRecord
  <2>6. ASSUME NEW step \in Steps, Goto(g, step) PROVE h.at = step
    <3>1. h = [g EXCEPT !.at = step]
      BY <1>5, <2>6 DEF Goto, Becomes
    <3>2. QED
      BY <1>0, <3>1 DEF Goroutine
  <2>7. CASE SetBridged(g)
    BY <2>6, <2>7 DEF SetBridged, Steps
  <2>8. CASE CreateBridge(g)
    <3>1. h.at = "addClient" /\ bridge' = [bridge EXCEPT ![c].up = TRUE]
      BY <1>1, <2>4, <2>6, <2>8 DEF CreateBridge, Steps, Bridging
    <3>2. bridge'[c] = [bridge[c] EXCEPT !.up = TRUE]
      BY <1>0, <3>1 DEF DataOK
    <3>3. QED
      BY <2>5, <3>1, <3>2 DEF BridgeRecord
  <2>9. CASE AddClient(g)
    <3>1. h.at = "addLeg" /\ bridge' = [bridge EXCEPT ![c].client = TRUE] /\ bridge[c].up
      BY <1>1, <2>4, <2>6, <2>9 DEF AddClient, Steps, Bridging
    <3>2. bridge'[c] = [bridge[c] EXCEPT !.client = TRUE]
      BY <1>0, <3>1 DEF DataOK
    <3>3. QED
      BY <2>5, <3>1, <3>2 DEF BridgeRecord
  <2>10. CASE AddLeg(g)
    <3>1. h.at = "outbound" /\ bridge' = [bridge EXCEPT ![c].legs = @ \cup {g.leg}] /\ g.at = "addLeg"
      BY <1>1, <2>4, <2>6, <2>10 DEF AddLeg, Steps, Bridging
    <3>2. bridge'[c] = [bridge[c] EXCEPT !.legs = @ \cup {g.leg}]
      BY <1>0, <3>1 DEF DataOK
    <3>3. bridge[c].up /\ bridge[c].client
      BY <2>4, <2>5, <3>1 DEF InBridge, Bridging
    <3>4. QED
      BY <2>4, <2>5, <3>1, <3>2, <3>3 DEF BridgeRecord
  <2>11. CASE AddOutBoundCall(g) \/ SetMemberVariable(g)
    <3>1. g.at \in {"outbound", "setvar"}
      BY <2>11 DEF AddOutBoundCall, SetMemberVariable
    <3>2. QED
      BY <2>4, <2>5, <3>1 DEF InBridge, Bridging
  <2>12. ~PublishAccepted(g)
    <3>1. ASSUME PublishAccepted(g) PROVE h.f = "message"
      <4>1. PICK u : h = Message(g, "Accepted", u)
        BY <1>5, <3>1 DEF PublishAccepted, Becomes
      <4>2. QED
        BY <1>0, <4>1 DEF Message, Goroutine
    <3>2. QED
      BY <1>1, <3>1
  <2>13. QED
    BY <2>3, <2>7, <2>8, <2>9, <2>10, <2>11, <2>12 DEF BridgeStep
<1>6. QED
  BY <1>4, <1>5

\* A bridged call has its seats taken until the caller leaves.
LEMMA SeatStays ==
  ASSUME ~OriginateMayBeLost, TalkInv, [Next]_vars, NEW c \in Calls
  PROVE  Seat(c)'
<1>0. /\ WaitInv /\ AttemptInv /\ TimerInv
      /\ \A g \in gos : g \in Goroutine /\ g.c \in Calls
  BY WaitFacts DEF TalkInv
<1>1. SUFFICES ASSUME clientCh'[c] = "stasis", c \notin overlapped', call'[c].bridged # NoLeg,
                      \A h \in gos' : Connects(h) => h.c # c
               PROVE  bridge'[c].up /\ bridge'[c].client /\ call'[c].bridged \in bridge'[c].legs
  BY DEF Seat, Watched, Connects, Carries
<1>2. call'[c].bridged = call[c].bridged
  BY <1>0, <1>1, WhoSeats
<1>3. call[c].inDistribution
  BY <1>1, <1>2, <1>0 DEF AttemptInv, Names
<1>4. Watched(c)
  BY <1>0, <1>1, <1>3, WhoseClient, WhoseOverlap DEF WaitInv, Unentered, Before, Watched
<1>5. /\ bridge[c].up => bridge'[c].up
      /\ bridge[c].client => bridge'[c].client
      /\ bridge[c].legs \subseteq bridge'[c].legs
  BY <1>3, <1>4, Unbroken
<1>6. ASSUME NEW w \in gos, Connects(w), w.c = c
      PROVE  bridge[c].up /\ bridge[c].client /\ call[c].bridged \in bridge[c].legs
  <2>1. w \notin gos'
    BY <1>1, <1>6
  <2>2. ~ResetCall(w)
    BY <1>0, <1>1, <1>6, EffectOf
  <2>3. PublishAccepted(w)
    BY <1>0, <1>1, <1>6, <2>1, <2>2, BridgeGoesOn
  <2>4. w.at = "accept" /\ w.f = "bridge" /\ call[c].bridged = w.leg
    BY <1>0, <1>6, <2>3 DEF Connects, AttemptInv, Carried, PublishAccepted, Bridging
  <2>5. QED
    BY <1>4, <1>6, <2>4 DEF TalkInv, InBridge, Bridging
<1>7. QED
  BY <1>1, <1>2, <1>4, <1>5, <1>6 DEF TalkInv, Seat

\* Who has answered answered before the step, or has answered now.
LEMMA WhoAnswers ==
  ASSUME ~OriginateMayBeLost, TalkInv, [Next]_vars, NEW l \in Legs, Answered(l)', legCh'[l] # "stasis"
  PROVE  Answered(l)
<1>0. /\ WaitInv /\ AttemptInv /\ TimerInv /\ l[1] \in Calls
      /\ \A h \in gos' : InPlace(h)
  BY WaitFacts DEF TalkInv, Legs
<1>1. CASE call'[l[1]].bridged = l
  <2>1. CASE call[l[1]].bridged = l
    BY <2>1 DEF Answered
  <2>2. CASE call[l[1]].bridged # l
    <3>1. PICK g \in gos : Connects(g) /\ g.leg = l
      BY <1>0, <1>1, <2>2, WhoSeats, NoLegAssumption
    <3>2. QED
      BY <3>1 DEF Connects, Answered
  <2>3. QED
    BY <2>1, <2>2
<1>2. ASSUME NEW h \in gos', Carries(h), h.f \in {"agentEnter", "bridge"}, h.leg = l
      PROVE  Answered(l)
  <2>1. CASE h \in gos
    BY <1>2, <2>1 DEF Answered
  <2>2. CASE h \notin gos
    <3>1. ~Starts(h)
      BY <1>2 DEF Starts
    <3>2. PICK g \in gos : Step(g) /\ Succeeds(g, h)
      BY <1>0, <2>2, <3>1, Origin
    <3>3. CASE Resumes(g, h) /\ Carries(g)
      BY <1>2, <3>3 DEF Resumes, Answered
    <3>4. CASE AgentJoins(g) /\ g.f = "agentEnter" /\ h.leg = g.leg
      BY <1>2, <3>4 DEF Answered, Carries
    <3>5. QED
      BY <1>0, <1>2, <3>2, <3>3, <3>4 DEF Succeeds, InPlace, Carries, Sending, Bridging
  <2>3. QED
    BY <2>1, <2>2
<1>3. QED
  BY <1>1, <1>2 DEF Answered, Carries

\* An attempt that has been answered is dialled no more.
LEMMA AnsweredOnce ==
  ASSUME TalkInv, NEW l \in Legs, Answered(l)
  PROVE  /\ call[l[1]].inDistribution /\ call[l[1]].leg = l /\ ~Before(l[1])
         /\ \A g \in gos : Carries(g) /\ g.c = l[1] => g.f # "offer"
<1>0. WaitInv /\ AttemptInv /\ l[1] \in Calls
  BY DEF TalkInv, WaitInv, Legs
<1>1. CASE call[l[1]].bridged = l
  <2>1. call[l[1]].inDistribution /\ call[l[1]].leg = l
    BY <1>0, <1>1, NoLegAssumption DEF AttemptInv, Names
  <2>2. ~Before(l[1])
    BY <1>0, <2>1 DEF WaitInv, Unentered
  <2>3. \A g \in gos : Carries(g) /\ g.c = l[1] => g.f # "offer"
    BY <1>1, NoLegAssumption DEF TalkInv, NotYet
  <2>4. QED
    BY <2>1, <2>2, <2>3
<1>2. ASSUME NEW w \in gos, Carries(w), w.f \in {"agentEnter", "bridge"}, w.leg = l
      PROVE  /\ call[l[1]].inDistribution /\ call[l[1]].leg = l /\ ~Before(l[1])
             /\ \A g \in gos : Carries(g) /\ g.c = l[1] => g.f # "offer"
  BY <1>0, <1>2, CarriesCurrent
<1>3. QED
  BY <1>1, <1>2 DEF Answered

\* An agent that has answered is there, or that it left is still to be handled.
LEMMA HeardStays ==
  ASSUME ~OriginateMayBeLost, TalkInv, [Next]_vars, NEW l \in Legs
  PROVE  Heard(l)'
<1>0. /\ WaitInv /\ AttemptInv /\ TimerInv /\ LeaveInv /\ DataOK /\ l[1] \in Calls
      /\ \A g \in gos : g \in Goroutine /\ g.c \in Calls
  BY WaitFacts DEF TalkInv, Legs
<1> DEFINE c == l[1]
<1>1. SUFFICES ASSUME Answered(l)', clientCh'[c] = "stasis", legCh'[l] # "stasis",
                      ~Failed("hangup", c)',
                      \A h \in gos' : h.f = "agentLeave" /\ h.leg = l => h.c # c
               PROVE  FALSE
  BY DEF Heard
<1>2. Answered(l)
  BY <1>1, WhoAnswers
<1>3. /\ call[c].inDistribution /\ call[c].leg = l /\ ~Before(c)
      /\ \A g \in gos : Carries(g) /\ g.c = c => g.f # "offer"
  BY <1>2, AnsweredOnce
<1>4. clientCh[c] = "stasis"
  BY <1>0, <1>1, <1>3, WhoseClient DEF Before
<1>4a. ~Failed("hangup", c)
  BY <1>1, HistoryGrows DEF Failed
<1>5. CASE legCh[l] = "stasis"
  <2>1. ASSUME NEW g \in gos, g.f = "offer", Originate(g), g.leg = l PROVE FALSE
    <3>1. Carries(g)
      BY <2>1 DEF Carries, Originate
    <3>2. QED
      BY <1>0, <1>3, <2>1, <3>1, CarriesCurrent
  <2>2. GoLeg("agentLeave", "lookup", l) \in gos'
    BY <1>0, <1>1, <1>5, <2>1, WhoseLeg
  <2>3. GoLeg("agentLeave", "lookup", l).f = "agentLeave" /\ GoLeg("agentLeave", "lookup", l).leg = l
        /\ GoLeg("agentLeave", "lookup", l).c = c
    BY DEF GoLeg, Go
  <2>4. QED
    BY <1>1, <2>2, <2>3
<1>6. ASSUME NEW w \in gos, w.f = "agentLeave", w.leg = l, w.c = c PROVE FALSE
  <2>1. w \notin gos' /\ Step(w)
    BY <1>1, <1>6, Mover
  <2>2. LegLookup(w, "lock") \/ AgentLeft(w)
    <3>1. ASSUME AgentLeftFails(w) PROVE FALSE
      <4>1. failed' = failed \cup {<<"hangup", c>>}
        BY <1>6, <3>1 DEF AgentLeftFails, CallerKept, Fails
      <4>2. QED
        BY <1>1, <4>1 DEF Failed
    <3>2. QED
      BY <1>0, <1>6, <2>1, <3>1, HandlerOf DEF AgentLeaveStep
  <2>3. FoundByLeg(l)
    <3>1. l \in agentMap
      BY <1>0, <1>3, <1>4 DEF WaitInv, Mapped, Carries
    <3>2. call[c].state # "New"
      BY <1>0, <1>6 DEF LeaveInv, Unqueued, Harmless
    <3>3. c \in calls
      BY <1>0, <1>4, <3>2 DEF LeaveInv, Present
    <3>4. QED
      BY <3>1, <3>3 DEF FoundByLeg
  <2>4. ~LegLookup(w, "lock")
    <3>1. SUFFICES ASSUME Goto(w, "lock") PROVE FALSE
      BY <1>6, <2>3 DEF LegLookup
    <3>2. PICK h \in gos' : Resumes(w, h)
      BY <1>0, <3>1, InFlight DEF Steps
    <3>3. QED
      BY <1>1, <1>6, <3>2 DEF Resumes
  <2>5. ~AgentLeft(w)
    <3>1. call[c].state # "Terminated"
      BY <1>0, <1>4 DEF LeaveInv, StateEnds
    <3>2. ~ClientGone(c)
      BY <1>0, <1>1, <1>4 DEF ClientGone, DataOK
    <3>3. QED
      BY <1>6, <3>1, <3>2 DEF AgentLeft
  <2>6. QED
    BY <2>2, <2>4, <2>5
<1>7. QED
  BY <1>2, <1>4, <1>4a, <1>5, <1>6 DEF TalkInv, Heard

\* TalkInv is inductive when a failed Originate leaves no channel.
LEMMA TalkInductive ==
  ASSUME ~OriginateMayBeLost PROVE TalkInv /\ [Next]_vars => TalkInv'
<1> SUFFICES ASSUME TalkInv, [Next]_vars PROVE TalkInv'
  OBVIOUS
<1>1. WaitInv'
  BY WaitInductive DEF TalkInv
<1>2. \A c \in Calls : Talks(c)' /\ NoTear(c)' /\ Seat(c)'
  BY TalksStays, NoTearStays, SeatStays
<1>3. \A l \in Legs : Rings(l)' /\ Heard(l)'
  BY RingsStays, HeardStays
<1>4. \A g \in gos' : NotYet(g)' /\ InBridge(g)'
  BY NotYetStays, InBridgeStays
<1>5. QED
  BY <1>1, <1>2, <1>3, <1>4 DEF TalkInv

\* Nobody talks at the start.
LEMMA InitTalk == Init => TalkInv
<1> SUFFICES ASSUME Init PROVE TalkInv
  OBVIOUS
<1>1. \A l \in Legs : l[1] \in Calls /\ l # NoLeg
  BY NoLegAssumption DEF Legs
<1>2. QED
  BY <1>1, InitWait DEF Init, TalkInv, Talks, NoTear, Seat, Rings, Heard, Answered, NewCall

\* In every behaviour the caller and an agent of a bridged call that nothing is in flight
\* about are in the bridge of the call, unless the call took an offer before the attempt
\* before was torn down (handlers.ari.go:120-177, 202-211), or the caller was to be hung
\* up and was not (call.go:399-407).
THEOREM CallerIsNotAlone ==
  ASSUME ~OriginateMayBeLost PROVE Spec => []CallerNotAlone
<1>1. TalkInv => CallerNotAlone
  <2> SUFFICES ASSUME TalkInv, NEW c \in Calls \ overlapped, Quiet(c), call[c].state = "Bridged",
                      clientCh[c] = "stasis", ~Failed("hangup", c)
               PROVE  /\ bridge[c].up /\ bridge[c].client
                      /\ \E l \in bridge[c].legs : legCh[l] = "stasis"
    BY DEF CallerNotAlone
  <2>1. call[c].bridged # NoLeg
    BY DEF TalkInv, Talks, Quiet
  <2>2. bridge[c].up /\ bridge[c].client /\ call[c].bridged \in bridge[c].legs
    BY <2>1 DEF TalkInv, Seat, Watched, Quiet
  <2>3. call[c].bridged \in Legs /\ call[c].bridged[1] = c
    BY <2>1 DEF TalkInv, WaitInv, AttemptInv, Names
  <2>4. legCh[call[c].bridged] = "stasis"
    BY <2>3 DEF TalkInv, Heard, Answered, Quiet
  <2>5. QED
    BY <2>2, <2>4
<1>2. QED
  BY <1>1, InitTalk, TalkInductive, PTL DEF Spec

-----------------------------------------------------------------------------
(* CallLifecycle implements CallOffer. *)

\* Only a goroutine that is still to dial carries an attempt whose leg does not exist.
Dialled(g) == Carries(g) => (legCh[g.leg] = "none" <=> g.f = "offer")

\* The legs of attempts that are still to come do not exist.
Unused(l) == l[3] > call[l[1]].attempts => legCh[l] = "none"

OfferInv ==
  /\ TalkInv
  /\ \A l \in Legs : Unused(l)
  /\ \A g \in gos : Dialled(g)

\* A leg that exists stays one that exists, and Originate creates that of the attempt its
\* call is in.
LEMMA WhoDials ==
  ASSUME ~OriginateMayBeLost, TalkInv, [Next]_vars, NEW l \in Legs
  PROVE  /\ legCh[l] # "none" => legCh'[l] # "none"
         /\ legCh[l] = "none" /\ legCh'[l] # "none" =>
              \E g \in gos : g.f = "offer" /\ Originate(g) /\ g.leg = l /\ Carries(g)
<1>0. TimerInv /\ DataOK
  BY WaitFacts DEF TalkInv
<1>1. ASSUME NEW g \in gos, Originate(g), g.leg = l PROVE legCh'[l] = "dialing"
  BY <1>0, <1>1 DEF Originate, DataOK
<1>2. ASSUME NEW g \in gos, Originate(g), g.f = "offer" PROVE Carries(g)
  BY <1>2 DEF Originate, Carries
<1>3. CASE legCh'[l] # legCh[l]
  BY <1>0, <1>1, <1>2, <1>3, WhoseLeg
<1>4. QED
  BY <1>3

\* Attempts that are still to come stay without a leg.
LEMMA UnusedStays ==
  ASSUME ~OriginateMayBeLost, OfferInv, [Next]_vars, NEW l \in Legs
  PROVE  Unused(l)'
<1>0. /\ TalkInv /\ AttemptInv /\ TimerInv /\ l[1] \in Calls /\ l[3] \in Nat
      /\ Numbered(l[1])
  BY WaitFacts DEF OfferInv, TalkInv, WaitInv, Legs
<1>1. SUFFICES ASSUME l[3] > call'[l[1]].attempts, legCh'[l] # "none" PROVE FALSE
  BY DEF Unused
<1>2. l[3] > call[l[1]].attempts
  BY <1>0, <1>1, CountsUp
<1>3. legCh[l] = "none"
  BY <1>2 DEF OfferInv, Unused
<1>4. PICK g \in gos : Originate(g) /\ g.leg = l /\ Carries(g)
  BY <1>0, <1>1, <1>3, WhoDials
<1>5. call[l[1]].leg = l
  BY <1>0, <1>4, CarriesCurrent
<1>6. l[3] <= call[l[1]].attempts
  BY <1>0, <1>5 DEF Numbered
<1>7. QED
  BY <1>0, <1>2, <1>6, CountsUp

\* A goroutine that carries an attempt on and is not to dial has a leg.
LEMMA DialledStays ==
  ASSUME ~OriginateMayBeLost, OfferInv, [Next]_vars, NEW h \in gos'
  PROVE  Dialled(h)'
<1>0. /\ TalkInv /\ WaitInv /\ AttemptInv /\ TimerInv
      /\ \A g \in gos : g \in Goroutine /\ g.c \in Calls /\ InPlace(g)
      /\ h.c \in Calls /\ InPlace(h) /\ h.f \in Handlers
  BY WaitFacts DEF OfferInv, TalkInv
<1>1. SUFFICES ASSUME Carries(h) PROVE legCh'[h.leg] = "none" <=> h.f = "offer"
  BY DEF Dialled, Carries
<1>2. h.leg \in Legs /\ h.leg[1] = h.c
  BY <1>0, <1>1, CarriesCurrentAfter
<1>3. ASSUME NEW g \in gos, Carries(g), g.leg = h.leg, g.f = h.f, g = h \/ h \notin gos
      PROVE  legCh'[h.leg] = "none" <=> h.f = "offer"
  <2>1. legCh[h.leg] = "none" <=> h.f = "offer"
    BY <1>3 DEF OfferInv, Dialled
  <2>2. ASSUME NEW k \in gos, Originate(k), k.leg = h.leg, Carries(k) PROVE FALSE
    <3>1. k = g
      BY <1>0, <1>3, <2>2, CarriesCurrent
    <3>2. gos' = gos \ {g}
      BY <2>2, <3>1 DEF Originate, Return, Becomes
    <3>3. QED
      BY <1>3, <3>2
  <2>3. QED
    BY <1>0, <1>2, <2>1, <2>2, WhoDials
<1>4. CASE h \in gos
  BY <1>1, <1>3, <1>4
<1>5. CASE h \notin gos /\ Starts(h)
  <2>1. h.f \in {"agentEnter", "noAnswer"}
    BY <1>1, <1>5 DEF Starts, Carries, Sending
  <2>2. QED
    BY <1>5, <2>1 DEF Starts
<1>6. ASSUME h \notin gos, NEW g \in gos, Step(g), Succeeds(g, h)
      PROVE  legCh'[h.leg] = "none" <=> h.f = "offer"
  <2>1. CASE Resumes(g, h) /\ Carries(g)
    BY <1>3, <1>6, <2>1 DEF Resumes
  <2>2. CASE OfferTaken(g) /\ h.f = "offer"
    <3>1. g.c = h.c /\ call'[h.c].leg = h.leg
      BY <1>0, <1>1, <1>6, CarriesCurrentAfter DEF Succeeds
    <3>2. h.leg = <<h.c, g.user, call[h.c].attempts + 1>>
      BY <1>0, <2>2, <3>1, EffectOf
    <3>3. legCh[h.leg] = "none"
      <4>1. h.leg[3] = call[h.c].attempts + 1 /\ call[h.c].attempts \in Nat
        BY <1>0, <3>2, CountsUp
      <4>2. QED
        BY <1>2, <4>1 DEF OfferInv, Unused
    <3>4. QED
      BY <2>2, <3>3 DEF OfferTaken, asterisk
  <2>3. CASE AgentJoins(g) /\ g.f = "agentEnter" /\ h.f = "bridge" /\ h.leg = g.leg
    <3>1. legCh[h.leg] # "none"
      BY <2>3 DEF OfferInv, Dialled, Carries
    <3>2. QED
      BY <1>0, <1>2, <2>3, <3>1, WhoDials
  <2>4. CASE h.f \in Sending /\ g.f = "bridge" /\ PublishAccepted(g) /\ h.leg = g.leg
    <3>1. Carries(g)
      BY <2>4 DEF Carries, PublishAccepted, Bridging
    <3>2. legCh[h.leg] # "none"
      BY <2>4, <3>1 DEF OfferInv, Dialled
    <3>3. QED
      BY <1>0, <1>2, <2>4, <3>2, WhoDials DEF Sending
  <2>5. QED
    BY <1>0, <1>1, <1>6, <2>1, <2>2, <2>3, <2>4 DEF Succeeds, Carries, InPlace, Sending, Bridging
<1>7. QED
  BY <1>0, <1>4, <1>5, <1>6, Origin

\* OfferInv is inductive when a failed Originate leaves no channel.
LEMMA OfferInductive ==
  ASSUME ~OriginateMayBeLost PROVE OfferInv /\ [Next]_vars => OfferInv'
<1> SUFFICES ASSUME OfferInv, [Next]_vars PROVE OfferInv'
  OBVIOUS
<1>1. TalkInv'
  BY TalkInductive DEF OfferInv
<1>2. QED
  BY <1>1, UnusedStays, DialledStays DEF OfferInv

\* No leg exists at the start.
LEMMA InitOffer == Init => OfferInv
BY InitTalk DEF Init, OfferInv, Unused, Dialled

\* What CallOffer sees of the calls.
AttemptsSame(c) ==
  /\ call'[c].inDistribution = call[c].inDistribution /\ call'[c].leg = call[c].leg
  /\ call'[c].attempts = call[c].attempts /\ call'[c].bridged = call[c].bridged

\* The critical sections that CallOffer sees are its Take, Connect and GiveUp.
LEMMA SectionsOffer ==
  ASSUME ~OriginateMayBeLost, OfferInv, [Next]_vars, NEW g \in gos, Changes(g)
  PROVE  [Offering!Next]_(Offering!vars)
<1>0. /\ AttemptInv /\ TimerInv /\ DataOK /\ g.c \in Calls /\ g \in Goroutine
      /\ InPlace(g) /\ Names(g.c) /\ call[g.c] \in Call
  <2>1. AttemptInv /\ TimerInv /\ DataOK
    BY WaitFacts DEF OfferInv, TalkInv
  <2>2. QED
    BY <2>1, TimerFacts DEF AttemptInv
<1>1. \A c \in Calls : c # g.c => call'[c] = call[c]
  BY <1>0 DEF Changes, QueueProcessStart, OfferTaken, AgentJoins, SetBridged, ResetCall, Terminate,
     DataOK
<1>2. aid' = aid
  BY DEF Changes, QueueProcessStart, OfferTaken, AgentJoins, SetBridged, ResetCall, Terminate, world
<1>3. legCh' = legCh
  <2>1. CASE g.f = "agentEnter" /\ AgentJoins(g)
    <3>1. call[g.c].state # "Bridged"
      BY <2>1 DEF OfferInv, TalkInv, NotYet, Carries
    <3>2. LegsGone({})
      BY <2>1, <3>1 DEF AgentJoins
    <3>3. QED
      BY <1>0, <3>2 DEF LegsGone, DataOK
  <2>2. QED
    BY <2>1 DEF Changes, QueueProcessStart, OfferTaken, SetBridged, ResetCall, Terminate, asterisk
<1>4. CASE AttemptsSame(g.c)
  <2>1. \A c \in Calls : AttemptsSame(c)
    BY <1>1, <1>4 DEF AttemptsSame
  <2>2. QED
    BY <1>2, <1>3, <2>1 DEF AttemptsSame, Offering!vars
<1>5. CASE g.f = "offer" /\ OfferTaken(g)
  <2>1. ~call[g.c].inDistribution /\ call[g.c].attempts < MaxAttempts /\ g.user \in Users
    BY <1>0, <1>5, TimerFacts DEF OfferTaken, Sound
  <2>2. /\ call'[g.c].inDistribution /\ call'[g.c].attempts = call[g.c].attempts + 1
        /\ call'[g.c].leg = <<g.c, g.user, call[g.c].attempts + 1>>
        /\ call'[g.c].bridged = call[g.c].bridged
    BY <1>0, <1>5, EffectOf
  <2>3. g.c \in Calls
    BY <1>0
  <2>4. Offering!Take(g.c, g.user)
    BY <1>1, <1>2, <1>3, <2>1, <2>2, <2>3 DEF Offering!Take
  <2>5. QED
    BY <2>1, <2>3, <2>4 DEF Offering!Next
<1>6. CASE g.f = "bridge" /\ SetBridged(g)
  <2>1. Carries(g)
    BY <1>6 DEF Carries, SetBridged
  <2>2. /\ call[g.c].inDistribution /\ call[g.c].leg = g.leg /\ g.leg \in Legs
        /\ g.leg[1] = g.c
    BY <1>0, <2>1, CarriesCurrent
  <2>3. legCh[g.leg] \in {"stasis", "gone"}
    <3>1. legCh[g.leg] # "none"
      BY <1>6, <2>1 DEF OfferInv, Dialled
    <3>2. legCh[g.leg] # "dialing"
      BY <1>0, <2>1, <2>2 DEF AttemptInv, Rung
    <3>3. QED
      BY <1>0, <2>2, <3>1, <3>2 DEF DataOK
  <2>4. /\ call'[g.c].inDistribution = call[g.c].inDistribution
        /\ call'[g.c].attempts = call[g.c].attempts
        /\ call'[g.c].leg = g.leg /\ call'[g.c].bridged = g.leg
    BY <1>0, <1>6, EffectOf
  <2>5. g.c \in Calls /\ g.leg # NoLeg
    BY <1>0, <2>2, NoLegAssumption
  <2>6. Offering!Connect(g.c)
    <3>1. [c \in Calls |-> IF call[c].inDistribution THEN call[c].leg ELSE NoLeg][g.c] = g.leg
      BY <2>2, <2>5
    <3>2. [c \in Calls |-> call'[c].bridged # NoLeg]
            = [[c \in Calls |-> call[c].bridged # NoLeg] EXCEPT ![g.c] = TRUE]
      BY <1>1, <2>4, <2>5
    <3>3. UNCHANGED <<[c \in Calls |-> IF call[c].inDistribution THEN call[c].leg ELSE NoLeg],
                      [c \in Calls |-> call[c].attempts]>>
      BY <1>1, <2>2, <2>4, <2>5
    <3>4. [c \in Calls |-> IF aid'[c].state = "Accepted" THEN aid'[c].user ELSE NoUser]
            = [c \in Calls |-> IF aid[c].state = "Accepted" THEN aid[c].user ELSE NoUser]
      BY <1>2
    <3>5. QED
      BY <1>3, <2>3, <2>5, <3>1, <3>2, <3>3, <3>4, Zenon DEF Offering!Connect
  <2>7. QED
    BY <2>5, <2>6 DEF Offering!Next
<1>7. CASE g.f \in {"offer", "bridge", "noAnswer"} /\ ResetCall(g)
  <2>1. Carries(g)
    BY <1>0, <1>7, ResetCarries
  <2>2. /\ call[g.c].inDistribution /\ call[g.c].leg = g.leg /\ g.leg \in Legs
        /\ g.leg[1] = g.c
    BY <1>0, <2>1, CarriesCurrent
  <2>3. legCh[g.leg] # "dialing"
    BY <1>0, <2>1, <2>2 DEF AttemptInv, Rung
  <2>4. /\ ~call'[g.c].inDistribution /\ call'[g.c].attempts = call[g.c].attempts
        /\ call'[g.c].leg = NoLeg /\ call'[g.c].bridged = NoLeg
    BY <1>0, <1>7, EffectOf
  <2>5. g.c \in Calls /\ g.leg # NoLeg
    BY <1>0, <2>2, NoLegAssumption
  <2>6. Offering!GiveUp(g.c)
    <3>1. [c \in Calls |-> IF call[c].inDistribution THEN call[c].leg ELSE NoLeg][g.c] = g.leg
      BY <2>2, <2>5
    <3>2. [c \in Calls |-> IF call'[c].inDistribution THEN call'[c].leg ELSE NoLeg]
            = [[c \in Calls |-> IF call[c].inDistribution THEN call[c].leg ELSE NoLeg]
                 EXCEPT ![g.c] = NoLeg]
      BY <1>1, <2>4, <2>5
    <3>3. [c \in Calls |-> call'[c].bridged # NoLeg]
            = [[c \in Calls |-> call[c].bridged # NoLeg] EXCEPT ![g.c] = FALSE]
      BY <1>1, <2>4, <2>5
    <3>4. [c \in Calls |-> call'[c].attempts] = [c \in Calls |-> call[c].attempts]
      BY <1>1, <2>4
    <3>5. [c \in Calls |-> IF aid'[c].state = "Accepted" THEN aid'[c].user ELSE NoUser]
            = [c \in Calls |-> IF aid[c].state = "Accepted" THEN aid[c].user ELSE NoUser]
      BY <1>2
    <3>6. QED
      BY <1>3, <2>3, <2>5, <3>1, <3>2, <3>3, <3>4, <3>5, Zenon DEF Offering!GiveUp
  <2>7. QED
    BY <2>5, <2>6 DEF Offering!Next
<1>8. QED
  BY <1>0, <1>4, <1>5, <1>6, <1>7, EffectOf DEF Changes, AttemptsSame

\* Legs that ring and end are those of Ring, Answer and Leave.
LEMMA LegsOffer ==
  ASSUME ~OriginateMayBeLost, OfferInv, [Next]_vars, \A c \in Calls : AttemptsSame(c),
         aid' = aid, legCh' # legCh
  PROVE  Offering!Next
<1>0. /\ AttemptInv /\ TimerInv /\ DataOK
      /\ \A g \in gos : g \in Goroutine /\ g.c \in Calls
  BY WaitFacts DEF OfferInv, TalkInv
<1>1. ASSUME NEW H \in SUBSET Legs, LegsGone(H) PROVE Offering!Next
  <2> DEFINE K == {l \in H : legCh[l] # "none"}
  <2>1. Offering!Leave(K)
    BY <1>0, <1>1 DEF Offering!Leave, Offering!Legs, Legs, LegsGone, AttemptsSame
  <2>2. K \in SUBSET Offering!Legs
    BY DEF Offering!Legs, Legs
  <2> HIDE DEF K
  <2>3. QED
    BY <2>1, <2>2 DEF Offering!Next
<1>2. CASE World
  <2>1. PICK l \in Legs : AgentAnswers(l) \/ AgentFails(l) \/ AgentHangsUp(l)
    BY <1>2 DEF World, TimerFires, ClientEnters, ClientHangsUp, Distribute, asterisk
  <2>2. CASE AgentAnswers(l)
    <3>1. l[1] \in Calls /\ call[l[1]].inDistribution /\ call[l[1]].leg = l
      BY <1>0, <2>2 DEF AgentAnswers, AttemptInv, Rung, Current, Legs
    <3>2. l # NoLeg /\ legCh[l] = "dialing" /\ legCh' = [legCh EXCEPT ![l] = "stasis"]
      BY <2>2, NoLegAssumption DEF AgentAnswers
    <3>3. Offering!Answer(l[1])
      BY <3>1, <3>2 DEF Offering!Answer, AttemptsSame
    <3>4. QED
      BY <3>1, <3>3 DEF Offering!Next
  <2>3. CASE AgentFails(l) \/ AgentHangsUp(l)
    BY <1>1, <2>3 DEF AgentFails, AgentHangsUp
  <2>4. QED
    BY <2>1, <2>2, <2>3
<1>3. ASSUME NEW g \in gos, g.f = "offer", Originate(g) PROVE Offering!Next
  <2>1. Carries(g)
    BY <1>3 DEF Originate, Carries
  <2>2. /\ call[g.c].inDistribution /\ call[g.c].leg = g.leg /\ g.leg \in Legs
    BY <1>0, <2>1, CarriesCurrent
  <2>3. legCh[g.leg] = "none" /\ call[g.c].bridged = NoLeg
    BY <1>3, <2>1 DEF OfferInv, Dialled, TalkInv, NotYet
  <2>4. g.c \in Calls /\ g.leg # NoLeg
    BY <1>0, <2>2, NoLegAssumption
  <2>5. legCh' = [legCh EXCEPT ![g.leg] = "dialing"]
    BY <1>3 DEF Originate
  <2>6. Offering!Ring(g.c)
    BY <2>2, <2>3, <2>4, <2>5 DEF Offering!Ring, AttemptsSame
  <2>7. QED
    BY <2>4, <2>6 DEF Offering!Next
<1>4. ASSUME NEW g \in gos, AgentJoins(g) PROVE Offering!Next
  <2>1. PICK late \in SUBSET {g.leg} : LegsGone(late)
    BY <1>4 DEF AgentJoins
  <2>2. LegsGone(late \cap Legs)
    BY <2>1 DEF LegsGone
  <2>3. QED
    BY <1>1, <2>2
<1>5. ASSUME NEW g \in gos, TearDown(g) PROVE Offering!Next
  <2>1. PICK H \in SUBSET Legs : LegsGone(H)
    BY <1>5, TornDown
  <2>2. QED
    BY <1>1, <2>1
<1>6. QED
  BY <1>2, <1>3, <1>4, <1>5, EveryStep, WhoRings

\* What AID is told is an Accept or a Retract.
LEMMA ToldOffer ==
  ASSUME ~OriginateMayBeLost, OfferInv, [Next]_vars, \A c \in Calls : AttemptsSame(c),
         aid' # aid
  PROVE  [Offering!Next]_(Offering!vars)
<1>0. /\ AttemptInv /\ TimerInv /\ DataOK
      /\ \A g \in gos : g \in Goroutine /\ g.c \in Calls /\ InPlace(g) /\ g.f \in Handlers
  BY WaitFacts DEF OfferInv, TalkInv
<1>1. CASE World
  <2>1. PICK c \in Calls, u \in Users : Distribute(c, u)
    BY <1>1 DEF World, TimerFires, ClientEnters, ClientHangsUp, AgentAnswers, AgentFails,
                AgentHangsUp, world
  <2>2. aid' = [aid EXCEPT ![c].state = "Offered"] /\ aid[c].state # "Accepted" /\ legCh' = legCh
    BY <2>1 DEF Distribute, asterisk
  <2>3. \A d \in Calls : /\ d # c => aid'[d] = aid[d]
                         /\ aid'[c].state # "Accepted"
    BY <1>0, <2>2 DEF DataOK
  <2>4. QED
    BY <2>2, <2>3 DEF AttemptsSame, Offering!vars
<1>2. ASSUME NEW c \in Calls, legCh' = legCh, aid'[c].state # "Accepted",
             \A d \in Calls : d # c => aid'[d] = aid[d]
      PROVE  Offering!Next
  <2>1. Offering!Retract(c)
    BY <1>2 DEF Offering!Retract, AttemptsSame
  <2>2. QED
    BY <2>1 DEF Offering!Next
<1>3. ASSUME NEW g \in gos, PublishNew(g) PROVE Offering!Next
  <2>1. aid'[g.c].state = "New" /\ legCh' = legCh /\ \A d \in Calls : d # g.c => aid'[d] = aid[d]
    BY <1>0, <1>3 DEF PublishNew, asterisk, DataOK
  <2>2. QED
    BY <1>0, <1>2, <2>1
<1>4. ASSUME NEW g \in gos, Send(g), g.arg # "Accepted" PROVE Offering!Next
  <2>1. aid' = [aid EXCEPT ![g.c] = [state |-> g.arg, user |-> NamedUser(g)]] /\ legCh' = legCh
    BY <1>4 DEF Send, asterisk
  <2>2. aid'[g.c].state = g.arg /\ \A d \in Calls : d # g.c => aid'[d] = aid[d]
    BY <1>0, <2>1 DEF DataOK
  <2>3. QED
    BY <1>0, <1>2, <1>4, <2>1, <2>2
<1>5. ASSUME NEW g \in gos, Send(g), g.arg = "Accepted" PROVE Offering!Next
  <2>1. g.f \in Sending
    BY <1>0, <1>5 DEF InPlace, Send, Handlers, Sending, Ending, ReSetup
  <2>2. Carried(g) /\ g.leg \in Legs
    BY <1>5, <2>1, <1>0 DEF AttemptInv, Carries, Carried
  <2>3. /\ call[g.c].inDistribution /\ call[g.c].leg = g.leg
        /\ call[g.c].bridged = g.leg /\ g.user = g.leg[2]
    BY <2>1, <2>2 DEF Carried, Current
  <2>4. NamedUser(g) = g.leg[2]
    BY <2>2, <2>3, CallAssumption DEF NamedUser, Legs
  <2>5. aid' = [aid EXCEPT ![g.c] = [state |-> "Accepted", user |-> g.leg[2]]] /\ legCh' = legCh
    BY <1>5, <2>4 DEF Send, asterisk
  <2>6. /\ aid'[g.c].state = "Accepted" /\ aid'[g.c].user = g.leg[2]
        /\ \A d \in Calls : d # g.c => aid'[d] = aid[d]
    BY <1>0, <2>5 DEF DataOK
  <2>7. Offering!Accept(g.c)
    <3>1. g.c \in Calls /\ g.leg # NoLeg
      BY <1>0, <2>2, NoLegAssumption
    <3>2. PICK u : u = g.leg[2]
      OBVIOUS
    <3>3. [c \in Calls |-> IF call[c].inDistribution THEN call[c].leg ELSE NoLeg][g.c][2] = u
      BY <2>3, <3>1, <3>2
    <3>4. aid'[g.c].state = "Accepted" /\ aid'[g.c].user = u
      BY <2>6, <3>2
    <3>5. [c \in Calls |-> IF aid'[c].state = "Accepted" THEN aid'[c].user ELSE NoUser]
            = [[c \in Calls |-> IF aid[c].state = "Accepted" THEN aid[c].user ELSE NoUser]
                 EXCEPT ![g.c] = u]
      BY <2>6, <3>1, <3>4
    <3>6. [c \in Calls |-> call[c].bridged # NoLeg][g.c]
      BY <2>3, <3>1
    <3>7. UNCHANGED <<[c \in Calls |-> IF call[c].inDistribution THEN call[c].leg ELSE NoLeg],
                      [c \in Calls |-> call[c].attempts],
                      [c \in Calls |-> call[c].bridged # NoLeg], legCh>>
      BY <2>5 DEF AttemptsSame
    <3>8. QED
      BY <3>3, <3>5, <3>6, <3>7, Zenon DEF Offering!Accept
  <2>8. QED
    BY <1>0, <2>7 DEF Offering!Next
<1>6. QED
  BY <1>1, <1>3, <1>4, <1>5, EveryStep, WhoTells

\* onAidDistributionMessage, the handlers of agents' channels, bridgeCall, the return to
\* the queue and sendInteractionStateMessage keep what CallOffer promises of the attempts
\* of a call, in every interleaving, for all calls, agents and limits.
THEOREM AttemptsKeepPromise ==
  ASSUME ~OriginateMayBeLost PROVE Spec => ImplementsCallOffer
<1>1. Init => Offering!Init
  <2> SUFFICES ASSUME Init PROVE Offering!Init
    OBVIOUS
  <2>1. \A c \in Calls : /\ ~call[c].inDistribution /\ call[c].attempts = 0
                         /\ call[c].bridged = NoLeg /\ aid[c].state # "Accepted"
    BY DEF Init, NewCall, NoReason
  <2>2. legCh = [l \in Offering!Legs |-> "none"]
    BY DEF Init, Legs, Offering!Legs
  <2>3. QED
    BY <2>1, <2>2 DEF Offering!Init
<1>2. OfferInv /\ [Next]_vars => [Offering!Next]_(Offering!vars)
  <2> SUFFICES ASSUME OfferInv, [Next]_vars PROVE [Offering!Next]_(Offering!vars)
    OBVIOUS
  <2>1. CASE \A c \in Calls : AttemptsSame(c)
    <3>1. CASE aid' = aid /\ legCh' = legCh
      BY <2>1, <3>1 DEF AttemptsSame, Offering!vars
    <3>2. QED
      BY <2>1, <3>1, LegsOffer, ToldOffer
  <2>2. CASE \E c \in Calls : ~AttemptsSame(c)
    <3>1. PICK c \in Calls : ~SameAs(call'[c], call[c])
      BY <2>2 DEF AttemptsSame, SameAs
    <3>2. PICK g \in gos : Changes(g)
      BY <3>1, WhoChanges, WaitFacts DEF OfferInv, TalkInv
    <3>3. QED
      BY <3>2, SectionsOffer
  <2>3. QED
    BY <2>1, <2>2
<1>3. QED
  BY <1>1, <1>2, InitOffer, OfferInductive, PTL DEF Spec, ImplementsCallOffer, Offering!Spec

-----------------------------------------------------------------------------
(* CallLifecycle implements CallFate. *)

\* A caller that enters finds the call new, and its timeout is not scheduled twice.
Entering(g) ==
  g.f = "enter" =>
    /\ g.at = "create" => g.c \notin calls /\ call[g.c].state = "New"
    /\ g.at # "publish" => g.c \notin timers

\* A call that has begun, or is about to, is found when its caller leaves, and stays
\* registered until it is terminated.
Lasting(g) ==
  /\ g.f = "clientLeave" /\ g.at \in {"lookup", "lock", "terminate"}
  /\ \/ g.at # "lookup" \/ call[g.c].state # "New"
     \/ Starting(g.c)
  => g.c \in calls

CourseInv ==
  /\ LeaveInv
  /\ \A g \in gos : Entering(g) /\ Lasting(g)

\* A timeout is scheduled by the entry of its call, and taken away by a goroutine of it.
LEMMA TimersOf ==
  ASSUME NEW g \in gos, Step(g), timers' # timers
  PROVE  \/ g.f = "enter" /\ ScheduleTimeout(g)
         \/ timers' = timers \ {g.c} /\ ((g.f = "agentEnter" /\ AgentJoins(g)) \/ CancelTimer(g))
<1>0. ~GivesUp(g)
  BY DEF GivesUp
<1>1. EnterStep(g) => g.f = "enter" /\ ScheduleTimeout(g)
  BY <1>0, FailureGivesUp DEF EnterStep, RejectSetup, RegisterCall, QueueProcessStart, PublishNew
<1>2. ~OfferStep(g)
  BY <1>0, FailureGivesUp DEF OfferStep, OfferLookup, OfferIgnored, OfferDismissed, OfferBeyondLimit, OfferTaken,
         AddAgentCallMap, Originate, OriginateFails
<1>3. AgentEnterStep(g) => g.f = "agentEnter" /\ AgentJoins(g) /\ timers' = timers \ {g.c}
  BY DEF AgentEnterStep, LegLookup, LateAgentGone, AgentJoins
<1>4. ~BridgeStep(g)
  BY DEF BridgeStep, SetBridged, CreateBridge, AddClient, AddLeg, AddOutBoundCall,
         SetMemberVariable, PublishAccepted
<1>5. ~AgentLeaveStep(g) /\ ~NoAnswerStep(g)
  BY DEF AgentLeaveStep, NoAnswerStep, LegLookup, AgentLeft, AgentLeftFails, CallerKept
<1>6. ~ClientLeaveStep(g)
  BY DEF ClientLeaveStep, ClientLeft, ReasonOfLeave, AlreadyTerminated, Terminate,
         LogOnTerminate, LogOnTerminateFails, RemoveCall
<1>7. ~TimeoutStep(g)
  BY DEF TimeoutStep, TimeoutLookup, TimeoutReached
<1>8. ~ReSetupStep(g)
  BY DEF ReSetupStep, ResetCall, TearDown, Unmap, PublishRejected
<1>9. /\ CancelTimer(g) => timers' = timers \ {g.c}
      /\ ~HangupClient(g) /\ ~HangupClientFails(g) /\ ~Send(g) /\ ~SendFails(g)
  BY <1>0, FailureGivesUp DEF CancelTimer, HangupClient, Send
<1>10. QED
  BY <1>1, <1>2, <1>3, <1>4, <1>5, <1>6, <1>7, <1>8, <1>9 DEF Step

\* The timeout of a call is scheduled by its entry.
LEMMA WhoSchedules ==
  ASSUME TimerInv, [Next]_vars, NEW c \in timers' \ timers
  PROVE  \E g \in gos : g.f = "enter" /\ g.c = c /\ ScheduleTimeout(g)
<1>1. World => timers' \subseteq timers
  BY DEF World, ClientEnters, ClientHangsUp, TimerFires, AgentAnswers, AgentFails, AgentHangsUp, Distribute
<1>2. timers' # timers => World \/ \E g \in gos : Step(g)
  BY DEF Next, Engine, Panic, vars
<1>3. PICK g \in gos : Step(g)
  BY <1>1, <1>2
<1>4. g.f = "enter" /\ ScheduleTimeout(g)
  BY <1>3, TimersOf
<1>5. g.c = c
  BY <1>4 DEF ScheduleTimeout
<1>6. QED
  BY <1>4, <1>5

\* A goroutine of the entry or of the leave of a call that is still there did not move.
LEMMA NotMoved ==
  ASSUME TimerInv, NEW g \in gos,
         (g.f = "enter" /\ (RegisterCall(g) \/ QueueProcessStart(g) \/ ScheduleTimeout(g)))
         \/ (g.f = "clientLeave" /\ (RemoveCall(g) \/ Terminate(g)))
  PROVE  g \notin gos'
<1>1. g \in Goroutine
  BY TimerFacts
<1>2. ASSUME NEW h, Becomes(g, {h}), h # g PROVE g \notin gos'
  BY <1>2 DEF Becomes
<1>3. ASSUME NEW step \in Steps, step # g.at, Goto(g, step) \/ Return(g) PROVE g \notin gos'
  <2>1. [g EXCEPT !.at = step] # g
    BY <1>1, <1>3, PlaceOf
  <2>2. QED
    BY <1>3, <2>1 DEF Goto, Return, Becomes
<1>4. CASE RegisterCall(g) \/ QueueProcessStart(g) \/ ScheduleTimeout(g)
  BY <1>3, <1>4 DEF RegisterCall, QueueProcessStart, ScheduleTimeout, Steps
<1>5. CASE g.f = "clientLeave" /\ (RemoveCall(g) \/ Terminate(g))
  <2>1. Step(g)
    BY <1>5 DEF Step, ClientLeaveStep
  <2>2. QED
    BY <1>5, <2>1, LeaverMoves
<1>6. QED
  BY <1>4, <1>5

\* Entering holds on.
LEMMA EnteringStays ==
  ASSUME CourseInv, TimerInv', [Next]_vars, NEW h \in gos'
  PROVE  Entering(h)'
<1> DEFINE c == h.c
<1> SUFFICES ASSUME h.f = "enter"
             PROVE  /\ h.at = "create" => c \notin calls' /\ call'[c].state = "New"
                    /\ h.at # "publish" => c \notin timers'
  BY DEF Entering
<1>0. TimerInv /\ c \in Calls /\ Unqueued(c) /\ Idle(c)
  <2>1. c \in Calls
    BY SoundTypes DEF TimerInv, EndInv, IInv
  <2>2. QED
    BY <2>1 DEF CourseInv, LeaveInv
<1>1. CASE h \in gos
  <2>1. ASSUME h.at = "create" PROVE c \notin calls' /\ call'[c].state = "New"
    <3>1. c \notin calls /\ call[c].state = "New"
      BY <1>1, <2>1 DEF CourseInv, Entering
    <3>2. \A g \in gos : g.f = "enter" /\ g.c = c => ~RegisterCall(g) /\ ~QueueProcessStart(g)
      BY <1>0, <1>1, NotMoved DEF TimerInv, OneEntry
    <3>3. \A g \in gos : g.f = "clientLeave" /\ g.c = c => ~Terminate(g)
      BY <3>1 DEF CourseInv, Lasting, Terminate
    <3>4. QED
      BY <1>0, <3>1, <3>2, <3>3, WhoseMaps, WhoBegins
  <2>2. ASSUME h.at # "publish" PROVE c \notin timers'
    <3>1. c \notin timers
      BY <1>1, <2>2 DEF CourseInv, Entering
    <3>2. \A g \in gos : g.f = "enter" /\ g.c = c => ~ScheduleTimeout(g)
      BY <1>0, <1>1, NotMoved DEF TimerInv, OneEntry
    <3>3. QED
      BY <1>0, <3>1, <3>2, WhoSchedules
  <2>3. QED
    BY <2>1, <2>2
<1>2. CASE h \notin gos
  <2>1. CASE clientCh[c] = "none"
    <3>1. c \notin calls /\ call[c].state = "New" /\ c \notin timers
      BY <1>0, <2>1 DEF Idle, TimerInv, StateMeans
    <3>2. \A g \in gos : g.c # c
      BY <1>0, <2>1, TimerFacts DEF Placed
    <3>3. QED
      BY <1>0, <3>1, <3>2, WhoseMaps, WhoBegins, WhoSchedules
  <2>2. ASSUME NEW g \in gos, g.f = "enter", g.c = c, g.at # "publish", h.at # "create",
               ScheduleTimeout(g) => h.at = "publish"
        PROVE  h.at # "publish" => c \notin timers'
    <3>1. c \notin timers
      BY <2>2 DEF CourseInv, Entering
    <3>2. \A k \in gos : k.f = "enter" /\ k.c = c => k = g
      BY <1>0, <2>2 DEF TimerInv, OneEntry
    <3>3. QED
      BY <1>0, <2>2, <3>1, <3>2, WhoSchedules
  <2>3. QED
    BY <1>0, <1>2, <2>1, <2>2, EnterGoesOn DEF RegisterCall, QueueProcessStart, ScheduleTimeout
<1>3. QED
  BY <1>1, <1>2

\* A call that a caller who leaves will find stays registered.
LEMMA StaysRegistered ==
  ASSUME LeaveInv, TimerInv', [Next]_vars, NEW h \in gos', h.f = "clientLeave",
         h.at \in {"lookup", "lock", "terminate"}, h.c \in calls
  PROVE  h.c \in calls'
<1> SUFFICES ASSUME NEW g \in gos, g.c = h.c, g.f = "clientLeave", RemoveCall(g) PROVE FALSE
  BY WhoseMaps DEF LeaveInv
<1>0. TimerInv /\ g.at = "remove"
  BY DEF LeaveInv, RemoveCall
<1>1. CASE h \in gos
  BY <1>0, <1>1 DEF LeaveInv, OneLeave
<1>2. CASE h \notin gos
  <2>1. ~Starts(h)
    BY DEF LeaveInv, Leaving, Starts
  <2>2. PICK k \in gos : k.f = "clientLeave" /\ k.c = h.c /\ Succeeds(k, h)
    BY <1>0, <1>2, <2>1, LeaveOrigin
  <2>3. k = g
    BY <2>2 DEF LeaveInv, OneLeave
  <2>4. QED
    BY <1>0, <2>2, <2>3 DEF Succeeds, Resumes, Sending, ClientLeft, ReasonOfLeave
<1>3. QED
  BY <1>1, <1>2

\* Lasting holds on.
LEMMA LastingStays ==
  ASSUME CourseInv, TimerInv', [Next]_vars, NEW h \in gos'
  PROVE  Lasting(h)'
<1> DEFINE c == h.c
<1> SUFFICES ASSUME h.f = "clientLeave", h.at \in {"lookup", "lock", "terminate"},
                    h.at # "lookup" \/ call'[c].state # "New" \/ Starting(c)'
             PROVE  c \in calls'
  BY DEF Lasting
<1>0. TimerInv /\ LeaveInv /\ c \in Calls /\ Unqueued(c)
  <2>1. c \in Calls
    BY SoundTypes DEF TimerInv, EndInv, IInv
  <2>2. QED
    BY <2>1 DEF CourseInv, LeaveInv
<1>1. SUFFICES ASSUME c \notin calls PROVE c \in calls'
  BY <1>0, StaysRegistered
<1>2. ASSUME NEW g \in gos, g.f = "clientLeave", g.c = c
      PROVE  g.at \notin {"lock", "terminate"}
  BY <1>1, <1>2 DEF CourseInv, Lasting
<1>3. h.at = "lookup"
  <2>1. CASE h \in gos
    BY <1>2, <2>1
  <2>2. ASSUME NEW k \in gos, k.f = "clientLeave", k.c = c, Step(k), Succeeds(k, h), h.at = "lock"
        PROVE  FALSE
    BY <1>1, <2>2, <1>2 DEF Succeeds, Resumes, ClientLeft, Return, Becomes, Sending
  <2>3. ASSUME NEW k \in gos, k.f = "clientLeave", k.c = c, Succeeds(k, h), h.at = "terminate"
        PROVE  FALSE
    BY <1>2, <2>3 DEF Succeeds, ReasonOfLeave, Sending
  <2>4. QED
    BY <1>0, <2>1, <2>2, <2>3, LeaveOrigin DEF Starts
<1>4. call[c].state = "New"
  <2>1. CASE h \in gos
    BY <1>1, <1>3, <2>1 DEF CourseInv, Lasting
  <2>2. CASE h \notin gos
    <3>1. Starts(h)
      BY <1>0, <1>3, <2>2, LeaveOrigin DEF Succeeds, Sending
    <3>2. QED
      BY <1>0, <1>1, <3>1 DEF LeaveInv, Present, Starts
  <2>3. QED
    BY <2>1, <2>2
<1>5. \A g \in gos : g.f = "enter" /\ g.c = c => g.at # "start"
  <2>1. CASE h \in gos
    BY <1>1, <1>3, <2>1 DEF CourseInv, Lasting, Starting
  <2>2. CASE h \notin gos
    <3>1. Starts(h)
      BY <1>0, <1>3, <2>2, LeaveOrigin DEF Succeeds, Sending
    <3>2. QED
      BY <1>0, <1>1, <3>1 DEF LeaveInv, Present, Starting, Starts
  <2>3. QED
    BY <2>1, <2>2
<1>6. call'[c].state = "New"
  BY <1>0, <1>2, <1>4, <1>5, WhoBegins DEF QueueProcessStart, Terminate
<1>7. PICK k \in gos' : k.f = "enter" /\ k.at = "start" /\ k.c = c
  BY <1>3, <1>6 DEF Starting
<1>8. \E g \in gos : g.c = c /\ RegisterCall(g)
  BY <1>0, <1>5, <1>7, EnterGoesOn
<1>9. QED
  BY <1>8 DEF RegisterCall

\* No step leaves the invariant of the course of a call.
LEMMA CourseInductive == CourseInv /\ [Next]_vars => CourseInv'
<1> SUFFICES ASSUME CourseInv, [Next]_vars PROVE CourseInv'
  OBVIOUS
<1>1. TimerInv /\ TimerInv' /\ LeaveInv'
  BY TimerInductive, LeaveInductive DEF CourseInv, LeaveInv
<1>2. \A h \in gos' : Entering(h)' /\ Lasting(h)'
  BY <1>1, EnteringStays, LastingStays
<1>3. QED
  BY <1>1, <1>2 DEF CourseInv

\* It holds at the start.
LEMMA InitCourse == Init => CourseInv
BY InitLeave DEF Init, CourseInv

\* The queue timeout and the caller of a call as CallFate sees them.
TimerOf(c) == IF c \in timers THEN "pending" ELSE IF Undecided(c) THEN "undecided" ELSE "off"
CallerOf(c) == IF clientCh[c] # "gone" THEN "here" ELSE IF EndToCome(c) THEN "left" ELSE "over"

\* A step that CallFate does not see of a call, and one that it allows.
Unseen(c) == UNCHANGED <<call[c].state, TimerOf(c), CallerOf(c)>>
Allowed(c) ==
  \/ call'[c].state = "InQueue" /\ UNCHANGED <<TimerOf(c), CallerOf(c)>>
  \/ /\ TimerOf(c) = "undecided" /\ call[c].state \in {"InQueue", "Terminated"}
     /\ TimerOf(c)' = "pending" /\ UNCHANGED <<call[c].state, CallerOf(c)>>
  \/ /\ TimerOf(c) \in {"undecided", "pending"} /\ TimerOf(c)' = "off"
     /\ UNCHANGED <<call[c].state, CallerOf(c)>>
  \/ /\ TimerOf(c) # "undecided" /\ call[c].state # "New"
     /\ call'[c].state = "Bridged" /\ TimerOf(c)' = "off" /\ UNCHANGED CallerOf(c)
  \/ /\ CallerOf(c) = "here" /\ CallerOf(c)' = "left" /\ UNCHANGED call[c].state
     /\ \/ UNCHANGED TimerOf(c)
        \/ TimerOf(c) = "undecided" /\ TimerOf(c)' = "off" /\ call[c].state = "New"
  \/ /\ CallerOf(c) = "left" /\ CallerOf(c)' = "over" /\ UNCHANGED TimerOf(c)
     /\ \/ call[c].state # "Terminated" /\ call'[c].state = "Terminated"
        \/ call[c].state = "New" /\ UNCHANGED call[c].state

\* Each of these is an action of CallFate when it leaves the other calls alone.
LEMMA FateStep ==
  ASSUME NEW c \in Calls, \A d \in Calls \ {c} : Unseen(d), Unseen(c) \/ Allowed(c)
  PROVE  [Fate!Next]_(Fate!vars)
<1> DEFINE p == [d \in Calls |-> call[d].state]
           t == [d \in Calls |-> TimerOf(d)]
           k == [d \in Calls |-> CallerOf(d)]
<1>1. ASSUME NEW x, call'[c].state = x PROVE p' = [p EXCEPT ![c] = x]
  BY <1>1 DEF Unseen
<1>2. ASSUME NEW x, TimerOf(c)' = x PROVE t' = [t EXCEPT ![c] = x]
  BY <1>2 DEF Unseen
<1>3. ASSUME NEW x, CallerOf(c)' = x PROVE k' = [k EXCEPT ![c] = x]
  BY <1>3 DEF Unseen
<1>4. /\ call'[c].state = call[c].state => p' = p
      /\ TimerOf(c)' = TimerOf(c) => t' = t
      /\ CallerOf(c)' = CallerOf(c) => k' = k
  BY DEF Unseen
<1>5. p[c] = call[c].state /\ t[c] = TimerOf(c) /\ k[c] = CallerOf(c)
  OBVIOUS
<1>6. /\ p = [d \in Calls |-> call[d].state]
      /\ t = [d \in Calls |-> IF d \in timers THEN "pending"
                              ELSE IF Undecided(d) THEN "undecided" ELSE "off"]
      /\ k = [d \in Calls |-> IF clientCh[d] # "gone" THEN "here"
                              ELSE IF EndToCome(d) THEN "left" ELSE "over"]
  BY DEF TimerOf, CallerOf
<1>7. /\ p' = [d \in Calls |-> call'[d].state]
      /\ t' = [d \in Calls |-> IF d \in timers' THEN "pending"
                               ELSE IF Undecided(d)' THEN "undecided" ELSE "off"]
      /\ k' = [d \in Calls |-> IF clientCh'[d] # "gone" THEN "here"
                               ELSE IF EndToCome(d)' THEN "left" ELSE "over"]
  BY DEF TimerOf, CallerOf
<1> HIDE DEF p, t, k
<1>8. CASE Unseen(c)
  <2>1. p' = p /\ t' = t /\ k' = k
    BY <1>4, <1>8 DEF Unseen
  <2>2. QED
    BY <2>1, <1>6, <1>7 DEF Fate!vars
<1>9. CASE Allowed(c)
  <2>1. ASSUME call'[c].state = "InQueue", UNCHANGED <<TimerOf(c), CallerOf(c)>>
        PROVE  Fate!Wait(c)
    BY <1>1, <1>4, <1>6, <1>7, <2>1 DEF Fate!Wait
  <2>2. ASSUME TimerOf(c) = "undecided", call[c].state \in {"InQueue", "Terminated"},
               TimerOf(c)' = "pending", UNCHANGED <<call[c].state, CallerOf(c)>>
        PROVE  Fate!Schedule(c)
    BY <1>2, <1>4, <1>5, <1>6, <1>7, <2>2 DEF Fate!Schedule
  <2>3. ASSUME TimerOf(c) \in {"undecided", "pending"}, TimerOf(c)' = "off",
               UNCHANGED <<call[c].state, CallerOf(c)>>
        PROVE  Fate!Waive(c) \/ Fate!Spend(c)
    BY <1>2, <1>4, <1>5, <1>6, <1>7, <2>3 DEF Fate!Waive, Fate!Spend
  <2>4. ASSUME TimerOf(c) # "undecided", call[c].state # "New",
               call'[c].state = "Bridged", TimerOf(c)' = "off", UNCHANGED CallerOf(c)
        PROVE  Fate!Answer(c)
    BY <1>1, <1>2, <1>4, <1>5, <1>6, <1>7, <2>4 DEF Fate!Answer
  <2>5. ASSUME CallerOf(c) = "here", CallerOf(c)' = "left", UNCHANGED <<call[c].state, TimerOf(c)>>
        PROVE  Fate!Leave(c)
    BY <1>3, <1>4, <1>5, <1>6, <1>7, <2>5 DEF Fate!Leave
  <2>6. ASSUME CallerOf(c) = "here", CallerOf(c)' = "left", UNCHANGED call[c].state,
               TimerOf(c) = "undecided", TimerOf(c)' = "off", call[c].state = "New"
        PROVE  Fate!Refuse(c)
    BY <1>2, <1>3, <1>4, <1>5, <1>6, <1>7, <2>6 DEF Fate!Refuse
  <2>7. ASSUME CallerOf(c) = "left", CallerOf(c)' = "over", UNCHANGED TimerOf(c),
               call[c].state # "Terminated", call'[c].state = "Terminated"
        PROVE  Fate!End(c)
    BY <1>1, <1>3, <1>4, <1>5, <1>6, <1>7, <2>7 DEF Fate!End
  <2>8. ASSUME CallerOf(c) = "left", CallerOf(c)' = "over", UNCHANGED TimerOf(c),
               call[c].state = "New", UNCHANGED call[c].state
        PROVE  Fate!PassOver(c)
    BY <1>3, <1>4, <1>5, <1>6, <1>7, <2>8 DEF Fate!PassOver
  <2>9. QED
    BY <1>9, <2>1, <2>2, <2>3, <2>4, <2>5, <2>6, <2>7, <2>8 DEF Allowed, Fate!Next
<1>10. QED
  BY <1>8, <1>9

\* A call of which no state, timeout, channel, entry or leave changes stays as it is.
LEMMA StaysUnseen ==
  ASSUME NEW d \in Calls, call'[d].state = call[d].state, d \in timers' <=> d \in timers,
         clientCh'[d] = clientCh[d],
         \A h : h.c = d /\ h.f \in {"enter", "clientLeave"} => (h \in gos' <=> h \in gos)
  PROVE  Unseen(d)
<1>1. Undecided(d)' <=> Undecided(d)
  BY DEF Undecided
<1>2. EndToCome(d)' <=> EndToCome(d)
  BY DEF EndToCome
<1>3. QED
  BY <1>1, <1>2 DEF Unseen, TimerOf, CallerOf

\* A goroutine leaves the entry and the leave of another call alone, and an entry starts
\* and a leave ends in the goroutines of their own.
LEMMA NewOnes ==
  ASSUME CourseInv, NEW g \in gos, Step(g), NEW h \in gos' \ gos, h.f \in {"enter", "clientLeave"}
  PROVE  h.c = g.c /\ (h.f = g.f \/ (h.f = "clientLeave" /\ clientCh'[h.c] # clientCh[h.c]))
<1>0. TimerInv /\ g.c \in Calls /\ DataOK
  BY TimerFacts DEF CourseInv, LeaveInv
<1>1. CASE Starts(h)
  <2>1. clientCh'[h.c] # clientCh[h.c]
    BY <1>1 DEF Starts
  <2>2. ClientGone(g.c)
    BY <1>0, <2>1, HangsUp
  <2>3. h.c = g.c /\ clientCh'[h.c] = "gone"
    BY <1>0, <2>1, <2>2 DEF ClientGone, DataOK
  <2>4. QED
    BY <1>1, <2>1, <2>3 DEF Starts
<1>2. CASE Succeeds(g, h)
  BY <1>2 DEF Succeeds, Resumes, Sending
<1>3. QED
  BY <1>0, <1>1, <1>2, OriginOf

\* A goroutine leaves the other calls alone.
LEMMA OtherCalls ==
  ASSUME CourseInv, NEW g \in gos, Step(g), NEW d \in Calls \ {g.c}
  PROVE  Unseen(d)
<1>0. TimerInv /\ g.c \in Calls /\ DataOK
  BY TimerFacts DEF CourseInv, LeaveInv
<1>1. call'[d].state = call[d].state
  BY <1>0, ChangesOf DEF SameAs
<1>2. d \in timers' <=> d \in timers
  BY TimersOf DEF ScheduleTimeout
<1>3. clientCh'[d] = clientCh[d]
  BY <1>0, HangsUp DEF ClientGone, DataOK
<1>4. \A h : h.c = d /\ h.f \in {"enter", "clientLeave"} => (h \in gos' <=> h \in gos)
  BY NewOnes, OthersGoOn
<1>5. QED
  BY <1>1, <1>2, <1>3, <1>4, StaysUnseen

\* A timeout that is pending is decided.
LEMMA PendingDecided ==
  ASSUME CourseInv, NEW c \in timers
  PROVE  ~Undecided(c)
<1>1. TimerInv /\ c \in Calls /\ clientCh[c] # "none"
  BY TimerFacts DEF CourseInv, LeaveInv, DataOK, StateMeans
<1>2. \A g \in gos : g.f = "enter" /\ g.c = c => g.at = "publish"
  BY DEF CourseInv, Entering
<1>3. QED
  BY <1>1, <1>2 DEF Undecided

\* A caller that a goroutine hangs up was there, and its leave is to be handled.
LEMMA LeavesNow ==
  ASSUME CourseInv, NEW g \in gos, Step(g), clientCh'[g.c] # clientCh[g.c]
  PROVE  CallerOf(g.c) = "here" /\ CallerOf(g.c)' = "left"
<1>0. TimerInv /\ g.c \in Calls /\ DataOK
  BY TimerFacts DEF CourseInv, LeaveInv
<1>1. ClientGone(g.c) /\ ClientEndEvent(g.c) \subseteq gos'
  BY <1>0, HangsUp
<1>2. clientCh[g.c] = "stasis" /\ clientCh'[g.c] = "gone"
  BY <1>0, <1>1 DEF ClientGone, DataOK
<1>3. Go("clientLeave", "lookup", g.c) \in gos'
  BY <1>1, <1>2 DEF ClientEndEvent
<1>4. EndToCome(g.c)'
  BY <1>3 DEF EndToCome, Go
<1>5. QED
  BY <1>2, <1>4 DEF CallerOf

\* Neither the entry nor the leave: agents, offers, timeouts and messages.
LEMMA OtherHandlersFate ==
  ASSUME CourseInv, CourseInv', NEW g \in gos, Step(g), g.f \notin {"enter", "clientLeave"}
  PROVE  Unseen(g.c) \/ Allowed(g.c)
<1> DEFINE c == g.c
<1>0. TimerInv /\ c \in Calls /\ DataOK /\ InPlace(g) /\ clientCh[c] # "none"
  BY TimerFacts DEF CourseInv, LeaveInv, Placed
<1>1. /\ \A h : h.c = c /\ h.f = "enter" => (h \in gos' <=> h \in gos)
      /\ clientCh'[c] = clientCh[c] =>
           \A h : h.c = c /\ h.f = "clientLeave" => (h \in gos' <=> h \in gos)
  BY NewOnes, OthersGoOn
<1>2. clientCh'[c] # "none"
  BY <1>0, HangsUp DEF ClientGone, DataOK
<1>3. Undecided(c)' <=> Undecided(c)
  BY <1>0, <1>1, <1>2 DEF Undecided
<1>4. clientCh'[c] = clientCh[c] => CallerOf(c)' = CallerOf(c)
  BY <1>1 DEF CallerOf, EndToCome
<1>5. (c \in timers' <=> c \in timers) => TimerOf(c)' = TimerOf(c)
  BY <1>3 DEF TimerOf
<1>6. CASE clientCh'[c] # clientCh[c]
  <2>1. UNCHANGED <<call[c].state, timers>>
    BY <1>0, <1>6, HangsUp
  <2>2. QED
    BY <1>5, <1>6, <2>1, LeavesNow DEF Allowed
<1>7. ASSUME g.f = "agentEnter", AgentJoins(g) PROVE Allowed(c)
  <2>1. call[c].state # "New"
    BY <1>0, <1>7 DEF CourseInv, LeaveInv, Unqueued, Harmless
  <2>2. ~Undecided(c)
    BY <1>0, <1>7, Later DEF Undecided, Before, Harmless
  <2>3. call'[c].state = "Bridged"
    BY <1>0, <1>7, EffectOf
  <2>4. TimerOf(c) # "undecided" /\ TimerOf(c)' = "off"
    BY <1>3, <1>7, <2>2 DEF TimerOf, AgentJoins
  <2>5. QED
    BY <1>4, <1>7, <2>1, <2>3, <2>4 DEF AgentJoins, Allowed
<1>8. CASE clientCh'[c] = clientCh[c] /\ call'[c].state = call[c].state
  <2>1. CASE timers' = timers
    BY <1>4, <1>5, <1>8, <2>1 DEF Unseen
  <2>2. CASE timers' # timers
    <3>1. timers' = timers \ {c} /\ ((g.f = "agentEnter" /\ AgentJoins(g)) \/ CancelTimer(g))
      BY <2>2, TimersOf
    <3>2. c \in timers => TimerOf(c) = "pending" /\ TimerOf(c)' = "off"
      BY <1>3, <3>1, PendingDecided DEF TimerOf
    <3>3. QED
      BY <1>4, <1>5, <1>7, <1>8, <3>1, <3>2 DEF Allowed, Unseen
  <2>3. QED
    BY <2>1, <2>2
<1>9. CASE clientCh'[c] = clientCh[c] /\ call'[c].state # call[c].state
  <2>1. Changes(g)
    BY <1>0, <1>9, ChangesOf DEF SameAs
  <2>2. (g.f = "agentEnter" /\ AgentJoins(g)) \/ ResetCall(g)
    BY <1>0, <1>9, <2>1, EffectOf DEF Changes
  <2>3. CASE ResetCall(g)
    <3>1. call'[c].state = "InQueue" /\ timers' = timers
      BY <1>0, <2>3, EffectOf DEF ResetCall
    <3>2. QED
      BY <1>4, <1>5, <1>9, <3>1 DEF Allowed
  <2>4. QED
    BY <1>7, <2>2, <2>3
<1>10. QED
  BY <1>6, <1>8, <1>9

\* queueProcessStart and what comes before it.
LEMMA EnterFate ==
  ASSUME CourseInv, CourseInv', NEW g \in gos, Step(g), g.f = "enter"
  PROVE  Unseen(g.c) \/ Allowed(g.c)
<1> DEFINE c == g.c
<1>0. /\ TimerInv /\ c \in Calls /\ DataOK /\ InPlace(g) /\ clientCh[c] # "none"
      /\ g \in Goroutine /\ OneEntry
  BY TimerFacts DEF CourseInv, LeaveInv, Placed, TimerInv
<1>1. \A h \in gos : h.f = "enter" /\ h.c = c => h = g
  BY <1>0 DEF OneEntry
<1>2. clientCh'[c] # "none"
  BY <1>0, HangsUp DEF ClientGone, DataOK
<1>3. Undecided(c) <=> g.at # "publish"
  BY <1>0, <1>1 DEF Undecided
<1>4. clientCh'[c] = clientCh[c] => CallerOf(c)' = CallerOf(c)
  <2>1. clientCh'[c] = clientCh[c] => \A h : h.c = c /\ h.f = "clientLeave" => (h \in gos' <=> h \in gos)
    BY NewOnes, OthersGoOn
  <2>2. QED
    BY <2>1 DEF CallerOf, EndToCome
<1>5. ASSUME NEW step \in Steps, step # g.at, Goto(g, step) PROVE Undecided(c)' <=> step # "publish"
  <2> DEFINE k == [g EXCEPT !.at = step]
  <2>1. k.at = step /\ k.f = "enter" /\ k.c = c /\ k # g
    BY <1>0, <1>5, PlaceOf
  <2>2. gos' = (gos \ {g}) \cup {k}
    BY <1>5 DEF Goto, Becomes
  <2> HIDE DEF k
  <2>3. QED
    BY <1>1, <1>2, <2>1, <2>2 DEF Undecided
<1>6. ASSUME NEW G, Becomes(g, G), \A h \in G : h.f # "enter" PROVE ~Undecided(c)'
  BY <1>1, <1>2, <1>6 DEF Undecided, Becomes
<1>7. CASE RejectSetup(g)
  <2>1. c \notin timers /\ timers' = timers /\ call' = call /\ call[c].state = "New" /\ g.at # "publish"
    BY <1>7 DEF RejectSetup, CourseInv, Entering
  <2>2. ~Undecided(c)'
    BY <1>6, <1>7 DEF RejectSetup, ClientEndEvent, Go
  <2>3. TimerOf(c) = "undecided" /\ TimerOf(c)' = "off"
    BY <1>3, <2>1, <2>2 DEF TimerOf
  <2>4. CASE clientCh'[c] = clientCh[c]
    BY <1>4, <2>1, <2>3, <2>4 DEF Allowed
  <2>5. CASE clientCh'[c] # clientCh[c]
    BY <2>1, <2>3, <2>5, LeavesNow DEF Allowed
  <2>6. QED
    BY <2>4, <2>5
<1>8. ASSUME NEW step \in Steps, step # g.at, Goto(g, step), step # "publish", g.at # "publish",
             UNCHANGED <<timers, clientCh>>
      PROVE  UNCHANGED <<TimerOf(c), CallerOf(c)>>
  BY <1>3, <1>4, <1>5, <1>8 DEF TimerOf
<1>9. CASE RegisterCall(g)
  <2>1. UNCHANGED <<TimerOf(c), CallerOf(c)>>
    BY <1>8, <1>9 DEF RegisterCall, Steps, asterisk
  <2>2. QED
    BY <1>9, <2>1 DEF RegisterCall, Unseen
<1>10. CASE QueueProcessStart(g)
  <2>1. UNCHANGED <<TimerOf(c), CallerOf(c)>>
    BY <1>8, <1>10 DEF QueueProcessStart, Steps, asterisk
  <2>2. call'[c].state = "InQueue"
    BY <1>0, <1>10, EffectOf
  <2>3. QED
    BY <2>1, <2>2 DEF Allowed
<1>11. CASE GivesUp(g)
  <2>1. UNCHANGED <<call, timers, clientCh>>
    BY <1>11 DEF GivesUp, asterisk
  <2>2. ~Undecided(c)'
    BY <1>6, <1>11 DEF GivesUp, Return
  <2>3. CASE g.at = "publish"
    BY <1>3, <1>4, <2>1, <2>2, <2>3 DEF Unseen, TimerOf
  <2>4. CASE g.at # "publish"
    <3>1. TimerOf(c) = "undecided" /\ TimerOf(c)' = "off"
      BY <1>3, <2>1, <2>2, <2>4 DEF TimerOf, CourseInv, Entering
    <3>2. QED
      BY <1>4, <2>1, <3>1 DEF Allowed
  <2>5. QED
    BY <2>3, <2>4
<1>12. CASE ScheduleTimeout(g)
  <2>1. /\ c \notin timers /\ clientCh' = clientCh /\ call' = call /\ g.at = "schedule"
        /\ timers' \subseteq timers \cup {c}
    BY <1>12 DEF ScheduleTimeout, CourseInv, Entering, asterisk
  <2>2. ~Undecided(c)'
    BY <1>5, <1>12, <2>1 DEF ScheduleTimeout, Steps
  <2>3. TimerOf(c) = "undecided" /\ TimerOf(c)' \in {"pending", "off"}
    BY <1>3, <2>1, <2>2 DEF TimerOf
  <2>4. call[c].state \in {"InQueue", "Terminated"}
    <3>1. call[c].state # "New"
      BY <1>0, <2>1 DEF CourseInv, LeaveInv, Unqueued, Harmless
    <3>2. call[c].state # "Bridged"
      BY <1>0 DEF TimerInv, Before, Fresh
    <3>3. QED
      BY <1>0, <3>1, <3>2 DEF DataOK, Call, States
  <2>5. QED
    BY <1>4, <2>1, <2>3, <2>4 DEF Allowed
<1>13. CASE PublishNew(g)
  <2>1. ~Undecided(c) /\ ~Undecided(c)'
    BY <1>3, <1>6, <1>13 DEF PublishNew, Return
  <2>2. QED
    BY <1>4, <1>13, <2>1 DEF PublishNew, Unseen, TimerOf, asterisk
<1>14. QED
  BY <1>0, <1>7, <1>9, <1>10, <1>11, <1>12, <1>13, HandlerOf, FailureGivesUp DEF EnterStep

\* onClientChannelLeave and terminateCall.
LEMMA LeaveFate ==
  ASSUME CourseInv, CourseInv', NEW g \in gos, Step(g), g.f = "clientLeave"
  PROVE  Unseen(g.c) \/ Allowed(g.c)
<1> DEFINE c == g.c
           Early == {"lookup", "lock", "terminate"}
<1>0. /\ TimerInv /\ c \in Calls /\ DataOK /\ InPlace(g) /\ g \in Goroutine
      /\ OneLeave /\ clientCh[c] = "gone"
  BY TimerFacts DEF CourseInv, LeaveInv, Leaving
<1>1. clientCh'[c] = clientCh[c]
  BY <1>0, HangsUp DEF ClientGone, DataOK
<1>2. Undecided(c)' <=> Undecided(c)
  <2>1. \A h : h.c = c /\ h.f = "enter" => (h \in gos' <=> h \in gos)
    BY NewOnes, OthersGoOn
  <2>2. QED
    BY <1>0, <1>1, <2>1 DEF Undecided
<1>3. timers' = timers => TimerOf(c)' = TimerOf(c)
  BY <1>2 DEF TimerOf
<1>4. EndToCome(c) <=> g.at \in Early
  BY <1>0 DEF EndToCome, OneLeave
<1>5. g \notin gos' /\ \A h \in gos \cap gos' : ~(h.f = "clientLeave" /\ h.c = c)
  BY <1>0, LeaverMoves DEF OneLeave
<1>6. ASSUME NEW h, h \in gos', h.f = "clientLeave", h.c = c PROVE EndToCome(c)' <=> h.at \in Early
  BY <1>6 DEF EndToCome, CourseInv, LeaveInv, OneLeave
<1>7. ASSUME \A h \in gos' \ gos : h.f # "clientLeave" PROVE ~EndToCome(c)'
  BY <1>5, <1>7 DEF EndToCome
<1>8. ASSUME NEW step \in Steps, Goto(g, step) PROVE EndToCome(c)' <=> step \in Early
  <2> DEFINE k == [g EXCEPT !.at = step]
  <2>1. k.at = step /\ k.f = "clientLeave" /\ k.c = c /\ k \in gos'
    BY <1>0, <1>8, PlaceOf DEF Goto, Becomes
  <2> HIDE DEF k
  <2>2. QED
    BY <1>6, <2>1
<1>9. CASE ClientLeft(g)
  <2>1. UNCHANGED <<call, timers>> /\ g.at = "lookup"
    BY <1>9 DEF ClientLeft
  <2>2. CASE c \in calls
    <3>1. EndToCome(c)'
      BY <1>8, <1>9, <2>2 DEF ClientLeft, Steps
    <3>2. QED
      BY <1>1, <1>3, <1>4, <2>1, <3>1 DEF Unseen, CallerOf
  <2>3. CASE c \notin calls
    <3>1. ~EndToCome(c)'
      BY <1>7, <1>9, <2>3 DEF ClientLeft, Return, Becomes
    <3>2. call[c].state = "New"
      BY <2>1, <2>3 DEF CourseInv, Lasting
    <3>3. CallerOf(c) = "left" /\ CallerOf(c)' = "over"
      BY <1>0, <1>1, <1>4, <2>1, <3>1 DEF CallerOf
    <3>4. QED
      BY <1>3, <2>1, <3>2, <3>3 DEF Allowed
  <2>4. QED
    BY <2>2, <2>3
<1>10. CASE ReasonOfLeave(g)
  <2>1. PICK r : gos' = (gos \ {g}) \cup {[g EXCEPT !.at = "terminate", !.arg = r]}
    BY <1>10 DEF ReasonOfLeave, Becomes
  <2>2. PICK k : k = [g EXCEPT !.at = "terminate", !.arg = r]
    OBVIOUS
  <2>3. k.at = "terminate" /\ k.f = "clientLeave" /\ k.c = c /\ k \in gos'
    BY <1>0, <2>1, <2>2 DEF Goroutine
  <2>4. EndToCome(c)'
    BY <1>6, <2>3
  <2>5. QED
    BY <1>1, <1>3, <1>4, <1>10, <2>4 DEF ReasonOfLeave, Unseen, CallerOf
<1>11. ~AlreadyTerminated(g)
  BY DEF AlreadyTerminated, CourseInv, LeaveInv, Leaving
<1>12. CASE Terminate(g)
  <2>1. gos' = (gos \ {g}) \cup {[g EXCEPT !.at = "cancel", !.copy = CopyOf(c)]}
    BY <1>12 DEF Terminate, Becomes
  <2>2. PICK k : k = [g EXCEPT !.at = "cancel", !.copy = CopyOf(c)]
    OBVIOUS
  <2>3. k.at = "cancel" /\ k.f = "clientLeave" /\ k.c = c /\ k \in gos'
    BY <1>0, <2>1, <2>2 DEF Goroutine
  <2>4. ~EndToCome(c)'
    BY <1>6, <2>3
  <2>5. CallerOf(c) = "left" /\ CallerOf(c)' = "over"
    BY <1>0, <1>1, <1>4, <1>12, <2>4 DEF CallerOf, Terminate
  <2>6. call[c].state # "Terminated" /\ call'[c].state = "Terminated" /\ timers' = timers
    BY <1>0, <1>12, EffectOf DEF Terminate
  <2>7. QED
    BY <1>3, <2>5, <2>6 DEF Allowed
<1>13. ASSUME g.at \notin Early, NEW step \in Steps \ Early, Goto(g, step)
       PROVE  CallerOf(c)' = CallerOf(c)
  BY <1>1, <1>4, <1>8, <1>13 DEF CallerOf
<1>14. CASE CancelTimer(g)
  <2>1. call' = call /\ timers' = timers \ {c} /\ CallerOf(c)' = CallerOf(c)
    BY <1>0, <1>13, <1>14 DEF CancelTimer, Steps
  <2>2. c \in timers => TimerOf(c) = "pending" /\ TimerOf(c)' = "off"
    BY <1>2, <2>1, PendingDecided DEF TimerOf
  <2>3. QED
    BY <1>3, <2>1, <2>2 DEF Allowed, Unseen
<1>15. CASE LogOnTerminate(g) \/ LogOnTerminateFails(g) \/ Unmap(g)
  <2>1. CallerOf(c)' = CallerOf(c)
    BY <1>13, <1>15 DEF LogOnTerminate, LogOnTerminateFails, Unmap, Steps
  <2>2. QED
    BY <1>3, <1>15, <2>1 DEF LogOnTerminate, LogOnTerminateFails, Unmap, Unseen
<1>16. CASE RemoveCall(g)
  <2>1. \A h \in gos' \ gos : h.f # "clientLeave"
    BY <1>0, <1>16 DEF RemoveCall, Becomes, Message, Goroutine
  <2>2. ~EndToCome(c) /\ ~EndToCome(c)'
    BY <1>4, <1>7, <1>16, <2>1 DEF RemoveCall
  <2>3. QED
    BY <1>1, <1>3, <1>16, <2>2 DEF RemoveCall, Unseen, CallerOf
<1>17. CASE TearDown(g)
  <2>1. [g EXCEPT !.at = "unmap"] \in gos'
    BY <1>17, TornDown
  <2>2. PICK k : k = [g EXCEPT !.at = "unmap"]
    OBVIOUS
  <2>3. k.at = "unmap" /\ k.f = "clientLeave" /\ k.c = c /\ k \in gos'
    BY <1>0, <2>1, <2>2 DEF Goroutine
  <2>4. ~EndToCome(c) /\ ~EndToCome(c)'
    BY <1>4, <1>6, <1>17, <2>3 DEF TearDown
  <2>5. QED
    BY <1>1, <1>3, <1>17, <2>4 DEF TearDown, Unseen, CallerOf
<1>18. QED
  BY <1>0, <1>9, <1>10, <1>11, <1>12, <1>14, <1>15, <1>16, <1>17, HandlerOf DEF ClientLeaveStep

\* What happens in the outside world: callers enter and leave, timers fire.
LEMMA WorldFate ==
  ASSUME CourseInv, CourseInv', World
  PROVE  [Fate!Next]_(Fate!vars)
<1>0. TimerInv /\ DataOK /\ call' = call
  BY TimerFacts, OfWorld DEF CourseInv, LeaveInv
<1>1. ASSUME NEW c \in Calls, ClientEnters(c) PROVE [Fate!Next]_(Fate!vars)
  <2>1. \A d \in Calls \ {c} : Unseen(d)
    BY <1>0, <1>1, StaysUnseen DEF ClientEnters, Go, DataOK
  <2>2. clientCh[c] = "none" /\ clientCh'[c] = "stasis" /\ timers' = timers /\ c \notin timers
    BY <1>0, <1>1 DEF ClientEnters, DataOK, TimerInv, StateMeans
  <2>3. Undecided(c) /\ Undecided(c)'
    <3>1. PICK h : h = Go("enter", "create", c) /\ h \in gos'
      BY <1>1 DEF ClientEnters
    <3>2. h.c = c /\ h.f = "enter" /\ h.at = "create"
      BY <3>1 DEF Go
    <3>3. QED
      BY <2>2, <3>1, <3>2 DEF Undecided
  <2>4. Unseen(c)
    BY <1>0, <2>2, <2>3 DEF Unseen, TimerOf, CallerOf
  <2>5. QED
    BY <2>1, <2>4, FateStep
<1>2. ASSUME NEW c \in Calls, ClientHangsUp(c) PROVE [Fate!Next]_(Fate!vars)
  <2>0. /\ clientCh' = [clientCh EXCEPT ![c] = "gone"] /\ clientCh[c] = "stasis"
        /\ gos' = gos \cup {Go("clientLeave", "lookup", c)} /\ timers' = timers
    BY <1>2 DEF ClientHangsUp, ClientGone, ClientEndEvent
  <2>1. \A d \in Calls \ {c} : Unseen(d)
    <3>1. PICK h : h = Go("clientLeave", "lookup", c) /\ gos' = gos \cup {h}
      BY <2>0
    <3>2. h.c = c
      BY <3>1 DEF Go
    <3>3. \A d \in Calls \ {c} : clientCh'[d] = clientCh[d]
      BY <1>0, <2>0 DEF DataOK
    <3>4. QED
      BY <1>0, <2>0, <3>1, <3>2, <3>3, StaysUnseen
  <2>2. clientCh'[c] = "gone" /\ EndToCome(c)' /\ (Undecided(c)' <=> Undecided(c))
    <3>1. PICK h : h = Go("clientLeave", "lookup", c) /\ gos' = gos \cup {h}
      BY <2>0
    <3>2. h.c = c /\ h.f = "clientLeave" /\ h.at = "lookup"
      BY <3>1 DEF Go
    <3>3. clientCh'[c] = "gone"
      BY <1>0, <2>0 DEF DataOK
    <3>4. QED
      BY <2>0, <3>1, <3>2, <3>3 DEF Undecided, EndToCome
  <2>3. Allowed(c)
    BY <1>0, <2>0, <2>2 DEF Allowed, TimerOf, CallerOf
  <2>4. QED
    BY <2>1, <2>3, FateStep
<1>3. ASSUME NEW c \in Calls, TimerFires(c) PROVE [Fate!Next]_(Fate!vars)
  <2>0. /\ clientCh' = clientCh /\ timers' = timers \ {c} /\ c \in timers
        /\ gos' = gos \cup {Go("timeout", "lookup", c)}
    BY <1>3 DEF TimerFires, asterisk
  <2>1. \A d \in Calls \ {c} : Unseen(d)
    BY <1>0, <2>0, StaysUnseen DEF Go
  <2>2. (Undecided(c)' <=> Undecided(c)) /\ (EndToCome(c)' <=> EndToCome(c))
    BY <2>0 DEF Undecided, EndToCome, Go
  <2>3. TimerOf(c) = "pending" /\ TimerOf(c)' = "off" /\ CallerOf(c)' = CallerOf(c)
    BY <2>0, <2>2, PendingDecided DEF TimerOf, CallerOf
  <2>4. QED
    BY <1>0, <2>1, <2>3, FateStep DEF Allowed
<1>4. ASSUME UNCHANGED <<timers, clientCh>>, NEW h, h.f \notin {"enter", "clientLeave"},
             gos' \subseteq gos \cup {h}
      PROVE  [Fate!Next]_(Fate!vars)
  <2>1. \A d \in Calls : Unseen(d)
    BY <1>0, <1>4, StaysUnseen, OfWorld
  <2>2. CASE Calls = {}
    BY <2>2 DEF Fate!vars
  <2>3. CASE Calls # {}
    BY <2>1, <2>3, FateStep
  <2>4. QED
    BY <2>2, <2>3
<1>5. ASSUME NEW l \in Legs, AgentAnswers(l) \/ AgentFails(l) \/ AgentHangsUp(l)
      PROVE  [Fate!Next]_(Fate!vars)
  <2>1. PICK h : h.f \in {"agentEnter", "noAnswer", "agentLeave"} /\ gos' \subseteq gos \cup {h}
    <3>1. AgentAnswers(l) => gos' \subseteq gos \cup {GoLeg("agentEnter", "lookup", l)}
      BY DEF AgentAnswers
    <3>2. AgentFails(l) => gos' \subseteq gos \cup {GoLeg("noAnswer", "lookup", l)}
      BY DEF AgentFails, DialFailures
    <3>3. AgentHangsUp(l) => gos' \subseteq gos \cup {GoLeg("agentLeave", "lookup", l)}
      BY DEF AgentHangsUp, LegEndEvents
    <3>4. \A f \in {"agentEnter", "noAnswer", "agentLeave"} : GoLeg(f, "lookup", l).f = f
      BY DEF GoLeg, Go
    <3>5. QED
      BY <1>5, <3>1, <3>2, <3>3, <3>4
  <2>2. UNCHANGED <<timers, clientCh>>
    BY <1>5 DEF AgentAnswers, AgentFails, AgentHangsUp
  <2>3. QED
    BY <1>4, <2>1, <2>2
<1>6. ASSUME NEW c \in Calls, NEW u \in Users, Distribute(c, u) PROVE [Fate!Next]_(Fate!vars)
  <2>1. PICK h : h = [Go("offer", "lookup", c) EXCEPT !.user = u, !.n = offers[c] + 1]
    OBVIOUS
  <2>2. h.f = "offer" /\ gos' \subseteq gos \cup {h} /\ UNCHANGED <<timers, clientCh>>
    BY <1>6, <2>1 DEF Distribute, Go, asterisk
  <2>3. QED
    BY <1>4, <2>2
<1>7. QED
  BY <1>1, <1>2, <1>3, <1>5, <1>6 DEF World

\* onClientChannelEnter to terminateCall: through all interleavings of its handlers, and
\* whatever a failed Originate leaves behind, every call takes the course of CallFate.
THEOREM CallsKeepCourse == Spec => ImplementsCallFate
<1>1. Init => Fate!Init
  BY DEF Init, Fate!Init, NewCall, Undecided
<1>2. ASSUME CourseInv, CourseInv', [Next]_vars PROVE [Fate!Next]_(Fate!vars)
  <2>1. CASE World
    BY <1>2, <2>1, WorldFate
  <2>2. ASSUME NEW g \in gos, Step(g) PROVE [Fate!Next]_(Fate!vars)
    <3>1. Unseen(g.c) \/ Allowed(g.c)
      BY <1>2, <2>2, EnterFate, LeaveFate, OtherHandlersFate
    <3>2. g.c \in Calls
      BY <1>2, TimerFacts DEF CourseInv, LeaveInv
    <3>3. QED
      BY <1>2, <2>2, <3>1, <3>2, OtherCalls, FateStep
  <2>3. CASE UNCHANGED <<call, timers, gos, clientCh>>
    BY <2>3 DEF Fate!vars, Undecided, EndToCome
  <2>4. QED
    BY <1>2, <2>1, <2>2, <2>3 DEF Next, Engine, Panic, vars, asterisk
<1>3. QED
  BY <1>1, <1>2, InitCourse, CourseInductive, PTL DEF Spec, ImplementsCallFate, Fate!Spec
=============================================================================

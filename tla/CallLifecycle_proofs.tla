------------------------ MODULE CallLifecycle_proofs ------------------------
(***************************************************************************)
(* Type correctness of CallLifecycle for every set of calls and agents and *)
(* every limit of attempts and messages.  TypeOK is not inductive: a       *)
(* goroutine that dials needs an agent, one that publishes needs a         *)
(* message, one that terminates needs a reason.  Sound says so.  Then      *)
(* RemovedWithRow, from how far each terminateCall has come, and           *)
(* TimeoutArmed and TalkingNotTimed, from where the timeout can be.        *)
(***************************************************************************)
EXTENDS CallLifecycle, TLAPS

LegHandlers == {"agentEnter", "bridge", "noAnswer", "agentLeave"}

Sound == {g \in Goroutine :
  /\ g.f = "offer" => g.user \in Users
  /\ g.f \in LegHandlers => g.leg \in Legs
  /\ g.f = "offer" /\ g.at \in {"map", "originate"} => g.leg \in Legs
  /\ g.at = "send" => g.arg \in Messages
  /\ g.at = "terminate" => g.arg \in Reasons}

\* Everything of TypeOK but the goroutines.
DataOK ==
  /\ call \in [Calls -> Call]
  /\ calls \subseteq Calls
  /\ agentMap \subseteq Legs
  /\ outChannels \subseteq Legs
  /\ timers \subseteq Calls
  /\ logged \in [Calls -> Reasons \cup {NoReason}]
  /\ down \in BOOLEAN
  /\ clientCh \in [Calls -> {"none", "stasis", "gone"}]
  /\ legCh \in [Legs -> {"none", "dialing", "stasis", "gone"}]
  /\ bridge \in [Calls -> [up: BOOLEAN, client: BOOLEAN, legs: SUBSET Legs]]
  /\ aid \in [Calls -> [state: Messages \cup {NoReason, "Offered"}, user: Users \cup {NoUser}]]
  /\ offers \in [Calls -> 0 .. MaxOffers]
  /\ overlapped \subseteq Calls
  /\ failed \subseteq Requests \X Calls
  /\ kept \subseteq Legs

BridgeRecord == [up: BOOLEAN, client: BOOLEAN, legs: SUBSET Legs]

IInv == DataOK /\ gos \subseteq Sound

\* A goroutine that goes on at an ordinary step stays sound.
LEMMA SoundStep ==
  ASSUME NEW g \in Sound, NEW step \in Steps \ {"send", "terminate", "map", "originate"}
  PROVE  [g EXCEPT !.at = step] \in Sound
BY DEF Sound, Goroutine

\* A new goroutine is sound if its handler needs no agent.
LEMMA SoundGo ==
  ASSUME NEW c \in Calls, NEW f \in Handlers \ (LegHandlers \cup {"offer"}),
         NEW step \in Steps \ {"send", "terminate"}
  PROVE  Go(f, step, c) \in Sound
BY CallAssumption DEF Go, Sound, Goroutine, NoCopy, Copy, CallAssumption, LegHandlers

\* A new goroutine of an agent leg is sound.
LEMMA SoundGoLeg ==
  ASSUME NEW l \in Legs, NEW f \in LegHandlers, NEW step \in Steps \ {"send", "terminate"}
  PROVE  GoLeg(f, step, l) \in Sound
<1>1. l[1] \in Calls
  BY DEF Legs
<1>2. Go(f, step, l[1]) \in Goroutine
  BY <1>1, CallAssumption DEF Go, Goroutine, NoCopy, Copy, LegHandlers, Handlers
<1>3. /\ GoLeg(f, step, l) \in Goroutine
      /\ GoLeg(f, step, l).leg = l
      /\ GoLeg(f, step, l).f = f
      /\ GoLeg(f, step, l).at = step
  BY <1>2 DEF GoLeg, Goroutine, Go
<1>4. QED
  BY <1>3 DEF Sound, LegHandlers

\* The events of channels that end are sound goroutines.
LEMMA SoundEvents ==
  ASSUME NEW c \in Calls, NEW H \in SUBSET Legs
  PROVE  /\ ClientEndEvent(c) \subseteq Sound
         /\ LegEndEvents(H) \subseteq Sound
         /\ DialFailures(H) \subseteq Sound
<1>1. ClientEndEvent(c) \subseteq Sound
  BY SoundGo DEF ClientEndEvent, LegHandlers, Handlers, Steps
<1>2. LegEndEvents(H) \subseteq Sound
  BY SoundGoLeg DEF LegEndEvents, LegHandlers, Steps
<1>3. DialFailures(H) \subseteq Sound
  BY SoundGoLeg DEF DialFailures, LegHandlers, Steps
<1>4. QED
  BY <1>1, <1>2, <1>3

\* What a handler copies under the lock has the type of a copy.
LEMMA CopyType ==
  ASSUME DataOK, NEW c \in Calls
  PROVE  CopyOf(c) \in Copy
BY DEF DataOK, CopyOf, Copy, Call

\* A goroutine that goes on with a message is sound.
LEMMA SoundMessage ==
  ASSUME NEW g \in Sound, NEW state \in Messages, NEW user \in Users \cup {NoUser}
  PROVE  /\ Message(g, state, user) \in Sound
         /\ [Message(g, state, user) EXCEPT !.f = "messageAgain"] \in Sound
<1>1. NoCopy \in Copy /\ g \in Goroutine
  BY DEF NoCopy, Copy, Sound
<1>2. /\ Message(g, state, user) \in Goroutine
      /\ Message(g, state, user).f = "message"
      /\ Message(g, state, user).at = "send"
      /\ Message(g, state, user).arg = state
  BY <1>1 DEF Message, Goroutine, Handlers, Steps
<1>3. LET m == [Message(g, state, user) EXCEPT !.f = "messageAgain"] IN
      m \in Goroutine /\ m.f = "messageAgain" /\ m.at = "send" /\ m.arg = state
  BY <1>2 DEF Goroutine, Handlers
<1>4. QED
  BY <1>2, <1>3 DEF Sound, LegHandlers

\* A sound goroutine has the type of a goroutine.
LEMMA SoundTypes ==
  ASSUME NEW g \in Sound
  PROVE  /\ g \in Goroutine /\ g.c \in Calls /\ g.copy \in Copy
         /\ g.leg \in Legs \cup {NoLeg} /\ g.user \in Users \cup {NoUser}
BY DEF Sound, Goroutine

\* The assignments of the handlers to several fields of a call keep its type.
LEMMA JoinType ==
  ASSUME NEW x \in Call
  PROVE  [x EXCEPT !.state = "Bridged", !.handled = TRUE] \in Call
BY DEF Call, States

\* Fields set by bridgeCall.
LEMMA BridgedType ==
  ASSUME NEW x \in Call, NEW l \in Legs
  PROVE  [x EXCEPT !.bridge = TRUE, !.bridged = l, !.leg = l] \in Call
BY DEF Call

\* Fields set by a new attempt.
LEMMA AttemptType ==
  ASSUME NEW x \in Call, NEW a \in 0 .. MaxAttempts, NEW u \in Users, NEW l \in Legs
  PROVE  [x EXCEPT !.attempts = a, !.inDistribution = TRUE, !.user = u, !.leg = l] \in Call
BY DEF Call

\* Fields cleared by reSetupCallForQueue.
LEMMA ResetType ==
  ASSUME NEW x \in Call
  PROVE  [x EXCEPT !.state = "InQueue", !.inDistribution = FALSE, !.user = NoUser,
                   !.leg = NoLeg, !.bridge = FALSE, !.bridged = NoLeg] \in Call
BY DEF Call, States

\* Fields set by terminateCall.
LEMMA TerminatedType ==
  ASSUME NEW x \in Call, NEW r \in Reasons \cup {NoReason}
  PROVE  [x EXCEPT !.state = "Terminated", !.reason = r] \in Call
BY DEF Call, States

\* The call a goroutine works on is a call object.
LEMMA CallOf == ASSUME DataOK, NEW c \in Calls PROVE call[c] \in Call
BY DEF DataOK

\* A step that changes nothing but goroutines keeps the data.
LEMMA SameData ==
  ASSUME DataOK, UNCHANGED <<call, manager, timers, logged, asterisk, world, down>>
  PROVE  DataOK'
BY DEF DataOK, manager, asterisk, world

\* A step that changes one call object keeps the data if the new object has its type.
LEMMA CallData ==
  ASSUME DataOK, NEW c \in Calls, NEW r \in Call, call' = [call EXCEPT ![c] = r],
         UNCHANGED <<manager, timers, logged, asterisk, aid, offers, failed, kept, down>>,
         overlapped' \subseteq Calls
  PROVE  DataOK'
BY DEF DataOK, manager, asterisk

(***************************************************************************)
(* A request fails, the error is logged and the handler returns: nothing   *)
(* changes but the history of failures.                                    *)
(***************************************************************************)
GivesUp(g) ==
  /\ Return(g)
  /\ \E request \in Requests : Fails(request, g.c)
  /\ UNCHANGED <<call, manager, timers, logged, asterisk, aid, offers, overlapped, kept>>

\* The failures after which a handler does nothing more.
LEMMA FailureGivesUp ==
  ASSUME NEW g, \/ RejectSetupFails(g) \/ HangupClientFails(g) \/ NoQueueToEnter(g)
                \/ NoQueueForOffer(g) \/ PublishNewFails(g) \/ SendFails(g)
  PROVE  GivesUp(g)
<1>1. {"queue", "publish", "hangup"} \subseteq Requests
  BY DEF Requests
<1>2. QED
  BY <1>1 DEF RejectSetupFails, HangupClientFails, CallerKept, NoQueueToEnter, NoQueueForOffer,
              QueueNotFound, PublishNewFails, SendFails, MessageLost, GivesUp

\* The history of failures grows by a request for a call.
LEMMA FailsData ==
  ASSUME DataOK, NEW c \in Calls, NEW request \in Requests, Fails(request, c)
  PROVE  failed' \subseteq Requests \X Calls /\ failed \subseteq failed'
BY DEF DataOK, Fails

\* A step that changes one bridge keeps the data if the new bridge has its type.
LEMMA BridgeData ==
  ASSUME DataOK, NEW c \in Calls, NEW b \in BridgeRecord,
         bridge' = [bridge EXCEPT ![c] = b] \/ bridge' = bridge,
         UNCHANGED <<call, manager, timers, logged, clientCh, legCh, world, down>>
  PROVE  DataOK'
<1>1. bridge' \in [Calls -> BridgeRecord]
  BY DEF DataOK, BridgeRecord
<1>2. QED
  BY <1>1 DEF DataOK, BridgeRecord, manager, world

\* What bridgeCall does to a bridge keeps its type.
LEMMA BridgeFields ==
  ASSUME NEW b \in BridgeRecord, NEW l \in Legs
  PROVE  /\ [b EXCEPT !.up = TRUE] \in BridgeRecord
         /\ [b EXCEPT !.client = TRUE] \in BridgeRecord
         /\ [b EXCEPT !.legs = @ \cup {l}] \in BridgeRecord
<1>1. [b EXCEPT !.up = TRUE] \in BridgeRecord
  BY DEF BridgeRecord
<1>2. [b EXCEPT !.client = TRUE] \in BridgeRecord
  BY DEF BridgeRecord
<1>3. [b EXCEPT !.legs = @ \cup {l}] \in BridgeRecord
  BY DEF BridgeRecord
<1>4. QED
  BY <1>1, <1>2, <1>3

\* A goroutine that goes on with a copy stays sound.
LEMMA SoundCopy ==
  ASSUME NEW g \in Sound, NEW k \in Copy,
         NEW step \in Steps \ {"send", "terminate", "map", "originate"}
  PROVE  [g EXCEPT !.at = step, !.copy = k] \in Sound
BY DEF Sound, Goroutine

(***************************************************************************)
(* One lemma per handler: its steps preserve the invariant.                *)
(***************************************************************************)
\* What may happen in the outside world.
LEMMA WorldStep == IInv /\ World /\ UNCHANGED down => IInv'
<1> SUFFICES ASSUME IInv, World, UNCHANGED down PROVE IInv'
  OBVIOUS
<1> USE DEF IInv
<1>1. ASSUME NEW c \in Calls, ClientEnters(c) PROVE IInv'
  <2>1. Go("enter", "create", c) \in Sound
    BY SoundGo DEF LegHandlers, Handlers, Steps
  <2>2. DataOK'
    BY <1>1 DEF ClientEnters, DataOK, manager, world
  <2>3. QED
    BY <1>1, <2>1, <2>2 DEF ClientEnters
<1>2. ASSUME NEW c \in Calls, ClientHangsUp(c) PROVE IInv'
  <2>1. DataOK'
    BY <1>2 DEF ClientHangsUp, ClientGone, DataOK, manager, world
  <2>2. QED
    BY <1>2, <2>1, SoundEvents DEF ClientHangsUp
<1>3. ASSUME NEW c \in Calls, TimerFires(c) PROVE IInv'
  <2>1. Go("timeout", "lookup", c) \in Sound
    BY SoundGo DEF LegHandlers, Handlers, Steps
  <2>2. DataOK'
    BY <1>3 DEF TimerFires, DataOK, manager, world, asterisk
  <2>3. QED
    BY <1>3, <2>1, <2>2 DEF TimerFires
<1>4. ASSUME NEW l \in Legs, AgentAnswers(l) PROVE IInv'
  <2>1. GoLeg("agentEnter", "lookup", l) \in Sound
    BY SoundGoLeg DEF LegHandlers, Steps
  <2>2. DataOK'
    BY <1>4 DEF AgentAnswers, DataOK, manager, world
  <2>3. QED
    BY <1>4, <2>1, <2>2 DEF AgentAnswers
<1>5. ASSUME NEW l \in Legs, AgentFails(l) PROVE IInv'
  <2>1. DataOK'
    BY <1>5 DEF AgentFails, LegsGone, DataOK, manager, world
  <2>2. DialFailures({l}) \subseteq Sound
    BY SoundGoLeg DEF DialFailures, LegHandlers, Steps
  <2>3. QED
    BY <1>5, <2>1, <2>2 DEF AgentFails
<1>6. ASSUME NEW l \in Legs, AgentHangsUp(l) PROVE IInv'
  <2>1. DataOK'
    BY <1>6 DEF AgentHangsUp, LegsGone, DataOK, manager, world
  <2>2. LegEndEvents({l}) \subseteq Sound
    BY SoundGoLeg DEF LegEndEvents, LegHandlers, Steps
  <2>3. QED
    BY <1>6, <2>1, <2>2 DEF AgentHangsUp
<1>7. ASSUME NEW c \in Calls, NEW u \in Users, Distribute(c, u) PROVE IInv'
  <2> DEFINE g == [Go("offer", "lookup", c) EXCEPT !.user = u, !.n = offers[c] + 1]
  <2>1. offers[c] + 1 \in 0 .. MaxOffers
    BY <1>7, CallAssumption DEF Distribute, DataOK
  <2>2. Go("offer", "lookup", c) \in Goroutine
    BY CallAssumption DEF Go, Goroutine, NoCopy, Copy, Handlers, Steps
  <2>3. g \in Goroutine /\ g.f = "offer" /\ g.at = "lookup" /\ g.user = u
    BY <2>1, <2>2 DEF Goroutine, Go
  <2>4. g \in Sound
    BY <2>3 DEF Sound, LegHandlers
  <2>5. DataOK'
    BY <1>7, <2>1 DEF Distribute, DataOK, manager, asterisk
  <2>6. QED
    BY <1>7, <2>4, <2>5 DEF Distribute
<1>8. QED
  BY <1>1, <1>2, <1>3, <1>4, <1>5, <1>6, <1>7 DEF World

\* A step that goes on at an ordinary step, or returns, and changes no data that the
\* invariant speaks of.
LEMMA GoOn ==
  ASSUME IInv, NEW g \in gos, NEW step \in Steps \ {"send", "terminate", "map", "originate"},
         DataOK', Goto(g, step) \/ Return(g)
  PROVE  IInv'
BY SoundStep DEF IInv, Goto, Return, Becomes

\* A handler that gives up on a failed request keeps the invariant.
LEMMA GivingUpKeeps == ASSUME IInv, NEW g \in gos, GivesUp(g), UNCHANGED down PROVE IInv'
<1>1. g.c \in Calls /\ DataOK
  BY SoundTypes DEF IInv
<1>2. failed' \subseteq Requests \X Calls
  BY <1>1, FailsData DEF GivesUp
<1>3. DataOK'
  BY <1>1, <1>2 DEF GivesUp, DataOK, manager, asterisk
<1>4. QED
  BY <1>3 DEF GivesUp, Return, Becomes, IInv

\* The handler of a caller that enters.
LEMMA EnterKeeps == ASSUME IInv, NEW g \in gos, EnterStep(g), UNCHANGED down PROVE IInv'
<1>0. g \in Sound /\ g.c \in Calls /\ DataOK
  BY SoundTypes DEF IInv
<1>1. CASE RejectSetup(g)
  <2>1. DataOK'
    BY <1>1, <1>0 DEF RejectSetup, ClientGone, IInv, DataOK, manager, world
  <2>2. QED
    BY <1>1, <1>0, <2>1, SoundEvents DEF RejectSetup, Becomes, IInv
<1>2. CASE RegisterCall(g)
  <2>1. DataOK'
    BY <1>2, <1>0 DEF RegisterCall, IInv, DataOK, asterisk, world
  <2>2. QED
    BY <1>2, <2>1, GoOn DEF RegisterCall, Steps
<1>3. CASE QueueProcessStart(g)
  <2> DEFINE r == [call[g.c] EXCEPT !.state = "InQueue"]
  <2>1. r \in Call
    BY <1>0, CallOf DEF Call, States
  <2>2. call' = [call EXCEPT ![g.c] = r]
    BY <1>3 DEF QueueProcessStart
  <2>3. DataOK'
    BY <1>3, <1>0, <2>1, <2>2, CallData DEF QueueProcessStart, IInv, DataOK, world
  <2>4. QED
    BY <1>3, <2>3, GoOn DEF QueueProcessStart, Steps
<1>4. CASE ScheduleTimeout(g)
  <2>1. DataOK'
    BY <1>4, <1>0 DEF ScheduleTimeout, IInv, DataOK, manager, asterisk, world
  <2>2. QED
    BY <1>4, <2>1, GoOn DEF ScheduleTimeout, Steps
<1>5. CASE PublishNew(g)
  <2>1. DataOK'
    BY <1>5, <1>0 DEF PublishNew, IInv, DataOK, manager, asterisk, Messages
  <2>2. QED
    BY <1>5, <2>1 DEF PublishNew, Return, Becomes, IInv
<1>6. CASE RejectSetupFails(g) \/ NoQueueToEnter(g) \/ PublishNewFails(g)
  BY <1>6, FailureGivesUp, GivingUpKeeps
<1>7. QED
  BY <1>1, <1>2, <1>3, <1>4, <1>5, <1>6 DEF EnterStep

\* The handler of a distribution message.
LEMMA OfferKeeps == ASSUME IInv, NEW g \in gos, OfferStep(g), UNCHANGED down PROVE IInv'
<1>0. g \in Sound /\ g.c \in Calls /\ g.f = "offer" /\ DataOK
  BY SoundTypes DEF IInv, OfferStep
<1>1. CASE OfferLookup(g)
  BY <1>1, <1>0, SameData, GoOn DEF OfferLookup, Steps
<1>2. CASE OfferIgnored(g)
  <2>1. DataOK'
    BY <1>2, <1>0, SameData DEF OfferIgnored
  <2>2. QED
    BY <1>2, <2>1 DEF OfferIgnored, Return, Becomes, IInv
<1>3. CASE OfferDismissed(g)
  <2>1. DataOK'
    BY <1>3, <1>0, SameData DEF OfferDismissed
  <2>2. Message(g, "Dismissed", g.user) \in Sound
    BY <1>0, SoundTypes, SoundMessage DEF Messages
  <2>3. QED
    BY <1>3, <2>1, <2>2 DEF OfferDismissed, Becomes, IInv
<1>4. CASE OfferBeyondLimit(g)
  <2> DEFINE r == WithReason(call[g.c], "MaxAttemptReached")
  <2>1. r \in Call
    BY <1>0, CallOf DEF Call, Reasons, WithReason
  <2>2. call' = [call EXCEPT ![g.c] = r]
    BY <1>4 DEF OfferBeyondLimit
  <2>3. DataOK'
    BY <1>4, <1>0, <2>1, <2>2, CallData DEF OfferBeyondLimit, DataOK, world
  <2>4. QED
    BY <1>4, <2>3, GoOn DEF OfferBeyondLimit, Steps
<1>5. CASE OfferTaken(g)
  <2> DEFINE n == call[g.c].attempts + 1
             leg == <<g.c, g.user, n>>
             r == [call[g.c] EXCEPT !.attempts = n, !.inDistribution = TRUE,
                                    !.user = g.user, !.leg = leg]
             h == [g EXCEPT !.at = "map", !.leg = leg]
  <2>1. n \in 1 .. MaxAttempts /\ n \in 0 .. MaxAttempts
    BY <1>5, <1>0, CallOf, CallAssumption DEF OfferTaken, Call
  <2>2. g.user \in Users
    BY <1>0 DEF Sound
  <2>3. leg \in Legs
    BY <1>0, <2>1, <2>2 DEF Legs
  <2>4. r \in Call
    BY <1>0, <2>1, <2>2, <2>3, AttemptType, CallOf
  <2>5. call' = [call EXCEPT ![g.c] = r]
    BY <1>5 DEF OfferTaken
  <2>6. overlapped' \subseteq Calls
    BY <1>5, <1>0, SoundTypes DEF OfferTaken, IInv, DataOK
  <2>7. DataOK'
    BY <1>5, <1>0, <2>4, <2>5, <2>6, CallData DEF OfferTaken
  <2>8. h \in Goroutine /\ h.f = "offer" /\ h.at = "map" /\ h.leg = leg /\ h.user = g.user
    BY <1>0, <2>3, SoundTypes DEF Goroutine, Steps
  <2>9. h \in Sound
    BY <2>2, <2>3, <2>8 DEF Sound, LegHandlers
  <2>10. QED
    BY <1>5, <2>7, <2>9 DEF OfferTaken, Becomes, IInv
<1>6. CASE AddAgentCallMap(g)
  <2>1. g.leg \in Legs
    BY <1>6, <1>0 DEF AddAgentCallMap, Sound
  <2>2. DataOK'
    BY <1>6, <1>0, <2>1 DEF AddAgentCallMap, DataOK, asterisk, world
  <2>3. [g EXCEPT !.at = "originate"] \in Sound
    BY <1>0, <2>1 DEF Sound, Goroutine, Steps
  <2>4. QED
    BY <1>6, <2>2, <2>3 DEF AddAgentCallMap, Goto, Becomes, IInv
<1>7. CASE Originate(g)
  <2>1. DataOK'
    BY <1>7, <1>0 DEF Originate, DataOK, manager, world
  <2>2. QED
    BY <1>7, <2>1 DEF Originate, Return, Becomes, IInv
<1>8. CASE OriginateFails(g)
  <2>1. DataOK'
    BY <1>8, <1>0 DEF OriginateFails, DataOK, manager, world
  <2>2. QED
    BY <1>8, <2>1, GoOn DEF OriginateFails, Steps
<1>9. CASE NoQueueForOffer(g)
  BY <1>9, FailureGivesUp, GivingUpKeeps
<1>10. QED
  BY <1>1, <1>2, <1>3, <1>4, <1>5, <1>6, <1>7, <1>8, <1>9 DEF OfferStep

\* The lookup of the call by the channel of an agent leg.
LEMMA LegLookupKeeps ==
  ASSUME IInv, NEW g \in gos, NEW found \in {"lock", "reset"}, LegLookup(g, found), UNCHANGED down
  PROVE  IInv'
<1>1. DataOK'
  BY SameData DEF LegLookup, IInv
<1>2. QED
  BY <1>1, GoOn DEF LegLookup, Steps

\* The handler of an agent leg that answers.
LEMMA AgentEnterKeeps == ASSUME IInv, NEW g \in gos, AgentEnterStep(g), UNCHANGED down PROVE IInv'
<1>0. g \in Sound /\ g.c \in Calls /\ g.f = "agentEnter" /\ g.leg \in Legs /\ DataOK
  BY SoundTypes DEF IInv, AgentEnterStep, Sound, LegHandlers
<1>1. CASE LegLookup(g, "lock")
  BY <1>1, LegLookupKeeps
<1>2. CASE LateAgentGone(g)
  <2>1. DataOK'
    BY <1>2, <1>0 DEF LateAgentGone, DataOK, manager, asterisk
  <2>2. QED
    BY <1>2, <2>1 DEF LateAgentGone, Return, Becomes, IInv
<1>3. CASE AgentJoins(g)
  <2> DEFINE late == IF call[g.c].state = "Bridged" THEN {g.leg} ELSE {}
             r == [call[g.c] EXCEPT !.state = "Bridged", !.handled = TRUE]
             h == [g EXCEPT !.f = "bridge", !.at = "set"]
  <2>1. r \in Call
    BY <1>0, JoinType, CallOf
  <2>2. call' = [call EXCEPT ![g.c] = r]
    BY <1>3, <1>0 DEF AgentJoins, DataOK
  <2>3. late \in SUBSET Legs
    BY <1>0
  <2>4. DataOK'
    <3>1. call' \in [Calls -> Call]
      BY <1>0, <2>1, <2>2 DEF DataOK
    <3>2. legCh' \in [Legs -> {"none", "dialing", "stasis", "gone"}]
      BY <1>3, <1>0 DEF AgentJoins, LegsGone, DataOK
    <3>3. timers' \subseteq Calls
      BY <1>3, <1>0 DEF AgentJoins, DataOK
    <3>4. QED
      BY <1>3, <1>0, <3>1, <3>2, <3>3 DEF AgentJoins, DataOK, manager, world
  <2>5. h \in Sound
    <3>1. h \in Goroutine /\ h.f = "bridge" /\ h.at = "set" /\ h.leg = g.leg
      BY <1>0, SoundTypes DEF Goroutine, Handlers, Steps
    <3>2. QED
      BY <1>0, <3>1 DEF Sound
  <2>6. LegEndEvents(late) \subseteq Sound
    BY <1>0, <2>3, SoundEvents
  <2>7. gos' = (gos \ {g}) \cup ({h} \cup LegEndEvents(late))
    BY <1>3 DEF AgentJoins, Becomes
  <2>8. QED
    BY <2>4, <2>5, <2>6, <2>7 DEF IInv
<1>4. QED
  BY <1>1, <1>2, <1>3 DEF AgentEnterStep

\* bridgeCall.
LEMMA BridgeKeeps == ASSUME IInv, NEW g \in gos, BridgeStep(g), UNCHANGED down PROVE IInv'
<1>0. /\ g \in Sound /\ g.c \in Calls /\ g.f = "bridge" /\ g.leg \in Legs /\ DataOK
      /\ bridge[g.c] \in BridgeRecord
  BY SoundTypes DEF IInv, DataOK, BridgeRecord, BridgeStep, Sound, LegHandlers
<1>1. CASE SetBridged(g)
  <2> DEFINE r == [call[g.c] EXCEPT !.bridge = TRUE, !.bridged = g.leg, !.leg = g.leg]
  <2>1. r \in Call
    BY <1>0, BridgedType, CallOf
  <2>2. call' = [call EXCEPT ![g.c] = r]
    BY <1>1, <1>0 DEF SetBridged, DataOK
  <2>3. DataOK'
    BY <1>1, <1>0, <2>1, <2>2, CallData DEF SetBridged, DataOK, world
  <2>4. QED
    BY <1>1, <2>3, GoOn DEF SetBridged, Steps
<1>2. CASE CreateBridge(g)
  <2> DEFINE b == [bridge[g.c] EXCEPT !.up = TRUE]
  <2>1. b \in BridgeRecord
    BY <1>0, BridgeFields
  <2>2. bridge' = [bridge EXCEPT ![g.c] = b] \/ bridge' = bridge
    BY <1>2, <1>0 DEF CreateBridge, DataOK
  <2>3. DataOK'
    BY <1>2, <1>0, <2>1, <2>2, BridgeData DEF CreateBridge
  <2>4. QED
    BY <1>2, <2>3, GoOn DEF CreateBridge, Steps
<1>3. CASE AddClient(g)
  <2> DEFINE b == [bridge[g.c] EXCEPT !.client = TRUE]
  <2>1. b \in BridgeRecord
    BY <1>0, BridgeFields
  <2>2. bridge' = [bridge EXCEPT ![g.c] = b] \/ bridge' = bridge
    BY <1>3, <1>0 DEF AddClient, DataOK
  <2>3. DataOK'
    BY <1>3, <1>0, <2>1, <2>2, BridgeData DEF AddClient
  <2>4. QED
    BY <1>3, <2>3, GoOn DEF AddClient, Steps
<1>4. CASE AddLeg(g)
  <2> DEFINE b == [bridge[g.c] EXCEPT !.legs = @ \cup {g.leg}]
  <2>1. b \in BridgeRecord
    BY <1>0, BridgeFields
  <2>2. bridge' = [bridge EXCEPT ![g.c] = b] \/ bridge' = bridge
    BY <1>4, <1>0 DEF AddLeg, DataOK
  <2>3. DataOK'
    BY <1>4, <1>0, <2>1, <2>2, BridgeData DEF AddLeg
  <2>4. QED
    BY <1>4, <2>3, GoOn DEF AddLeg, Steps
<1>5. CASE AddOutBoundCall(g)
  <2>1. DataOK'
    BY <1>5, <1>0 DEF AddOutBoundCall, DataOK, asterisk, world
  <2>2. QED
    BY <1>5, <2>1, GoOn DEF AddOutBoundCall, Steps
<1>6. CASE SetMemberVariable(g)
  <2>1. DataOK'
    BY <1>6, <1>0, SameData DEF SetMemberVariable
  <2>2. QED
    BY <1>6, <2>1, GoOn DEF SetMemberVariable, Steps
<1>7. CASE PublishAccepted(g)
  <2>1. DataOK'
    BY <1>7, <1>0, SameData DEF PublishAccepted
  <2>2. call[g.c].user \in Users \cup {NoUser}
    BY <1>0, CallOf DEF Call
  <2>3. Message(g, "Accepted", call[g.c].user) \in Sound
    BY <1>0, <2>2, SoundMessage DEF Messages
  <2>4. QED
    BY <1>7, <2>1, <2>3 DEF PublishAccepted, Becomes, IInv
<1>8. QED
  BY <1>1, <1>2, <1>3, <1>4, <1>5, <1>6, <1>7 DEF BridgeStep

\* The handler of an agent channel that leaves.
LEMMA AgentLeaveKeeps == ASSUME IInv, NEW g \in gos, AgentLeaveStep(g), UNCHANGED down PROVE IInv'
<1>0. g \in Sound /\ g.c \in Calls /\ DataOK
  BY SoundTypes DEF IInv
<1>1. CASE LegLookup(g, "lock")
  BY <1>1, LegLookupKeeps
<1>2. CASE AgentLeft(g)
  <2> DEFINE r == IF call[g.c].state = "Terminated" THEN call[g.c]
                  ELSE WithReason(call[g.c], "AgentHangup")
  <2>1. r \in Call
    BY <1>0, CallOf DEF Call, Reasons, WithReason
  <2>2. call' = [call EXCEPT ![g.c] = r]
    BY <1>2, <1>0 DEF AgentLeft
  <2>3. DataOK'
    <3>1. call' \in [Calls -> Call]
      BY <1>0, <2>1, <2>2 DEF DataOK
    <3>2. clientCh' \in [Calls -> {"none", "stasis", "gone"}]
      BY <1>2, <1>0 DEF AgentLeft, ClientGone, DataOK
    <3>3. QED
      BY <1>2, <1>0, <3>1, <3>2 DEF AgentLeft, DataOK, manager, world
  <2>4. gos' \subseteq gos \cup ClientEndEvent(g.c)
    BY <1>2 DEF AgentLeft, Return, Becomes
  <2>5. ClientEndEvent(g.c) \subseteq Sound
    BY <1>0, SoundEvents
  <2>6. QED
    BY <2>3, <2>4, <2>5 DEF IInv
<1>3. CASE AgentLeftFails(g)
  <2> DEFINE r == WithReason(call[g.c], "AgentHangup")
  <2>1. r \in Call
    BY <1>0, CallOf DEF Call, Reasons, WithReason
  <2>2. call' \in [Calls -> Call]
    BY <1>3, <1>0, <2>1 DEF AgentLeftFails, DataOK
  <2>3. failed' \subseteq Requests \X Calls
    BY <1>3, <1>0, FailsData DEF AgentLeftFails, CallerKept, Requests
  <2>4. DataOK'
    BY <1>3, <1>0, <2>2, <2>3 DEF AgentLeftFails, CallerKept, DataOK, manager, asterisk
  <2>5. QED
    BY <1>3, <2>4 DEF AgentLeftFails, CallerKept, Return, Becomes, IInv
<1>4. QED
  BY <1>1, <1>2, <1>3 DEF AgentLeaveStep

\* The handler of a caller that leaves, and terminateCall.
LEMMA ClientLeaveKeeps == ASSUME IInv, NEW g \in gos, ClientLeaveStep(g), UNCHANGED down PROVE IInv'
<1>0. g \in Sound /\ g.c \in Calls /\ g.f = "clientLeave" /\ g \in Goroutine /\ DataOK
  BY SoundTypes DEF IInv, ClientLeaveStep
<1>1. CASE ClientLeft(g)
  <2>1. DataOK'
    BY <1>1, <1>0, SameData DEF ClientLeft
  <2>2. QED
    BY <1>1, <2>1, GoOn DEF ClientLeft, Steps
<1>2. CASE ReasonOfLeave(g)
  <2> DEFINE reason == IF call[g.c].state = "Bridged" THEN "Abandon" ELSE "ClientHangup"
             h == [g EXCEPT !.at = "terminate", !.arg = reason]
  <2>1. DataOK'
    BY <1>2, <1>0, SameData DEF ReasonOfLeave
  <2>2. reason \in Reasons
    BY DEF Reasons
  <2>3. h \in Goroutine /\ h.f = "clientLeave" /\ h.at = "terminate" /\ h.arg = reason
    BY <1>0, <2>2 DEF Goroutine, Steps
  <2>4. h \in Sound
    BY <2>2, <2>3 DEF Sound, LegHandlers
  <2>5. QED
    BY <1>2, <2>1, <2>4 DEF ReasonOfLeave, Becomes, IInv
<1>3. CASE AlreadyTerminated(g)
  <2>1. DataOK'
    BY <1>3, <1>0, SameData DEF AlreadyTerminated
  <2>2. QED
    BY <1>3, <2>1, GoOn DEF AlreadyTerminated, Steps
<1>4. CASE Terminate(g)
  <2> DEFINE reason == IF call[g.c].reason = NoReason THEN g.arg ELSE call[g.c].reason
             r == [call[g.c] EXCEPT !.state = "Terminated", !.reason = reason]
             h == [g EXCEPT !.at = "cancel", !.copy = CopyOf(g.c)]
  <2>1. g.arg \in Reasons
    BY <1>4, <1>0 DEF Terminate, Sound
  <2>2. reason \in Reasons \cup {NoReason}
    BY <1>0, <2>1, CallOf DEF Call
  <2>3. r \in Call
    BY <1>0, <2>2, TerminatedType, CallOf
  <2>4. call' = [call EXCEPT ![g.c] = r]
    BY <1>4, <1>0 DEF Terminate, DataOK
  <2>5. DataOK'
    BY <1>4, <1>0, <2>3, <2>4, CallData DEF Terminate, DataOK, world
  <2>6. h \in Sound
    BY <1>0, CopyType, SoundCopy DEF Steps
  <2>7. QED
    BY <1>4, <2>5, <2>6 DEF Terminate, Becomes, IInv
<1>5. CASE LogOnTerminate(g)
  <2>1. call[g.c].reason \in Reasons \cup {NoReason}
    BY <1>0, CallOf DEF Call
  <2>2. DataOK'
    BY <1>5, <1>0, <2>1 DEF LogOnTerminate, DataOK, manager, asterisk, world
  <2>3. QED
    BY <1>5, <2>2, GoOn DEF LogOnTerminate, Steps
<1>6. CASE RemoveCall(g)
  <2>1. DataOK'
    BY <1>6, <1>0 DEF RemoveCall, DataOK, asterisk, world
  <2>2. g.copy.user \in Users \cup {NoUser}
    BY <1>0, SoundTypes DEF Copy
  <2>3. Message(g, "Terminated", g.copy.user) \in Sound
    BY <1>0, <2>2, SoundMessage DEF Messages
  <2>4. QED
    BY <1>6, <2>1, <2>3 DEF RemoveCall, Becomes, IInv
<1>7. CASE LogOnTerminateFails(g)
  <2>1. failed' \subseteq Requests \X Calls
    BY <1>7, <1>0, FailsData DEF LogOnTerminateFails, Requests
  <2>2. DataOK'
    BY <1>7, <1>0, <2>1 DEF LogOnTerminateFails, DataOK, manager, asterisk
  <2>3. QED
    BY <1>7, <2>2, GoOn DEF LogOnTerminateFails, Steps
<1>8. QED
  BY <1>1, <1>2, <1>3, <1>4, <1>5, <1>6, <1>7 DEF ClientLeaveStep

\* The queue timeout.
LEMMA TimeoutKeeps == ASSUME IInv, NEW g \in gos, TimeoutStep(g), UNCHANGED down PROVE IInv'
<1>0. g \in Sound /\ g.c \in Calls /\ DataOK
  BY SoundTypes DEF IInv
<1>1. CASE TimeoutLookup(g)
  <2>1. DataOK'
    BY <1>1, <1>0, SameData DEF TimeoutLookup
  <2>2. QED
    BY <1>1, <2>1, GoOn DEF TimeoutLookup, Steps
<1>2. CASE TimeoutReached(g)
  <2> DEFINE r == IF call[g.c].state = "InQueue"
                  THEN WithReason(call[g.c], "QueueWaitTimeReached") ELSE call[g.c]
  <2>1. r \in Call
    BY <1>0, CallOf DEF Call, Reasons, WithReason
  <2>2. call' = [call EXCEPT ![g.c] = r]
    BY <1>2, <1>0 DEF TimeoutReached
  <2>3. DataOK'
    BY <1>2, <1>0, <2>1, <2>2, CallData DEF TimeoutReached, DataOK, world
  <2>4. QED
    BY <1>2, <2>3, GoOn DEF TimeoutReached, Steps
<1>3. QED
  BY <1>1, <1>2 DEF TimeoutStep

\* What TearDown does, in terms of the legs H that are hung up.
LEMMA TornDown ==
  ASSUME NEW g, TearDown(g)
  PROVE  \E H \in SUBSET Legs : \E unanswered \in SUBSET DialFailures(H) :
           /\ H \subseteq {g.copy.bridged, g.copy.leg}
           /\ \A l \in {g.copy.bridged, g.copy.leg} \cap Legs :
                l \notin H => l \in kept'
           /\ LegsGone(H)
           /\ gos' = (gos \ {g}) \cup
                      ({[g EXCEPT !.at = "unmap"]} \cup LegEndEvents(H) \cup unanswered)
<1> DEFINE H == {g.copy.bridged, g.copy.leg} \cap Legs
<1>1. PICK K \in SUBSET {l \in H : Alive(l)}, bridgeKept \in BOOLEAN :
        /\ LegsGone(H \ K)
        /\ \E unanswered \in SUBSET DialFailures(H \ K) :
             Becomes(g, {[g EXCEPT !.at = "unmap"]} \cup LegEndEvents(H \ K) \cup unanswered)
        /\ kept' = kept \cup K
  BY DEF TearDown
<1>2. PICK unanswered \in SUBSET DialFailures(H \ K) :
        Becomes(g, {[g EXCEPT !.at = "unmap"]} \cup LegEndEvents(H \ K) \cup unanswered)
  BY <1>1
<1>3. H \ K \in SUBSET Legs /\ \A l \in H : l \notin H \ K => l \in kept'
  BY <1>1
<1>4. QED
  BY <1>1, <1>2, <1>3 DEF Becomes

\* The bridge is deleted, or its deletion fails; what is hung up is a leg.
LEMMA TornBridge ==
  ASSUME NEW g, g.c \in Calls, DataOK, TearDown(g)
  PROVE  /\ \/ bridge' = bridge /\ failed' = failed /\ ~g.copy.bridge
            \/ bridge' = bridge /\ failed' = failed \cup {<<"bridge", g.c>>}
            \/ bridge' = [bridge EXCEPT ![g.c] = NoBridge] /\ failed' = failed
         /\ failed' \subseteq Requests \X Calls
         /\ kept \subseteq kept' /\ kept' \subseteq Legs
<1> DEFINE H == {g.copy.bridged, g.copy.leg} \cap Legs
<1>1. PICK K \in SUBSET {l \in H : Alive(l)}, bridgeKept \in BOOLEAN :
        /\ bridge' = IF g.copy.bridge /\ ~bridgeKept THEN [bridge EXCEPT ![g.c] = NoBridge]
                     ELSE bridge
        /\ kept' = kept \cup K
        /\ failed' = failed \cup (IF bridgeKept THEN {<<"bridge", g.c>>} ELSE {})
  BY DEF TearDown
<1>2. /\ \/ bridge' = bridge /\ failed' = failed /\ ~g.copy.bridge
         \/ bridge' = bridge /\ failed' = failed \cup {<<"bridge", g.c>>}
         \/ bridge' = [bridge EXCEPT ![g.c] = NoBridge] /\ failed' = failed
  <2>1. CASE bridgeKept
    BY <1>1, <2>1
  <2>2. CASE ~bridgeKept
    BY <1>1, <2>2
  <2>3. QED
    BY <2>1, <2>2
<1>3. failed' \subseteq Requests \X Calls
  BY <1>2 DEF DataOK, Requests
<1>4. QED
  BY <1>1, <1>2, <1>3 DEF DataOK

\* reSetupCallForQueue.
LEMMA ReSetupKeeps == ASSUME IInv, NEW g \in gos, ReSetupStep(g), UNCHANGED down PROVE IInv'
<1>0. g \in Sound /\ g.c \in Calls /\ g.copy \in Copy /\ DataOK
  BY SoundTypes DEF IInv
<1>1. CASE ResetCall(g)
  <2> DEFINE r == [call[g.c] EXCEPT !.state = "InQueue", !.inDistribution = FALSE, !.user = NoUser,
                                    !.leg = NoLeg, !.bridge = FALSE, !.bridged = NoLeg]
             h == [g EXCEPT !.at = "teardown", !.copy = CopyOf(g.c)]
  <2>1. r \in Call
    BY <1>0, ResetType, CallOf
  <2>2. call' = [call EXCEPT ![g.c] = r]
    BY <1>1, <1>0 DEF ResetCall, DataOK
  <2>3. DataOK'
    BY <1>1, <1>0, <2>1, <2>2, CallData DEF ResetCall, DataOK, world
  <2>4. h \in Sound
    BY <1>0, CopyType, SoundCopy DEF Steps
  <2>5. QED
    BY <1>1, <2>3, <2>4 DEF ResetCall, Becomes, IInv
<1>2. CASE TearDown(g)
  <2> DEFINE h == [g EXCEPT !.at = "unmap"]
  <2>1. NoBridge \in [up: BOOLEAN, client: BOOLEAN, legs: SUBSET Legs]
    BY DEF NoBridge
  <2>2. bridge' \in [Calls -> [up: BOOLEAN, client: BOOLEAN, legs: SUBSET Legs]]
    BY <1>2, <1>0, <2>1, TornBridge DEF DataOK
  <2>3. PICK H \in SUBSET Legs : \E unanswered \in SUBSET DialFailures(H) :
          /\ LegsGone(H)
          /\ gos' = (gos \ {g}) \cup ({h} \cup LegEndEvents(H) \cup unanswered)
    BY <1>2, TornDown
  <2>4. legCh' \in [Legs -> {"none", "dialing", "stasis", "gone"}]
    BY <1>0, <2>3 DEF LegsGone, DataOK
  <2>5. DataOK'
    BY <1>2, <1>0, <2>2, <2>4, TornBridge DEF TearDown, DataOK, manager
  <2>6. h \in Sound
    BY <1>0, SoundStep DEF Steps
  <2>7. LegEndEvents(H) \subseteq Sound /\ DialFailures(H) \subseteq Sound
    BY <1>0, <2>3, SoundEvents
  <2>8. QED
    BY <2>3, <2>5, <2>6, <2>7 DEF IInv
<1>3. CASE Unmap(g)
  <2>1. DataOK'
    BY <1>3, <1>0 DEF Unmap, DataOK, asterisk, world
  <2>2. QED
    BY <1>3, <2>1, GoOn DEF Unmap, Steps
<1>4. CASE PublishRejected(g)
  <2>1. DataOK'
    BY <1>4, <1>0, SameData DEF PublishRejected
  <2>2. g.copy.user \in Users \cup {NoUser}
    BY <1>0 DEF Copy
  <2>3. /\ Message(g, "Rejected", g.copy.user) \in Sound
        /\ [Message(g, "Rejected", NoUser) EXCEPT !.f = "messageAgain"] \in Sound
    BY <1>0, <2>2, SoundMessage DEF Messages
  <2>4. QED
    BY <1>4, <2>1, <2>3 DEF PublishRejected, Becomes, IInv
<1>5. QED
  BY <1>1, <1>2, <1>3, <1>4 DEF ReSetupStep

\* Steps that several handlers share: cancelling, hanging up, publishing.
LEMMA SharedKeeps ==
  ASSUME IInv, NEW g \in gos, CancelTimer(g) \/ HangupClient(g) \/ Send(g), UNCHANGED down
  PROVE  IInv'
<1>0. g \in Sound /\ g.c \in Calls /\ DataOK
  BY SoundTypes DEF IInv
<1>1. CASE CancelTimer(g)
  <2>1. DataOK'
    BY <1>1, <1>0 DEF CancelTimer, DataOK, manager, asterisk, world
  <2>2. QED
    BY <1>1, <2>1, GoOn DEF CancelTimer, Steps
<1>2. CASE HangupClient(g)
  <2>1. DataOK'
    BY <1>2, <1>0 DEF HangupClient, ClientGone, DataOK, manager, world
  <2>2. ClientEndEvent(g.c) \subseteq Sound
    BY <1>0, SoundEvents
  <2>3. QED
    BY <1>2, <2>1, <2>2 DEF HangupClient, Becomes, IInv
<1>3. CASE Send(g)
  <2>1. g.arg \in Messages
    BY <1>3, <1>0 DEF Send, Sound
  <2>2. NamedUser(g) \in Users \cup {NoUser}
    BY <1>0, SoundTypes, CallOf DEF NamedUser, Call
  <2>3. DataOK'
    BY <1>3, <1>0, <2>1, <2>2 DEF Send, DataOK, manager, asterisk
  <2>4. QED
    BY <1>3, <2>3, GoOn DEF Send, Steps
<1>4. QED
  BY <1>1, <1>2, <1>3

\* The initial states satisfy the invariant.
LEMMA InitHolds == Init => IInv
<1>1. SUFFICES ASSUME Init PROVE IInv
  OBVIOUS
<1>2. NewCall \in Call
  BY CallAssumption DEF NewCall, Call, States, Reasons
<1>3. 0 \in 0 .. MaxOffers
  BY CallAssumption
<1>4. NoBridge \in [up: BOOLEAN, client: BOOLEAN, legs: SUBSET Legs]
  BY DEF NoBridge
<1>5. DataOK
  BY <1>1, <1>2, <1>3, <1>4 DEF Init, DataOK
<1>6. QED
  BY <1>1, <1>5 DEF Init, IInv

\* No step leaves the invariant: a step of the outside world, a step of one goroutine,
\* or a panic.
LEMMA Inductive == IInv /\ [Next]_vars => IInv'
<1> SUFFICES ASSUME IInv, [Next]_vars PROVE IInv'
  OBVIOUS
<1>1. CASE World /\ UNCHANGED down
  BY <1>1, WorldStep
<1>2. ASSUME NEW g \in gos, Step(g), UNCHANGED down PROVE IInv'
  <2>1. CASE NoAnswerStep(g)
    BY <2>1, <1>2, LegLookupKeeps DEF NoAnswerStep
  <2>2. CASE HangupClientFails(g) \/ SendFails(g)
    BY <2>2, <1>2, FailureGivesUp, GivingUpKeeps
  <2>3. QED
    BY <1>2, <2>1, <2>2, EnterKeeps, OfferKeeps, AgentEnterKeeps, BridgeKeeps, AgentLeaveKeeps,
       ClientLeaveKeeps, TimeoutKeeps, ReSetupKeeps, SharedKeeps DEF Step
<1>3. CASE Panic
  BY <1>3 DEF Panic, IInv, DataOK, manager, asterisk, world
<1>4. CASE UNCHANGED vars
  BY <1>4 DEF vars, IInv, DataOK
<1>5. QED
  BY <1>1, <1>2, <1>3, <1>4 DEF Next, Engine

\* The invariant gives the type of every variable.
LEMMA TypeFollows == IInv => TypeOK
BY DEF IInv, DataOK, TypeOK, Sound

\* TypeOK holds for every set of calls and agents and every limit: whatever the
\* interleaving, no handler leaves a call, a map or a goroutine with a value of another
\* kind, a dialled leg always has an agent, and attempts never pass the limit
\* (call.go:273-307).
THEOREM CallTypeCorrect == Spec => []TypeOK
<1>1. Init => IInv
  BY InitHolds
<1>2. IInv /\ [Next]_vars => IInv'
  BY Inductive
<1>3. IInv => TypeOK
  BY TypeFollows
<1>4. QED
  BY <1>1, <1>2, <1>3, PTL DEF Spec

(***************************************************************************)
(* RemovedWithRow for every set of calls and agents and every limit.  A    *)
(* goroutine that runs terminateCall owes its call a reason, then a row;   *)
(* Ends says at which step it has given which, and Kept that no other      *)
(* goroutine takes either back.                                            *)
(***************************************************************************)
Ending == {"cancel", "teardown", "unmap", "log", "remove"}

Ends(g) ==
  /\ g.f = "clientLeave" => /\ clientCh[g.c] = "gone"
                            /\ g.at \in {"lookup", "lock", "terminate"} \cup Ending
  /\ g.f = "clientLeave" /\ g.at \in Ending => call[g.c].reason # NoReason
  /\ g.at \in {"log", "remove"} => g.f = "clientLeave"
  /\ g.at = "remove" => logged[g.c] # NoReason \/ Failed("row", g.c)

EndInv == IInv /\ \A g \in gos : Ends(g)

\* A channel that is gone, a reason, a row and a failure stay.
Kept ==
  \A c \in Calls :
    /\ clientCh[c] = "gone" => clientCh'[c] = "gone"
    /\ call[c].reason # NoReason => call'[c].reason # NoReason
    /\ logged[c] # NoReason => logged'[c] # NoReason
    /\ Failed("row", c) => Failed("row", c)'

\* Goroutines that end no call.
Plain == {g \in Goroutine : g.f # "clientLeave" /\ g.at \notin {"log", "remove"}}

\* What the invariant says of a goroutine is kept with the call's data.
LEMMA EndsKept == ASSUME NEW g \in Goroutine, Ends(g), Kept PROVE Ends(g)'
BY DEF Ends, Kept, Goroutine

\* No step forgets a failure, or a leg that was to be hung up and was not.
LEMMA FailuresStay ==
  ASSUME NEW g, Step(g)
  PROVE  failed \subseteq failed' /\ kept \subseteq kept'
<1>1. CASE GivesUp(g)
  BY <1>1 DEF GivesUp, Fails
<1>2. CASE EnterStep(g)
  BY <1>1, <1>2, FailureGivesUp
     DEF EnterStep, RejectSetup, RegisterCall, QueueProcessStart, ScheduleTimeout, PublishNew, world
<1>3. CASE OfferStep(g)
  BY <1>1, <1>3, FailureGivesUp
     DEF OfferStep, OfferLookup, OfferIgnored, OfferDismissed, OfferBeyondLimit, OfferTaken,
         AddAgentCallMap, Originate, OriginateFails, world
<1>4. CASE AgentEnterStep(g)
  BY <1>4 DEF AgentEnterStep, LegLookup, LateAgentGone, AgentJoins, world
<1>5. CASE BridgeStep(g)
  BY <1>5 DEF BridgeStep, SetBridged, CreateBridge, AddClient, AddLeg, AddOutBoundCall,
              SetMemberVariable, PublishAccepted, world
<1>6. CASE AgentLeaveStep(g) \/ NoAnswerStep(g)
  BY <1>6 DEF AgentLeaveStep, NoAnswerStep, LegLookup, AgentLeft, AgentLeftFails, CallerKept,
              Fails, world
<1>7. CASE ClientLeaveStep(g)
  BY <1>7 DEF ClientLeaveStep, ClientLeft, ReasonOfLeave, AlreadyTerminated, Terminate,
              LogOnTerminate, LogOnTerminateFails, RemoveCall, Fails, world
<1>8. CASE TimeoutStep(g)
  BY <1>8 DEF TimeoutStep, TimeoutLookup, TimeoutReached, world
<1>9. CASE ReSetupStep(g)
  BY <1>9 DEF ReSetupStep, ResetCall, TearDown, Unmap, PublishRejected, world
<1>10. CASE CancelTimer(g) \/ HangupClient(g) \/ HangupClientFails(g) \/ Send(g) \/ SendFails(g)
  BY <1>1, <1>10, FailureGivesUp DEF CancelTimer, HangupClient, Send, world
<1>11. QED
  BY <1>2, <1>3, <1>4, <1>5, <1>6, <1>7, <1>8, <1>9, <1>10 DEF Step

\* Nor does the outside world.
LEMMA WorldFails == ASSUME World PROVE UNCHANGED <<failed, kept>>
BY DEF World, ClientEnters, ClientHangsUp, TimerFires, AgentAnswers, AgentFails, AgentHangsUp,
       Distribute, world

\* The invariant says nothing of the other goroutines.
LEMMA PlainEnds == ASSUME NEW g \in Plain PROVE Ends(g)'
BY DEF Ends, Plain

\* A step that starts only goroutines of which the invariant holds keeps it.
LEMMA Continues ==
  ASSUME EndInv, IInv', Kept, NEW G, gos' \subseteq gos \cup G, \A h \in G : Ends(h)'
  PROVE  EndInv'
<1>1. \A h \in gos : Ends(h)'
  BY EndsKept, SoundTypes DEF EndInv, IInv
<1>2. QED
  BY <1>1 DEF EndInv

\* A step that starts only goroutines that end no call keeps the invariant.
LEMMA ContinuesPlain ==
  ASSUME EndInv, IInv', Kept, gos' \subseteq gos \cup Plain
  PROVE  EndInv'
BY Continues, PlainEnds

\* The events of legs end no call.
LEMMA LegEventsPlain ==
  ASSUME NEW H \in SUBSET Legs
  PROVE  LegEndEvents(H) \subseteq Plain /\ DialFailures(H) \subseteq Plain
<1>1. ASSUME NEW l \in H
      PROVE  GoLeg("agentLeave", "lookup", l) \in Plain /\ GoLeg("noAnswer", "lookup", l) \in Plain
  <2>1. /\ GoLeg("agentLeave", "lookup", l) \in Goroutine
        /\ GoLeg("noAnswer", "lookup", l) \in Goroutine
    BY SoundGoLeg, SoundTypes DEF LegHandlers, Steps
  <2>2. QED
    BY <2>1 DEF Plain, GoLeg, Go
<1>2. QED
  BY <1>1 DEF LegEndEvents, DialFailures

\* The event of a caller whose channel is being hung up finds the channel gone.
LEMMA ClientEventEnds ==
  ASSUME IInv, NEW c \in Calls, ClientGone(c), NEW h \in ClientEndEvent(c)
  PROVE  Ends(h)'
<1>1. clientCh'[c] = "gone"
  BY DEF ClientGone, ClientEndEvent, IInv, DataOK
<1>2. h.f = "clientLeave" /\ h.at = "lookup" /\ h.c = c
  BY DEF ClientEndEvent, Go
<1>3. QED
  BY <1>1, <1>2 DEF Ends, Ending

\* What happens in the outside world keeps the invariant.
LEMMA WorldEnds == ASSUME EndInv, IInv', World PROVE EndInv'
<1> USE DEF EndInv
<1> \A c \in Calls : Failed("row", c) => Failed("row", c)'
  BY WorldFails DEF Failed
<1>1. ASSUME NEW c \in Calls, ClientEnters(c) PROVE EndInv'
  <2>1. Go("enter", "create", c) \in Plain
    BY SoundGo, SoundTypes DEF LegHandlers, Handlers, Steps, Plain, Go
  <2>2. Kept
    BY <1>1 DEF ClientEnters, Kept, IInv, DataOK
  <2>3. QED
    BY <1>1, <2>1, <2>2, ContinuesPlain DEF ClientEnters
<1>2. ASSUME NEW c \in Calls, ClientHangsUp(c) PROVE EndInv'
  <2>1. Kept
    BY <1>2 DEF ClientHangsUp, ClientGone, Kept, IInv, DataOK
  <2>2. \A h \in ClientEndEvent(c) : Ends(h)'
    BY <1>2, ClientEventEnds DEF ClientHangsUp
  <2>3. QED
    BY <1>2, <2>1, <2>2, Continues DEF ClientHangsUp
<1>3. ASSUME NEW c \in Calls, TimerFires(c) PROVE EndInv'
  <2>1. Go("timeout", "lookup", c) \in Plain
    BY SoundGo, SoundTypes DEF LegHandlers, Handlers, Steps, Plain, Go
  <2>2. Kept
    BY <1>3 DEF TimerFires, asterisk, Kept
  <2>3. QED
    BY <1>3, <2>1, <2>2, ContinuesPlain DEF TimerFires
<1>4. ASSUME NEW l \in Legs, AgentAnswers(l) PROVE EndInv'
  <2>1. GoLeg("agentEnter", "lookup", l) \in Goroutine
    BY SoundGoLeg, SoundTypes DEF LegHandlers, Steps
  <2>2. GoLeg("agentEnter", "lookup", l) \in Plain
    BY <2>1 DEF Plain, GoLeg, Go
  <2>3. Kept
    BY <1>4 DEF AgentAnswers, Kept
  <2>4. QED
    BY <1>4, <2>2, <2>3, ContinuesPlain DEF AgentAnswers
<1>5. ASSUME NEW l \in Legs, AgentFails(l) PROVE EndInv'
  <2>1. Kept
    BY <1>5 DEF AgentFails, Kept
  <2>2. DialFailures({l}) \subseteq Plain
    BY LegEventsPlain
  <2>3. QED
    BY <1>5, <2>1, <2>2, ContinuesPlain DEF AgentFails
<1>6. ASSUME NEW l \in Legs, AgentHangsUp(l) PROVE EndInv'
  <2>1. Kept
    BY <1>6 DEF AgentHangsUp, Kept
  <2>2. LegEndEvents({l}) \subseteq Plain
    BY LegEventsPlain
  <2>3. QED
    BY <1>6, <2>1, <2>2, ContinuesPlain DEF AgentHangsUp
<1>7. ASSUME NEW c \in Calls, NEW u \in Users, Distribute(c, u) PROVE EndInv'
  <2> DEFINE g == [Go("offer", "lookup", c) EXCEPT !.user = u, !.n = offers[c] + 1]
  <2>1. g \in gos' /\ g.f = "offer" /\ g.at = "lookup"
    BY <1>7 DEF Distribute, Go
  <2>2. g \in Plain
    BY <2>1, SoundTypes DEF IInv, Plain
  <2>3. Kept
    BY <1>7 DEF Distribute, asterisk, Kept
  <2>4. QED
    BY <1>7, <2>2, <2>3, ContinuesPlain DEF Distribute
<1>8. QED
  BY <1>1, <1>2, <1>3, <1>4, <1>5, <1>6, <1>7 DEF World

\* A step that leaves calls, callers and rows alone keeps them.
LEMMA KeptSame ==
  ASSUME failed \subseteq failed', UNCHANGED <<call, clientCh, logged>>
  PROVE  Kept
BY DEF Kept, Failed

\* A step that changes one call object and does not take its reason away keeps them.
LEMMA KeptCall ==
  ASSUME IInv, NEW c \in Calls, NEW r, call' = [call EXCEPT ![c] = r],
         call[c].reason # NoReason => r.reason # NoReason, UNCHANGED <<clientCh, logged>>,
         failed \subseteq failed'
  PROVE  Kept
BY DEF Kept, IInv, DataOK, Failed

\* Hanging up a caller keeps what is gone.
LEMMA KeptGone ==
  ASSUME IInv, NEW c \in Calls, ClientGone(c), UNCHANGED <<call, logged>>,
         failed \subseteq failed'
  PROVE  Kept
BY DEF Kept, ClientGone, IInv, DataOK, Failed

\* A goroutine that ends no call goes on, or returns.
LEMMA GoesOn ==
  ASSUME EndInv, IInv', Kept, NEW g \in gos, g.f # "clientLeave",
         NEW step \in Steps \ {"log", "remove"}, Goto(g, step) \/ Return(g)
  PROVE  EndInv'
<1>1. g \in Goroutine
  BY SoundTypes DEF EndInv, IInv
<1>2. [g EXCEPT !.at = step] \in Plain
  BY <1>1 DEF Plain, Goroutine
<1>3. gos' \subseteq gos \cup Plain
  BY <1>2 DEF Goto, Return, Becomes
<1>4. QED
  BY <1>3, ContinuesPlain

\* A goroutine that ends no call goes on as h, and starts goroutines that end none.
LEMMA GoesOnAs ==
  ASSUME EndInv, IInv', Kept, NEW g \in gos, NEW h \in Plain, NEW G \in SUBSET Plain,
         Becomes(g, {h} \cup G)
  PROVE  EndInv'
BY ContinuesPlain DEF Becomes

\* A goroutine that publishes ends no call.
LEMMA MessagePlain ==
  ASSUME NEW g \in Sound, NEW state \in Messages, NEW user \in Users \cup {NoUser}
  PROVE  /\ Message(g, state, user) \in Plain
         /\ [Message(g, state, user) EXCEPT !.f = "messageAgain"] \in Plain
<1>1. /\ Message(g, state, user) \in Goroutine
      /\ [Message(g, state, user) EXCEPT !.f = "messageAgain"] \in Goroutine
  BY SoundMessage, SoundTypes
<1>2. g \in Goroutine
  BY SoundTypes
<1>3. QED
  BY <1>1, <1>2 DEF Plain, Message, Goroutine

\* A handler that gives up on a failed request ends no call.
LEMMA GivingUpEnds == ASSUME EndInv, IInv', NEW g, GivesUp(g) PROVE EndInv'
<1>1. Kept
  BY KeptSame DEF GivesUp, Fails, asterisk
<1>2. QED
  BY <1>1, ContinuesPlain DEF GivesUp, Return, Becomes

\* The handlers that end no call keep the invariant: the caller that enters.
LEMMA EnterEnds ==
  ASSUME EndInv, IInv', NEW g \in gos, EnterStep(g)
  PROVE  EndInv'
<1> failed \subseteq failed'
  BY FailuresStay DEF Step
<1>0. g \in Sound /\ g.c \in Calls /\ g.f # "clientLeave" /\ IInv
  BY SoundTypes DEF EndInv, IInv, EnterStep
<1>1. CASE RejectSetup(g)
  <2>1. Kept
    BY <1>1, <1>0, KeptGone DEF RejectSetup
  <2>2. \A h \in ClientEndEvent(g.c) : Ends(h)'
    BY <1>1, <1>0, ClientEventEnds DEF RejectSetup
  <2>3. QED
    BY <1>1, <2>1, <2>2, Continues DEF RejectSetup, Becomes
<1>2. CASE RegisterCall(g)
  BY <1>2, <1>0, KeptSame, GoesOn DEF RegisterCall, asterisk, Steps
<1>3. CASE QueueProcessStart(g)
  <2> DEFINE r == [call[g.c] EXCEPT !.state = "InQueue"]
  <2>1. r.reason = call[g.c].reason
    BY <1>0, CallOf DEF IInv, Call
  <2>2. call' = [call EXCEPT ![g.c] = r]
    BY <1>3 DEF QueueProcessStart
  <2>3. Kept
    BY <1>3, <1>0, <2>1, <2>2, KeptCall DEF QueueProcessStart, asterisk
  <2>4. QED
    BY <1>3, <1>0, <2>3, GoesOn DEF QueueProcessStart, Steps
<1>4. CASE ScheduleTimeout(g)
  BY <1>4, <1>0, KeptSame, GoesOn DEF ScheduleTimeout, asterisk, Steps
<1>5. CASE PublishNew(g)
  BY <1>5, <1>0, KeptSame, GoesOn DEF PublishNew, asterisk, Steps
<1>6. CASE RejectSetupFails(g) \/ NoQueueToEnter(g) \/ PublishNewFails(g)
  BY <1>6, FailureGivesUp, GivingUpEnds
<1>7. QED
  BY <1>1, <1>2, <1>3, <1>4, <1>5, <1>6 DEF EnterStep

\* The distribution message.
LEMMA OfferEnds ==
  ASSUME EndInv, IInv', NEW g \in gos, OfferStep(g)
  PROVE  EndInv'
<1> failed \subseteq failed'
  BY FailuresStay DEF Step
<1>0. g \in Sound /\ g.c \in Calls /\ g.f = "offer" /\ g.f # "clientLeave" /\ IInv
  BY SoundTypes DEF EndInv, IInv, OfferStep
<1>1. CASE OfferLookup(g)
  BY <1>1, <1>0, KeptSame, GoesOn DEF OfferLookup, asterisk, Steps
<1>2. CASE OfferIgnored(g)
  BY <1>2, <1>0, KeptSame, GoesOn DEF OfferIgnored, asterisk, Steps
<1>3. CASE OfferDismissed(g)
  <2>1. Message(g, "Dismissed", g.user) \in Plain
    BY <1>0, SoundTypes, MessagePlain DEF Messages
  <2>2. Kept
    BY <1>3, KeptSame DEF OfferDismissed, asterisk
  <2>3. QED
    BY <1>3, <2>1, <2>2, ContinuesPlain DEF OfferDismissed, Becomes
<1>4. CASE OfferBeyondLimit(g)
  <2> DEFINE r == WithReason(call[g.c], "MaxAttemptReached")
  <2>1. r.reason = "MaxAttemptReached"
    BY <1>0, CallOf DEF IInv, Call, WithReason
  <2>2. call' = [call EXCEPT ![g.c] = r]
    BY <1>4 DEF OfferBeyondLimit
  <2>3. Kept
    BY <1>4, <1>0, <2>1, <2>2, KeptCall DEF OfferBeyondLimit, asterisk, NoReason
  <2>4. QED
    BY <1>4, <1>0, <2>3, GoesOn DEF OfferBeyondLimit, Steps
<1>5. CASE OfferTaken(g)
  <2> DEFINE n == call[g.c].attempts + 1
             leg == <<g.c, g.user, n>>
             r == [call[g.c] EXCEPT !.attempts = n, !.inDistribution = TRUE,
                                    !.user = g.user, !.leg = leg]
             h == [g EXCEPT !.at = "map", !.leg = leg]
  <2>1. call[g.c] \in Call
    BY <1>0 DEF IInv, DataOK
  <2>2. r.reason = call[g.c].reason
    BY <2>1 DEF Call
  <2>3. call' = [call EXCEPT ![g.c] = r]
    BY <1>5 DEF OfferTaken
  <2>4. Kept
    <3> HIDE DEF r
    <3>1. UNCHANGED <<clientCh, logged>>
      BY <1>5 DEF OfferTaken, asterisk
    <3>2. QED
      BY <1>0, <2>2, <2>3, <3>1, KeptCall
  <2>5. h \in gos'
    BY <1>5 DEF OfferTaken, Becomes
  <2>6. h \in Plain
    BY <1>0, <2>5, SoundTypes DEF IInv, Plain, Goroutine
  <2>7. QED
    BY <1>5, <2>4, <2>6, ContinuesPlain DEF OfferTaken, Becomes
<1>6. CASE AddAgentCallMap(g)
  BY <1>6, <1>0, KeptSame, GoesOn DEF AddAgentCallMap, asterisk, Steps
<1>7. CASE Originate(g)
  BY <1>7, <1>0, KeptSame, GoesOn DEF Originate, Steps
<1>8. CASE OriginateFails(g)
  BY <1>8, <1>0, KeptSame, GoesOn DEF OriginateFails, Steps
<1>9. CASE NoQueueForOffer(g)
  BY <1>9, FailureGivesUp, GivingUpEnds
<1>10. QED
  BY <1>1, <1>2, <1>3, <1>4, <1>5, <1>6, <1>7, <1>8, <1>9 DEF OfferStep

\* The agent that answers.
LEMMA AgentEnterEnds ==
  ASSUME EndInv, IInv', NEW g \in gos, AgentEnterStep(g)
  PROVE  EndInv'
<1> failed \subseteq failed'
  BY FailuresStay DEF Step
<1>0. g \in Sound /\ g.c \in Calls /\ g.leg \in Legs /\ g.f # "clientLeave" /\ IInv
  BY SoundTypes DEF EndInv, IInv, AgentEnterStep, Sound, LegHandlers
<1>1. CASE LegLookup(g, "lock")
  BY <1>1, <1>0, KeptSame, GoesOn DEF LegLookup, asterisk, Steps
<1>2. CASE LateAgentGone(g)
  BY <1>2, <1>0, KeptSame, GoesOn DEF LateAgentGone, asterisk, Steps
<1>3. CASE AgentJoins(g)
  <2> DEFINE late == IF call[g.c].state = "Bridged" THEN {g.leg} ELSE {}
             r == [call[g.c] EXCEPT !.state = "Bridged", !.handled = TRUE]
             h == [g EXCEPT !.f = "bridge", !.at = "set"]
  <2>1. r.reason = call[g.c].reason
    BY <1>0, CallOf DEF IInv, Call
  <2>2. call' = [call EXCEPT ![g.c] = r]
    BY <1>3 DEF AgentJoins
  <2>3. Kept
    <3> HIDE DEF r
    <3> QED
      BY <1>3, <1>0, <2>1, <2>2, KeptCall DEF AgentJoins
  <2>4. h \in Plain
    BY <1>0, SoundTypes DEF Plain, Goroutine, Handlers, Steps
  <2>5. LegEndEvents(late) \subseteq Plain
    BY <1>0, LegEventsPlain
  <2>6. QED
    BY <1>3, <2>3, <2>4, <2>5, GoesOnAs DEF AgentJoins
<1>4. QED
  BY <1>1, <1>2, <1>3 DEF AgentEnterStep

\* bridgeCall.
LEMMA BridgeEnds ==
  ASSUME EndInv, IInv', NEW g \in gos, BridgeStep(g)
  PROVE  EndInv'
<1> failed \subseteq failed'
  BY FailuresStay DEF Step
<1>0. g \in Sound /\ g.c \in Calls /\ g.f # "clientLeave" /\ IInv
  BY SoundTypes DEF EndInv, IInv, BridgeStep
<1>1. CASE SetBridged(g)
  <2> DEFINE r == [call[g.c] EXCEPT !.bridge = TRUE, !.bridged = g.leg, !.leg = g.leg]
  <2>1. r.reason = call[g.c].reason
    BY <1>0, CallOf DEF IInv, Call
  <2>2. call' = [call EXCEPT ![g.c] = r]
    BY <1>1 DEF SetBridged
  <2>3. Kept
    <3> HIDE DEF r
    <3> QED
      BY <1>1, <1>0, <2>1, <2>2, KeptCall DEF SetBridged, asterisk
  <2>4. QED
    BY <1>1, <1>0, <2>3, GoesOn DEF SetBridged, Steps
<1>2. CASE CreateBridge(g)
  BY <1>2, <1>0, KeptSame, GoesOn DEF CreateBridge, Steps
<1>3. CASE AddClient(g)
  BY <1>3, <1>0, KeptSame, GoesOn DEF AddClient, Steps
<1>4. CASE AddLeg(g)
  BY <1>4, <1>0, KeptSame, GoesOn DEF AddLeg, Steps
<1>5. CASE AddOutBoundCall(g)
  BY <1>5, <1>0, KeptSame, GoesOn DEF AddOutBoundCall, asterisk, Steps
<1>6. CASE SetMemberVariable(g)
  BY <1>6, <1>0, KeptSame, GoesOn DEF SetMemberVariable, asterisk, Steps
<1>7. CASE PublishAccepted(g)
  <2>1. call[g.c].user \in Users \cup {NoUser}
    BY <1>0, CallOf DEF IInv, Call
  <2>2. Message(g, "Accepted", call[g.c].user) \in Plain
    BY <1>0, <2>1, MessagePlain DEF Messages
  <2>3. Kept
    BY <1>7, KeptSame DEF PublishAccepted, asterisk
  <2>4. QED
    BY <1>7, <2>2, <2>3, ContinuesPlain DEF PublishAccepted, Becomes
<1>8. QED
  BY <1>1, <1>2, <1>3, <1>4, <1>5, <1>6, <1>7 DEF BridgeStep

\* The agent that leaves, or that was never reached.
LEMMA AgentLeaveEnds ==
  ASSUME EndInv, IInv', NEW g \in gos, AgentLeaveStep(g) \/ NoAnswerStep(g)
  PROVE  EndInv'
<1> failed \subseteq failed'
  BY FailuresStay DEF Step
<1>0. g \in Sound /\ g.c \in Calls /\ g.f # "clientLeave" /\ IInv
  BY SoundTypes DEF EndInv, IInv, AgentLeaveStep, NoAnswerStep
<1>1. ASSUME NEW found \in {"lock", "reset"}, LegLookup(g, found) PROVE EndInv'
  BY <1>1, <1>0, KeptSame, GoesOn DEF LegLookup, asterisk, Steps
<1>2. CASE AgentLeft(g)
  <2> DEFINE r == IF call[g.c].state = "Terminated" THEN call[g.c]
                  ELSE WithReason(call[g.c], "AgentHangup")
  <2>1. call[g.c].reason # NoReason => r.reason # NoReason
    BY <1>0, CallOf DEF IInv, Call, WithReason, NoReason
  <2>2. call' = [call EXCEPT ![g.c] = r]
    BY <1>2 DEF AgentLeft
  <2>3. ClientGone(g.c) \/ UNCHANGED clientCh
    BY <1>2 DEF AgentLeft
  <2>4. Kept
    <3>1. \A c \in Calls : call[c].reason # NoReason => call'[c].reason # NoReason
      BY <1>0, <2>1, <2>2 DEF IInv, DataOK
    <3>2. \A c \in Calls : clientCh[c] = "gone" => clientCh'[c] = "gone"
      BY <1>0, <2>3 DEF ClientGone, IInv, DataOK
    <3>3. UNCHANGED logged
      BY <1>2 DEF AgentLeft
    <3>4. QED
      BY <3>1, <3>2, <3>3 DEF Kept, Failed
  <2>5. CASE call[g.c].state = "Terminated"
    BY <1>2, <1>0, <2>4, <2>5, GoesOn DEF AgentLeft, Steps
  <2>6. CASE call[g.c].state # "Terminated"
    <3>1. ClientGone(g.c) /\ gos' \subseteq gos \cup ClientEndEvent(g.c)
      BY <1>2, <2>6 DEF AgentLeft, Becomes
    <3>2. \A h \in ClientEndEvent(g.c) : Ends(h)'
      BY <1>0, <3>1, ClientEventEnds
    <3>3. QED
      BY <2>4, <3>1, <3>2, Continues
  <2>7. QED
    BY <2>5, <2>6
<1>3. CASE AgentLeftFails(g)
  <2> DEFINE r == WithReason(call[g.c], "AgentHangup")
  <2>1. r.reason # NoReason
    BY <1>0, CallOf DEF IInv, Call, WithReason, NoReason
  <2>2. call' = [call EXCEPT ![g.c] = r] /\ UNCHANGED <<clientCh, logged>> /\ Return(g)
    BY <1>3 DEF AgentLeftFails, CallerKept, asterisk
  <2>3. Kept
    BY <1>0, <2>1, <2>2, KeptCall
  <2>4. QED
    BY <2>2, <2>3, ContinuesPlain DEF Return, Becomes
<1>4. QED
  BY <1>1, <1>2, <1>3 DEF AgentLeaveStep, NoAnswerStep

\* The queue timeout.
LEMMA TimeoutEnds ==
  ASSUME EndInv, IInv', NEW g \in gos, TimeoutStep(g)
  PROVE  EndInv'
<1> failed \subseteq failed'
  BY FailuresStay DEF Step
<1>0. g \in Sound /\ g.c \in Calls /\ g.f # "clientLeave" /\ IInv
  BY SoundTypes DEF EndInv, IInv, TimeoutStep
<1>1. CASE TimeoutLookup(g)
  BY <1>1, <1>0, KeptSame, GoesOn DEF TimeoutLookup, asterisk, Steps
<1>2. CASE TimeoutReached(g)
  <2> DEFINE r == IF call[g.c].state = "InQueue"
                  THEN WithReason(call[g.c], "QueueWaitTimeReached") ELSE call[g.c]
  <2>1. call[g.c].reason # NoReason => r.reason # NoReason
    BY <1>0, CallOf DEF IInv, Call, WithReason, NoReason
  <2>2. call' = [call EXCEPT ![g.c] = r]
    BY <1>2 DEF TimeoutReached
  <2>3. Kept
    BY <1>2, <1>0, <2>1, <2>2, KeptCall DEF TimeoutReached, asterisk
  <2>4. QED
    BY <1>2, <1>0, <2>3, GoesOn DEF TimeoutReached, Steps
<1>3. QED
  BY <1>1, <1>2 DEF TimeoutStep

\* reSetupCallForQueue of a goroutine that ends no call.
LEMMA ReSetupEnds ==
  ASSUME EndInv, IInv', NEW g \in gos, g.f # "clientLeave", ReSetupStep(g)
  PROVE  EndInv'
<1> failed \subseteq failed'
  BY FailuresStay DEF Step
<1>0. g \in Sound /\ g.c \in Calls /\ g.copy \in Copy /\ IInv
  BY SoundTypes DEF EndInv, IInv
<1>1. CASE ResetCall(g)
  <2> DEFINE r == [call[g.c] EXCEPT !.state = "InQueue", !.inDistribution = FALSE, !.user = NoUser,
                                    !.leg = NoLeg, !.bridge = FALSE, !.bridged = NoLeg]
             h == [g EXCEPT !.at = "teardown", !.copy = CopyOf(g.c)]
  <2>1. r.reason = call[g.c].reason
    BY <1>0, CallOf DEF IInv, Call
  <2>2. call' = [call EXCEPT ![g.c] = r]
    BY <1>1 DEF ResetCall
  <2>3. Kept
    <3> HIDE DEF r
    <3> QED
      BY <1>1, <1>0, <2>1, <2>2, KeptCall DEF ResetCall, asterisk
  <2>4. h \in gos'
    BY <1>1 DEF ResetCall, Becomes
  <2>5. h \in Plain
    BY <1>0, <2>4, SoundTypes DEF IInv, Plain, Goroutine
  <2>6. QED
    BY <1>1, <2>3, <2>5, ContinuesPlain DEF ResetCall, Becomes
<1>2. CASE TearDown(g)
  <2> DEFINE h == [g EXCEPT !.at = "unmap"]
  <2>1. Kept
    BY <1>2, KeptSame DEF TearDown
  <2>2. h \in Plain
    BY <1>0, SoundTypes DEF Plain, Goroutine, Steps
  <2>3. PICK H \in SUBSET Legs : \E unanswered \in SUBSET DialFailures(H) :
          gos' = (gos \ {g}) \cup ({h} \cup LegEndEvents(H) \cup unanswered)
    BY <1>2, TornDown
  <2>4. LegEndEvents(H) \subseteq Plain /\ DialFailures(H) \subseteq Plain
    BY LegEventsPlain
  <2>5. QED
    BY <2>1, <2>2, <2>3, <2>4, ContinuesPlain
<1>3. CASE Unmap(g)
  BY <1>3, <1>0, KeptSame, GoesOn DEF Unmap, asterisk, Steps
<1>4. CASE PublishRejected(g)
  <2>1. g.copy.user \in Users \cup {NoUser}
    BY <1>0 DEF Copy
  <2>2. /\ Message(g, "Rejected", g.copy.user) \in Plain
        /\ [Message(g, "Rejected", NoUser) EXCEPT !.f = "messageAgain"] \in Plain
    BY <1>0, <2>1, MessagePlain DEF Messages
  <2>3. Kept
    BY <1>4, KeptSame DEF PublishRejected, asterisk
  <2>4. QED
    BY <1>4, <2>2, <2>3, ContinuesPlain DEF PublishRejected, Becomes
<1>5. QED
  BY <1>1, <1>2, <1>3, <1>4 DEF ReSetupStep

\* Cancelling, hanging up and publishing of a goroutine that ends no call.
LEMMA SharedEnds ==
  ASSUME EndInv, IInv', NEW g \in gos, g.f # "clientLeave",
         CancelTimer(g) \/ HangupClient(g) \/ Send(g)
  PROVE  EndInv'
<1> failed \subseteq failed'
  BY FailuresStay DEF Step
<1>0. g \in Sound /\ g.c \in Calls /\ IInv
  BY SoundTypes DEF EndInv, IInv
<1>1. CASE CancelTimer(g)
  BY <1>1, <1>0, KeptSame, GoesOn DEF CancelTimer, asterisk, Steps
<1>2. CASE HangupClient(g)
  <2>1. Kept
    BY <1>2, <1>0, KeptGone DEF HangupClient
  <2>2. \A h \in ClientEndEvent(g.c) : Ends(h)'
    BY <1>2, <1>0, ClientEventEnds DEF HangupClient
  <2>3. QED
    BY <1>2, <2>1, <2>2, Continues DEF HangupClient, Becomes
<1>3. CASE Send(g)
  BY <1>3, <1>0, KeptSame, GoesOn DEF Send, asterisk, Steps
<1>4. QED
  BY <1>1, <1>2, <1>3

\* The goroutine of a caller that has left goes on to step with the copy k.
LEMMA EndingGoesOn ==
  ASSUME EndInv, IInv', Kept, NEW g \in gos, g.f = "clientLeave",
         NEW h \in Goroutine, h.f = "clientLeave", h.c = g.c,
         NEW G \in SUBSET Plain, Becomes(g, {h} \cup G),
         h.at \in {"lookup", "lock", "terminate"} \cup Ending,
         h.at \in Ending => call'[g.c].reason # NoReason,
         h.at = "remove" => logged'[g.c] # NoReason \/ Failed("row", g.c)'
  PROVE  EndInv'
<1>1. clientCh'[h.c] = "gone"
  BY SoundTypes DEF EndInv, IInv, Ends, Kept
<1>2. Ends(h)'
  BY <1>1 DEF Ends
<1>3. \A x \in {h} \cup G : Ends(x)'
  BY <1>2, PlainEnds
<1>4. gos' \subseteq gos \cup ({h} \cup G)
  BY DEF Becomes
<1>5. QED
  BY <1>3, <1>4, Continues

\* The steps of onClientChannelLeave and terminateCall.
LEMMA EndingEnds ==
  ASSUME EndInv, IInv', NEW g \in gos, g.f = "clientLeave",
         ClientLeaveStep(g) \/ CancelTimer(g) \/ TearDown(g) \/ Unmap(g)
  PROVE  EndInv'
<1> failed \subseteq failed'
  BY FailuresStay DEF Step, ReSetupStep
<1>0. /\ g \in Sound /\ g \in Goroutine /\ g.c \in Calls /\ Ends(g) /\ IInv
      /\ {} \in SUBSET Plain
  BY SoundTypes DEF EndInv, IInv
<1>1. ASSUME Goto(g, "lock") \/ Return(g), Kept PROVE EndInv'
  <2> DEFINE h == [g EXCEPT !.at = "lock"]
  <2>1. h \in Goroutine /\ h.f = "clientLeave" /\ h.c = g.c /\ h.at = "lock"
    BY <1>0 DEF Goroutine, Steps
  <2>2. CASE Goto(g, "lock")
    <3>1. Becomes(g, {h} \cup {})
      BY <2>2 DEF Goto
    <3> HIDE DEF h
    <3> QED
      BY <1>0, <1>1, <2>1, <3>1, EndingGoesOn DEF Ending
  <2>3. CASE Return(g)
    BY <1>1, <2>3, ContinuesPlain DEF Return, Becomes
  <2>4. QED
    BY <1>1, <2>2, <2>3
<1>2. CASE ClientLeft(g)
  <2>1. Kept
    BY <1>2, KeptSame DEF ClientLeft, asterisk
  <2>2. QED
    BY <1>2, <1>1, <2>1 DEF ClientLeft
<1>3. CASE ReasonOfLeave(g)
  <2> DEFINE reason == IF call[g.c].state = "Bridged" THEN "Abandon" ELSE "ClientHangup"
             h == [g EXCEPT !.at = "terminate", !.arg = reason]
  <2>1. Kept
    BY <1>3, KeptSame DEF ReasonOfLeave, asterisk
  <2>2. h \in Goroutine /\ h.f = "clientLeave" /\ h.c = g.c /\ h.at = "terminate"
    BY <1>0 DEF Goroutine, Steps, Reasons
  <2>3. Becomes(g, {h} \cup {})
    BY <1>3 DEF ReasonOfLeave
  <2>4. QED
    <3> HIDE DEF h
    <3> QED
      BY <1>0, <2>1, <2>2, <2>3, EndingGoesOn DEF Ending
<1>4. CASE AlreadyTerminated(g)
  <2>1. Kept
    BY <1>4, KeptSame DEF AlreadyTerminated, asterisk
  <2>2. QED
    BY <1>4, <1>1, <2>1 DEF AlreadyTerminated
<1>5. CASE Terminate(g)
  <2> DEFINE reason == IF call[g.c].reason = NoReason THEN g.arg ELSE call[g.c].reason
             r == [call[g.c] EXCEPT !.state = "Terminated", !.reason = reason]
             h == [g EXCEPT !.at = "cancel", !.copy = CopyOf(g.c)]
  <2>1. g.arg \in Reasons
    BY <1>5, <1>0 DEF Terminate, Sound
  <2>2. reason # NoReason
    BY <2>1 DEF Reasons, NoReason
  <2>3. r.reason = reason
    BY <1>0, CallOf DEF IInv, Call
  <2>4. call' = [call EXCEPT ![g.c] = r]
    BY <1>5 DEF Terminate
  <2>5. UNCHANGED <<clientCh, logged>>
    BY <1>5 DEF Terminate, asterisk
  <2>6. Kept /\ call'[g.c].reason # NoReason
    <3> HIDE DEF r, reason
    <3> QED
      BY <1>0, <2>2, <2>3, <2>4, <2>5, KeptCall DEF IInv, DataOK
  <2>7. h \in Goroutine /\ h.f = "clientLeave" /\ h.c = g.c /\ h.at = "cancel"
    BY <1>0, CopyType DEF IInv, Goroutine, Steps
  <2>8. Becomes(g, {h} \cup {})
    BY <1>5 DEF Terminate
  <2>9. QED
    <3> HIDE DEF h
    <3> QED
      BY <1>0, <2>6, <2>7, <2>8, EndingGoesOn DEF Ending
<1>6. ASSUME NEW step \in Ending, UNCHANGED <<call, clientCh>>, Kept, NEW G \in SUBSET Plain,
             g.at \in Ending, Becomes(g, {[g EXCEPT !.at = step]} \cup G),
             step = "remove" => logged'[g.c] # NoReason \/ Failed("row", g.c)'
      PROVE  EndInv'
  <2> DEFINE h == [g EXCEPT !.at = step]
  <2>1. h \in Goroutine /\ h.f = "clientLeave" /\ h.c = g.c /\ h.at = step
    BY <1>0 DEF Goroutine, Steps, Ending
  <2>2. call'[g.c].reason # NoReason
    BY <1>0, <1>6 DEF Ends
  <2>3. QED
    <3> HIDE DEF h
    <3>1. Becomes(g, {h} \cup G)
      BY <1>6 DEF h
    <3>2. QED
      BY <1>0, <1>6, <2>1, <2>2, <3>1, EndingGoesOn
<1>7. CASE CancelTimer(g)
  <2>1. Kept /\ UNCHANGED <<call, clientCh>>
    BY <1>7, KeptSame DEF CancelTimer, asterisk
  <2>2. Becomes(g, {[g EXCEPT !.at = "teardown"]} \cup {}) /\ g.at \in Ending
    BY <1>7 DEF CancelTimer, Goto, Ending
  <2>3. QED
    BY <1>0, <1>6, <2>1, <2>2 DEF Ending
<1>8. CASE TearDown(g)
  <2>1. Kept /\ UNCHANGED <<call, clientCh>>
    BY <1>8, KeptSame DEF TearDown
  <2>2. PICK H \in SUBSET Legs : \E unanswered \in SUBSET DialFailures(H) :
          Becomes(g, {[g EXCEPT !.at = "unmap"]} \cup (LegEndEvents(H) \cup unanswered))
    BY <1>8, TornDown DEF Becomes
  <2>3. PICK unanswered \in SUBSET DialFailures(H) :
          Becomes(g, {[g EXCEPT !.at = "unmap"]} \cup (LegEndEvents(H) \cup unanswered))
    BY <2>2
  <2>4. LegEndEvents(H) \cup unanswered \in SUBSET Plain
    BY LegEventsPlain
  <2>5. g.at \in Ending
    BY <1>8 DEF TearDown, Ending
  <2>6. QED
    BY <1>6, <2>1, <2>3, <2>4, <2>5 DEF Ending
<1>9. CASE Unmap(g)
  <2>1. Kept /\ UNCHANGED <<call, clientCh>>
    BY <1>9, KeptSame DEF Unmap, asterisk
  <2>2. Becomes(g, {[g EXCEPT !.at = "log"]} \cup {}) /\ g.at \in Ending
    BY <1>9 DEF Unmap, Goto, Ending
  <2>3. QED
    BY <1>0, <1>6, <2>1, <2>2 DEF Ending
<1>10. CASE LogOnTerminate(g)
  <2>1. call[g.c].reason # NoReason
    BY <1>10, <1>0 DEF LogOnTerminate, Ends, Ending
  <2>2. UNCHANGED <<call, clientCh>> /\ logged' = [logged EXCEPT ![g.c] = call[g.c].reason]
    BY <1>10 DEF LogOnTerminate, asterisk
  <2>3. Kept /\ logged'[g.c] # NoReason
    BY <1>0, <2>1, <2>2 DEF Kept, IInv, DataOK, Failed
  <2>4. Becomes(g, {[g EXCEPT !.at = "remove"]} \cup {}) /\ g.at \in Ending
    BY <1>10 DEF LogOnTerminate, Goto, Ending
  <2>5. QED
    BY <1>0, <1>6, <2>2, <2>3, <2>4 DEF Ending
<1>11. CASE RemoveCall(g)
  <2>1. g.copy.user \in Users \cup {NoUser}
    BY <1>0, SoundTypes DEF Copy
  <2>2. Message(g, "Terminated", g.copy.user) \in Plain
    BY <1>0, <2>1, MessagePlain DEF Messages
  <2>3. Kept
    BY <1>11, KeptSame DEF RemoveCall, asterisk
  <2>4. QED
    BY <1>11, <2>2, <2>3, ContinuesPlain DEF RemoveCall, Becomes
<1>12. CASE LogOnTerminateFails(g)
  <2>1. UNCHANGED <<call, clientCh, logged>> /\ Failed("row", g.c)'
    BY <1>12 DEF LogOnTerminateFails, Fails, Failed, asterisk
  <2>2. Kept
    BY <2>1, KeptSame
  <2>3. Becomes(g, {[g EXCEPT !.at = "remove"]} \cup {}) /\ g.at \in Ending
    BY <1>12 DEF LogOnTerminateFails, Goto, Ending
  <2>4. QED
    BY <1>0, <1>6, <2>1, <2>2, <2>3 DEF Ending
<1>13. QED
  BY <1>2, <1>3, <1>4, <1>5, <1>7, <1>8, <1>9, <1>10, <1>11, <1>12 DEF ClientLeaveStep

\* A goroutine that runs terminateCall is at one of its steps.
LEMMA EndingSteps ==
  ASSUME EndInv, NEW g \in gos, g.f = "clientLeave", Step(g)
  PROVE  ClientLeaveStep(g) \/ CancelTimer(g) \/ TearDown(g) \/ Unmap(g)
<1>1. g.at \in {"lookup", "lock", "terminate"} \cup Ending
  BY DEF EndInv, Ends
<1>2. ~ResetCall(g) /\ ~PublishRejected(g)
  BY <1>1 DEF Ending, ResetCall, PublishRejected
<1>3. ~HangupClient(g) /\ ~HangupClientFails(g) /\ ~Send(g) /\ ~SendFails(g)
  BY <1>1 DEF Ending, HangupClient, HangupClientFails, Send, SendFails
<1>4. QED
  BY <1>2, <1>3 DEF Step, EnterStep, OfferStep, AgentEnterStep, BridgeStep, NoAnswerStep,
                    AgentLeaveStep, TimeoutStep, ReSetupStep

\* No step leaves the invariant.
LEMMA EndInductive == EndInv /\ [Next]_vars => EndInv'
<1> SUFFICES ASSUME EndInv, [Next]_vars PROVE EndInv'
  OBVIOUS
<1>0. IInv'
  BY Inductive DEF EndInv
<1>1. CASE World
  BY <1>0, <1>1, WorldEnds
<1>2. ASSUME NEW g \in gos, Step(g) PROVE EndInv'
  <2>1. CASE g.f = "clientLeave"
    BY <1>0, <1>2, <2>1, EndingSteps, EndingEnds
  <2>2. CASE g.f # "clientLeave"
    BY <1>0, <1>2, <2>2, EnterEnds, OfferEnds, AgentEnterEnds, BridgeEnds, AgentLeaveEnds,
       TimeoutEnds, ReSetupEnds, SharedEnds, FailureGivesUp, GivingUpEnds
       DEF Step, ClientLeaveStep
  <2>3. QED
    BY <2>1, <2>2
<1>3. CASE Panic
  BY <1>0, <1>3, KeptSame, ContinuesPlain DEF Panic, asterisk, world
<1>4. CASE UNCHANGED vars
  BY <1>0, <1>4, KeptSame, ContinuesPlain DEF vars
<1>5. QED
  BY <1>1, <1>2, <1>3, <1>4 DEF Next, Engine

\* A call leaves cm.calls by RemoveCall only.
LEMMA OnlyRemoveCall ==
  ASSUME [Next]_vars, NEW c \in calls, c \notin calls'
  PROVE  \E g \in gos : g.c = c /\ RemoveCall(g)
<1>1. ASSUME NEW g \in gos, Step(g), ~RemoveCall(g) PROVE calls \subseteq calls'
  <2>1. CASE GivesUp(g)
    BY <2>1 DEF GivesUp, manager
  <2>2. CASE EnterStep(g)
    BY <2>1, <2>2, FailureGivesUp
       DEF EnterStep, RejectSetup, RegisterCall, QueueProcessStart, ScheduleTimeout,
           PublishNew, manager
  <2>3. CASE OfferStep(g)
    BY <2>1, <2>3, FailureGivesUp
       DEF OfferStep, OfferLookup, OfferIgnored, OfferDismissed, OfferBeyondLimit, OfferTaken,
           AddAgentCallMap, Originate, OriginateFails, manager
  <2>4. CASE AgentEnterStep(g)
    BY <2>4 DEF AgentEnterStep, LegLookup, LateAgentGone, AgentJoins, manager
  <2>5. CASE BridgeStep(g)
    BY <2>5 DEF BridgeStep, SetBridged, CreateBridge, AddClient, AddLeg, AddOutBoundCall,
                SetMemberVariable, PublishAccepted, manager
  <2>6. CASE AgentLeaveStep(g) \/ NoAnswerStep(g)
    BY <2>6 DEF AgentLeaveStep, NoAnswerStep, LegLookup, AgentLeft, AgentLeftFails, CallerKept,
                manager
  <2>7. CASE ClientLeaveStep(g)
    BY <1>1, <2>7 DEF ClientLeaveStep, ClientLeft, ReasonOfLeave, AlreadyTerminated, Terminate,
                      LogOnTerminate, LogOnTerminateFails, manager
  <2>8. CASE TimeoutStep(g)
    BY <2>8 DEF TimeoutStep, TimeoutLookup, TimeoutReached, manager
  <2>9. CASE ReSetupStep(g)
    BY <2>9 DEF ReSetupStep, ResetCall, TearDown, Unmap, PublishRejected, manager
  <2>10. CASE CancelTimer(g) \/ HangupClient(g) \/ HangupClientFails(g) \/ Send(g) \/ SendFails(g)
    BY <2>1, <2>10, FailureGivesUp DEF CancelTimer, HangupClient, Send, manager
  <2>11. QED
    BY <1>1, <2>2, <2>3, <2>4, <2>5, <2>6, <2>7, <2>8, <2>9, <2>10 DEF Step
<1>2. CASE World
  BY <1>2 DEF World, ClientEnters, ClientHangsUp, TimerFires, AgentAnswers, AgentFails,
              AgentHangsUp, Distribute, manager
<1>3. CASE Panic \/ UNCHANGED vars
  BY <1>3 DEF Panic, vars, manager
<1>4. ASSUME NEW g \in gos, RemoveCall(g) PROVE g.c = c
  BY <1>4 DEF RemoveCall
<1>5. QED
  BY <1>1, <1>2, <1>3, <1>4 DEF Next, Engine

\* In every behaviour a call leaves cm.calls only when its caller is gone and its
\* queue-log row is written, or the one attempt to insert it failed, however many handlers, retries and timeouts of the call
\* are in flight, and also when the process dies (call.go:120-177).
THEOREM RowBeforeRemoval == Spec => RemovedWithRow
<1>1. Init => EndInv
  BY InitHolds DEF Init, EndInv
<1>2. EndInv /\ [Next]_vars => EndInv'
  BY EndInductive
<1>3. EndInv /\ [Next]_vars =>
        [\A c \in calls \ calls' :
            clientCh[c] = "gone" /\ (logged'[c] # NoReason \/ Failed("row", c))]_vars
  <2>1. ASSUME EndInv, [Next]_vars, NEW c \in calls \ calls'
        PROVE  clientCh[c] = "gone" /\ (logged'[c] # NoReason \/ Failed("row", c))
    <3>1. PICK g \in gos : g.c = c /\ RemoveCall(g)
      BY <2>1, OnlyRemoveCall
    <3>2. Ends(g) /\ g.at = "remove" /\ UNCHANGED logged
      BY <2>1, <3>1 DEF EndInv, RemoveCall
    <3>3. QED
      BY <3>1, <3>2 DEF Ends
  <2>2. QED
    BY <2>1
<1>4. QED
  BY <1>1, <1>2, <1>3, PTL DEF Spec, RemovedWithRow

-----------------------------------------------------------------------------
(***************************************************************************)
(* The queue timeout for every set of calls and agents and every limit:    *)
(* TimeoutArmed and TalkingNotTimed.  Both rest on what the engine does    *)
(* not lock: that no agent can be dialled for a call, let alone answer,    *)
(* before queueProcessStart has scheduled the timeout and told AID.        *)
(***************************************************************************)

\* Where a goroutine of each handler may be.
ReSetup == {"reset", "teardown", "unmap", "rejected"}
InPlace(g) ==
  /\ g.f = "enter" => g.at \in {"create", "start", "schedule", "publish"}
  /\ g.f = "offer" => g.at \in {"lookup", "lock", "map", "originate", "hangup"} \cup ReSetup
  /\ g.f \in {"agentEnter", "agentLeave"} => g.at \in {"lookup", "lock"}
  /\ g.f = "bridge" => g.at \in {"set", "createBridge", "addClient", "addLeg", "outbound",
                                 "setvar", "accept"} \cup ReSetup
  /\ g.f = "noAnswer" => g.at \in {"lookup"} \cup ReSetup
  /\ g.f = "clientLeave" => g.at \in {"lookup", "lock", "terminate"} \cup Ending
  /\ g.f = "timeout" => g.at \in {"lookup", "lock", "cancel", "hangup"}
  /\ g.f \in {"message", "messageAgain"} => g.at = "send"

\* The caller has not entered, or queueProcessStart of the call is under way.
Before(c) == clientCh[c] = "none" \/ \E g \in gos : g.f = "enter" /\ g.c = c

\* AID does not wait for an agent for the call, and no agent was dialled for it.
Fresh(c) ==
  /\ aid[c].state \in {NoReason, "Terminated"}
  /\ \A l \in Legs : l[1] = c => legCh[l] = "none"
  /\ call[c].state # "Bridged"

\* Goroutines that may be in flight next to queueProcessStart of the same call.
Harmless(g) == g.f \in {"clientLeave", "timeout"} \/ (g.f = "message" /\ g.arg = "Terminated")

Placed(g) ==
  /\ InPlace(g)
  /\ g.f = "offer" /\ g.at \in {"map", "originate"} => g.leg[1] = g.c
  /\ g.f = "timeout" /\ g.at = "cancel" => call[g.c].reason # NoReason
  /\ clientCh[g.c] # "none"
  /\ Before(g.c) => g.f = "enter" \/ Harmless(g)

OneEntry ==
  \A g, h \in gos : g.f = "enter" /\ h.f = "enter" /\ g.c = h.c => g = h

StateMeans(c) ==
  /\ c \in timers => clientCh[c] # "none" /\ call[c].state # "Bridged"
  /\ call[c].state = "Bridged" => call[c].handled
  /\ call[c].state = "Terminated" => call[c].reason # NoReason

\* The timeout is pending, is going to be scheduled, or is going to be looked at.
Pending(c) ==
  \/ c \in timers
  \/ \E g \in gos : g.c = c /\ \/ g.f = "enter" /\ g.at \in {"start", "schedule"}
                               \/ g.f = "timeout" /\ g.at \in {"lookup", "lock"}

Armed(c) ==
  /\ call[c].state = "New" => \E g \in gos : g.c = c /\ g.f = "enter" /\ g.at = "start"
  /\ c \in TimedCalls /\ ~call[c].handled /\ call[c].reason = NoReason /\ ~Failed("queue", c) =>
       Pending(c)

TimerInv ==
  /\ EndInv
  /\ \A c \in Calls : Before(c) => Fresh(c)
  /\ \A g \in gos : Placed(g)
  /\ OneEntry
  /\ \A c \in Calls : StateMeans(c)
  /\ \A c \in calls : Armed(c)

-----------------------------------------------------------------------------
(* Steps of goroutines that are not in queueProcessStart. *)

\* What such a step does to the data of the calls.
Steady ==
  /\ calls' \subseteq calls
  /\ failed \subseteq failed'
  /\ \A c \in Calls :
       /\ clientCh'[c] = "none" <=> clientCh[c] = "none"
       /\ Before(c) => /\ aid'[c].state \in {NoReason, "Terminated", aid[c].state}
                       /\ \A l \in Legs : l[1] = c /\ legCh[l] = "none" => legCh'[l] = "none"
                       /\ call'[c].state = "Bridged" => call[c].state = "Bridged"
       /\ call[c].reason # NoReason => call'[c].reason # NoReason
       /\ call[c].handled => call'[c].handled
       /\ call'[c].state = "New" => call[c].state = "New"
       /\ StateMeans(c)'
       /\ c \in timers \ timers' => call'[c].handled \/ call'[c].reason # NoReason

\* A goroutine that such a step starts or goes on with.
Ready(h) ==
  /\ h.f # "enter"
  /\ InPlace(h)
  /\ h.f = "offer" /\ h.at \in {"map", "originate"} => h.leg[1] = h.c
  /\ h.f = "timeout" /\ h.at = "cancel" => call'[h.c].reason # NoReason
  /\ h.c \in Calls
  /\ clientCh[h.c] # "none"
  /\ Before(h.c) => Harmless(h)

\* Nothing of a call is in flight, and nobody knows of it, before its caller enters;
\* an agent's goroutine is never next to queueProcessStart.
LEMMA Later ==
  ASSUME TimerInv, NEW g \in gos, ~Harmless(g), g.f # "enter"
  PROVE  ~Before(g.c)
BY DEF TimerInv, Placed

\* A steady step that takes no timeout and no entry out of flight keeps calls armed.
LEMMA StaysArmed ==
  ASSUME TimerInv, Steady,
         \A h \in gos \ gos' : h.f # "enter" /\ (h.f = "timeout" => h.at \notin {"lookup", "lock"})
  PROVE  \A c \in calls' : Armed(c)'
<1> SUFFICES ASSUME NEW c \in calls' PROVE Armed(c)'
  OBVIOUS
<1>0. c \in calls /\ c \in Calls /\ Armed(c)
  BY DEF Steady, TimerInv, EndInv, IInv, DataOK
<1>1. call'[c].state = "New" => \E g \in gos' : g.c = c /\ g.f = "enter" /\ g.at = "start"
  BY <1>0 DEF Armed, Steady
<1>2. c \in TimedCalls /\ ~call'[c].handled /\ call'[c].reason = NoReason /\ ~Failed("queue", c)' =>
        Pending(c)'
  <2> SUFFICES ASSUME c \in TimedCalls, ~call'[c].handled, call'[c].reason = NoReason,
                      ~Failed("queue", c)'
               PROVE  Pending(c)'
    OBVIOUS
  <2>1. ~call[c].handled /\ call[c].reason = NoReason /\ ~Failed("queue", c)
    BY <1>0 DEF Steady, Failed
  <2>2. Pending(c)
    BY <1>0, <2>1 DEF Armed
  <2>3. c \in timers => c \in timers'
    BY <1>0 DEF Steady
  <2>4. QED
    BY <2>2, <2>3 DEF Pending
<1>3. QED
  BY <1>1, <1>2 DEF Armed

\* A steady step that goes on with goroutines that are ready keeps the invariant.
LEMMA Steadily ==
  ASSUME TimerInv, EndInv', Steady, NEW G, gos' \subseteq gos \cup G, \A h \in G : Ready(h),
         \A c \in calls' : Armed(c)'
  PROVE  TimerInv'
<1>1. \A c \in Calls : Before(c)' => Before(c)
  BY DEF Before, Steady, Ready
<1>2. \A c \in Calls : Before(c)' => Fresh(c)'
  <2> SUFFICES ASSUME NEW c \in Calls, Before(c)' PROVE Fresh(c)'
    OBVIOUS
  <2>1. Before(c) /\ Fresh(c)
    BY <1>1 DEF TimerInv
  <2>2. QED
    BY <2>1 DEF Fresh, Steady
<1>3. ASSUME NEW h \in gos' PROVE Placed(h)'
  <2>1. CASE h \in G
    BY <1>1, <2>1 DEF Ready, Placed, InPlace, Harmless, Steady
  <2>2. CASE h \in gos
    <3>1. Placed(h) /\ h.c \in Calls
      BY <2>2, SoundTypes DEF TimerInv, EndInv, IInv
    <3>2. QED
      BY <1>1, <3>1 DEF Placed, InPlace, Harmless, Steady
  <2>3. QED
    BY <2>1, <2>2
<1>4. OneEntry'
  BY DEF OneEntry, TimerInv, Ready
<1>5. QED
  BY <1>2, <1>3, <1>4 DEF TimerInv, Steady

\* What the calls and the goroutines before the step have.
LEMMA TimerFacts ==
  ASSUME TimerInv
  PROVE  /\ DataOK /\ IInv /\ EndInv
         /\ \A c \in Calls : StateMeans(c) /\ call[c] \in Call
         /\ \A g \in gos : /\ g \in Goroutine /\ g \in Sound /\ g.c \in Calls /\ Placed(g) /\ InPlace(g)
                           /\ clientCh[g.c] # "none"
<1>1. DataOK /\ IInv /\ EndInv
  BY DEF TimerInv, EndInv, IInv
<1>2. \A c \in Calls : StateMeans(c) /\ call[c] \in Call
  BY <1>1, CallOf DEF TimerInv
<1>3. \A g \in gos : g \in Sound /\ Placed(g) /\ InPlace(g) /\ clientCh[g.c] # "none"
  BY <1>1 DEF TimerInv, IInv, Placed
<1>4. QED
  BY <1>1, <1>2, <1>3, SoundTypes

\* A goroutine of the engine that goes on at another step is ready.
LEMMA ReadyStep ==
  ASSUME TimerInv, NEW g \in gos, g.f # "enter", NEW step \in Steps,
         InPlace([g EXCEPT !.at = step]),
         g.f = "offer" => step \notin {"map", "originate"} \/ g.leg[1] = g.c,
         g.f = "timeout" => step # "cancel" \/ call'[g.c].reason # NoReason
  PROVE  Ready([g EXCEPT !.at = step])
<1> DEFINE h == [g EXCEPT !.at = step]
<1>1. g \in Goroutine /\ g.c \in Calls /\ Placed(g) /\ clientCh[g.c] # "none"
  BY TimerFacts
<1>2. h.f = g.f /\ h.at = step /\ h.c = g.c /\ h.leg = g.leg /\ h.arg = g.arg
  BY <1>1 DEF Goroutine
<1>3. Before(h.c) => Harmless(h)
  BY <1>1, <1>2 DEF Placed, Harmless
<1> HIDE DEF h
<1>4. Ready(h)
  BY <1>1, <1>2, <1>3 DEF Ready, h
<1>5. QED
  BY <1>4 DEF h

\* A goroutine that goes on as the message it sends is ready, if it is not next to
\* queueProcessStart or the message is Terminated.
LEMMA ReadyMessage ==
  ASSUME TimerInv, NEW g \in gos, NEW state \in Messages, NEW user \in Users \cup {NoUser},
         state = "Terminated" \/ ~Before(g.c)
  PROVE  /\ Ready(Message(g, state, user))
         /\ ~Before(g.c) => Ready([Message(g, state, user) EXCEPT !.f = "messageAgain"])
<1>1. g \in Goroutine /\ g.c \in Calls /\ clientCh[g.c] # "none"
  BY TimerFacts
<1>2. LET m == Message(g, state, user) IN
      m.f = "message" /\ m.at = "send" /\ m.c = g.c /\ m.arg = state
  BY <1>1 DEF Message, Goroutine
<1>3. LET m == [Message(g, state, user) EXCEPT !.f = "messageAgain"] IN
      m.f = "messageAgain" /\ m.at = "send" /\ m.c = g.c /\ m.arg = state
  BY <1>1 DEF Message, Goroutine
<1>4. QED
  BY <1>1, <1>2, <1>3 DEF Ready, InPlace, Harmless

\* The goroutines of channels that end are ready: the caller's channel was there, and
\* so was the agent's, which was dialled after queueProcessStart.
LEMMA ReadyEvents ==
  ASSUME TimerInv, NEW c \in Calls, NEW H \in SUBSET Legs
  PROVE  \A h \in ClientEndEvent(c) \cup LegEndEvents(H) \cup DialFailures(H) : Ready(h)
<1>1. ASSUME NEW h \in ClientEndEvent(c) PROVE Ready(h)
  <2>1. h.f = "clientLeave" /\ h.at = "lookup" /\ h.c = c /\ clientCh[c] = "stasis"
    BY <1>1 DEF ClientEndEvent, Go
  <2>2. QED
    BY <2>1 DEF Ready, InPlace, Harmless
<1>2. ASSUME NEW l \in H, legCh[l] # "none" PROVE l[1] \in Calls /\ ~Before(l[1])
  <2>1. l[1] \in Calls
    BY DEF Legs
  <2>2. QED
    BY <1>2, <2>1 DEF TimerInv, Fresh
<1>3. ASSUME NEW h \in LegEndEvents(H) PROVE Ready(h)
  <2>1. PICK l \in H : legCh[l] = "stasis" /\ h = GoLeg("agentLeave", "lookup", l)
    BY <1>3 DEF LegEndEvents
  <2>2. h.f = "agentLeave" /\ h.at = "lookup" /\ h.c = l[1]
    BY <2>1 DEF GoLeg, Go
  <2>3. QED
    BY <1>2, <2>1, <2>2 DEF Ready, InPlace, Before
<1>4. ASSUME NEW h \in DialFailures(H) PROVE Ready(h)
  <2>1. PICK l \in H : legCh[l] = "dialing" /\ h = GoLeg("noAnswer", "lookup", l)
    BY <1>4 DEF DialFailures
  <2>2. h.f = "noAnswer" /\ h.at = "lookup" /\ h.c = l[1]
    BY <2>1 DEF GoLeg, Go
  <2>3. QED
    BY <1>2, <2>1, <2>2 DEF Ready, InPlace, Before
<1>5. QED
  BY <1>1, <1>3, <1>4

\* A step that changes no data of a call is steady, and so is one that removes a call.
LEMMA SteadySame ==
  ASSUME TimerInv, UNCHANGED <<call, timers, clientCh, legCh, aid>>, calls' \subseteq calls,
         failed \subseteq failed'
  PROVE  Steady
BY TimerFacts DEF Steady, StateMeans

\* A step that changes one call object as below is steady.
LEMMA SteadyCall ==
  ASSUME TimerInv, UNCHANGED <<calls, timers, clientCh, legCh, aid>>,
         failed \subseteq failed',
         NEW c \in Calls, NEW r, call' = [call EXCEPT ![c] = r],
         r.state = "Bridged" => call[c].state = "Bridged",
         r.state = "New" => call[c].state = "New",
         r.state = "Terminated" => r.reason # NoReason,
         call[c].reason # NoReason => r.reason # NoReason,
         call[c].handled => r.handled
  PROVE  Steady
<1>1. \A d \in Calls : call'[d] = IF d = c THEN r ELSE call[d]
  BY TimerFacts DEF DataOK
<1>2. QED
  BY <1>1, TimerFacts DEF Steady, StateMeans

\* A step that hangs up callers or agents is steady.
LEMMA SteadyHangup ==
  ASSUME TimerInv, UNCHANGED <<call, calls, timers, aid>>, failed \subseteq failed',
         clientCh' = clientCh \/ \E c \in Calls : ClientGone(c),
         legCh' = legCh \/ \E H : LegsGone(H)
  PROVE  Steady
<1>1. \A c \in Calls : clientCh'[c] = "none" <=> clientCh[c] = "none"
  BY TimerFacts DEF ClientGone, DataOK
<1>2. \A l \in Legs : legCh[l] = "none" => legCh'[l] = "none"
  BY DEF LegsGone
<1>3. QED
  BY <1>1, <1>2, TimerFacts DEF Steady, StateMeans

\* A steady step of a goroutine that is neither in queueProcessStart nor a timeout
\* that has not looked at its call.
LEMMA MovesOn ==
  ASSUME TimerInv, EndInv', Steady, NEW g \in gos, g.f # "enter",
         g.f = "timeout" => g.at \notin {"lookup", "lock"},
         NEW G, Becomes(g, G), \A h \in G : Ready(h)
  PROVE  TimerInv'
<1>1. \A h \in gos \ gos' : h = g
  BY DEF Becomes
<1>2. \A c \in calls' : Armed(c)'
  BY <1>1, StaysArmed
<1>3. gos' \subseteq gos \cup G
  BY DEF Becomes
<1>4. QED
  BY <1>2, <1>3, Steadily

\* The same for a goroutine that goes on at step, or returns.
LEMMA GoesToStep ==
  ASSUME TimerInv, EndInv', Steady, NEW g \in gos, g.f # "enter",
         g.f = "timeout" => g.at \notin {"lookup", "lock"},
         NEW step \in Steps, Goto(g, step) \/ Return(g),
         InPlace([g EXCEPT !.at = step]),
         g.f = "offer" => step \notin {"map", "originate"} \/ g.leg[1] = g.c,
         g.f = "timeout" => step # "cancel"
  PROVE  TimerInv'
<1>1. Ready([g EXCEPT !.at = step])
  BY ReadyStep
<1>2. CASE Goto(g, step)
  BY <1>1, <1>2, MovesOn DEF Goto
<1>3. CASE Return(g)
  BY <1>3, MovesOn DEF Return
<1>4. QED
  BY <1>2, <1>3

\* Where a goroutine that goes on at step is.
LEMMA PlaceOf ==
  ASSUME NEW g \in Goroutine, NEW step \in Steps
  PROVE  /\ [g EXCEPT !.at = step].at = step /\ [g EXCEPT !.at = step].f = g.f
         /\ [g EXCEPT !.at = step].c = g.c
BY DEF Goroutine

-----------------------------------------------------------------------------
(* The handlers. *)

\* A handler that gives up on a failed request, but for queueProcessStart and a timeout
\* that has not looked at its call.
LEMMA GivingUpTimer ==
  ASSUME TimerInv, EndInv', NEW g \in gos, GivesUp(g), g.f # "enter",
         g.f = "timeout" => g.at \notin {"lookup", "lock"}
  PROVE  TimerInv'
<1>1. Steady
  BY SteadySame DEF GivesUp, Fails, manager, asterisk
<1> DEFINE G == {}
<1>2. Becomes(g, G) /\ \A h \in G : Ready(h)
  BY DEF GivesUp, Return
<1> HIDE DEF G
<1>3. QED
  BY <1>1, <1>2, MovesOn

\* The distribution message.
LEMMA OfferTimer == ASSUME TimerInv, EndInv', NEW g \in gos, OfferStep(g) PROVE TimerInv'
<1> failed \subseteq failed'
  BY FailuresStay DEF Step
<1>0. /\ g \in Goroutine /\ g \in Sound /\ g.c \in Calls /\ g.f = "offer" /\ g.f # "enter"
      /\ Placed(g) /\ call[g.c] \in Call /\ StateMeans(g.c) /\ ~Before(g.c)
  BY TimerFacts, Later DEF OfferStep, Harmless
<1>1. ASSUME NEW step \in {"lock", "originate", "hangup", "reset"}, Goto(g, step) \/ Return(g), Steady,
             step = "originate" => g.leg[1] = g.c
      PROVE  TimerInv'
  BY <1>0, <1>1, PlaceOf, GoesToStep DEF InPlace, ReSetup, Steps
<1>2. CASE OfferLookup(g)
  BY <1>1, <1>2, SteadySame DEF OfferLookup, manager, asterisk, world
<1>3. CASE OfferIgnored(g)
  BY <1>1, <1>3, SteadySame DEF OfferIgnored, manager, asterisk, world
<1>4. CASE OfferDismissed(g)
  <2>1. Ready(Message(g, "Dismissed", g.user))
    BY <1>0, SoundTypes, ReadyMessage DEF Messages
  <2>2. QED
    BY <1>0, <1>4, <2>1, SteadySame, MovesOn DEF OfferDismissed, manager, asterisk, world
<1>5. CASE OfferBeyondLimit(g)
  <2> DEFINE r == WithReason(call[g.c], "MaxAttemptReached")
  <2>1. /\ r.reason = "MaxAttemptReached" /\ r.state = call[g.c].state
        /\ r.handled = call[g.c].handled
    BY <1>0 DEF Call, WithReason
  <2>2. call' = [call EXCEPT ![g.c] = r]
    BY <1>5 DEF OfferBeyondLimit
  <2>3. Steady
    <3> HIDE DEF r
    <3>1. UNCHANGED <<calls, timers, clientCh, legCh, aid>>
      BY <1>5 DEF OfferBeyondLimit, manager, asterisk, world
    <3>2. QED
      BY <1>0, <2>1, <2>2, <3>1, SteadyCall DEF StateMeans, NoReason
  <2>4. QED
    BY <1>1, <1>5, <2>3 DEF OfferBeyondLimit
<1>6. CASE OfferTaken(g)
  <2> DEFINE n == call[g.c].attempts + 1
             leg == <<g.c, g.user, n>>
             r == [call[g.c] EXCEPT !.attempts = n, !.inDistribution = TRUE,
                                    !.user = g.user, !.leg = leg]
             h == [g EXCEPT !.at = "map", !.leg = leg]
  <2>1. r.reason = call[g.c].reason /\ r.state = call[g.c].state /\ r.handled = call[g.c].handled
    BY <1>0 DEF Call
  <2>2. call' = [call EXCEPT ![g.c] = r]
    BY <1>6 DEF OfferTaken
  <2>3. Steady
    <3> HIDE DEF r
    <3>1. UNCHANGED <<calls, timers, clientCh, legCh, aid>>
      BY <1>6 DEF OfferTaken, manager, asterisk
    <3>2. QED
      BY <1>0, <2>1, <2>2, <3>1, SteadyCall DEF StateMeans
  <2>4. h.f = "offer" /\ h.at = "map" /\ h.c = g.c /\ h.leg[1] = g.c
    BY <1>0 DEF Goroutine
  <2>5. Ready(h)
    <3> HIDE DEF h
    <3> QED
      BY <1>0, <2>4 DEF Ready, InPlace, Placed
  <2>6. Becomes(g, {h})
    BY <1>6 DEF OfferTaken
  <2>7. QED
    BY <1>0, <2>3, <2>5, <2>6, MovesOn
<1>7. CASE AddAgentCallMap(g)
  BY <1>0, <1>1, <1>7, SteadySame DEF AddAgentCallMap, Placed, asterisk, world
<1>8. CASE Originate(g) \/ OriginateFails(g)
  <2>1. g.leg[1] = g.c /\ UNCHANGED <<call, calls, timers, clientCh, aid>>
    BY <1>0, <1>8 DEF Originate, OriginateFails, Placed, manager, world
  <2>2. \A l \in Legs : l[1] # g.c => legCh'[l] = legCh[l]
    BY <1>0, <1>8, <2>1 DEF Originate, OriginateFails, TimerInv, EndInv, IInv, DataOK
  <2>3. Steady
    BY <1>0, <2>1, <2>2, TimerFacts DEF Steady, StateMeans
  <2>4. QED
    BY <1>1, <1>8, <2>3 DEF Originate, OriginateFails
<1>9. CASE NoQueueForOffer(g)
  BY <1>0, <1>9, FailureGivesUp, GivingUpTimer
<1>10. QED
  BY <1>2, <1>3, <1>4, <1>5, <1>6, <1>7, <1>8, <1>9 DEF OfferStep

\* The agent that answers: the timeout of the call is cancelled in the section that
\* makes it bridged.
LEMMA AgentEnterTimer ==
  ASSUME TimerInv, EndInv', NEW g \in gos, AgentEnterStep(g) PROVE TimerInv'
<1> failed \subseteq failed'
  BY FailuresStay DEF Step
<1>0. /\ g \in Goroutine /\ g \in Sound /\ g.c \in Calls /\ g.leg \in Legs
      /\ g.f = "agentEnter" /\ g.f # "enter"
      /\ Placed(g) /\ call[g.c] \in Call /\ StateMeans(g.c) /\ ~Before(g.c)
  BY TimerFacts, Later DEF AgentEnterStep, Harmless, Sound, LegHandlers
<1>1. ASSUME Goto(g, "lock") \/ Return(g), Steady PROVE TimerInv'
  BY <1>0, <1>1, PlaceOf, GoesToStep DEF InPlace, Steps
<1>2. CASE LegLookup(g, "lock")
  BY <1>1, <1>2, SteadySame DEF LegLookup, manager, asterisk, world
<1>3. CASE LateAgentGone(g)
  BY <1>1, <1>3, SteadySame DEF LateAgentGone, manager, asterisk, world
<1>4. CASE AgentJoins(g)
  <2> DEFINE late == IF call[g.c].state = "Bridged" THEN {g.leg} ELSE {}
             r == [call[g.c] EXCEPT !.state = "Bridged", !.handled = TRUE]
             h == [g EXCEPT !.f = "bridge", !.at = "set"]
  <2>1. r.state = "Bridged" /\ r.handled = TRUE /\ r.reason = call[g.c].reason
    BY <1>0 DEF Call
  <2>2. call' = [call EXCEPT ![g.c] = r]
    BY <1>4 DEF AgentJoins
  <2>3. \A c \in Calls : call'[c] = IF c = g.c THEN r ELSE call[c]
    BY <1>0, <2>2, TimerFacts DEF DataOK
  <2>4. timers' = timers \ {g.c} /\ UNCHANGED <<calls, clientCh, aid>> /\ LegsGone(late)
    BY <1>4 DEF AgentJoins, manager, world
  <2>5. \A l \in Legs : legCh[l] = "none" => legCh'[l] = "none"
    BY <2>4 DEF LegsGone
  <2>6. Steady
    <3> HIDE DEF r
    <3> QED
      BY <1>0, <2>1, <2>3, <2>4, <2>5, TimerFacts DEF Steady, StateMeans
  <2>7. h.f = "bridge" /\ h.at = "set" /\ h.c = g.c
    BY <1>0 DEF Goroutine
  <2>8. Ready(h)
    <3> HIDE DEF h
    <3> QED
      BY <1>0, <2>7 DEF Ready, InPlace, Placed
  <2>9. \A x \in {h} \cup LegEndEvents(late) : Ready(x)
    BY <1>0, <2>8, ReadyEvents
  <2>10. Becomes(g, {h} \cup LegEndEvents(late))
    BY <1>4 DEF AgentJoins
  <2>11. QED
    BY <1>0, <2>6, <2>9, <2>10, MovesOn
<1>5. QED
  BY <1>2, <1>3, <1>4 DEF AgentEnterStep

\* bridgeCall.
LEMMA BridgeTimer == ASSUME TimerInv, EndInv', NEW g \in gos, BridgeStep(g) PROVE TimerInv'
<1> failed \subseteq failed'
  BY FailuresStay DEF Step
<1>0. /\ g \in Goroutine /\ g \in Sound /\ g.c \in Calls /\ g.f = "bridge" /\ g.f # "enter"
      /\ call[g.c] \in Call /\ StateMeans(g.c) /\ ~Before(g.c)
  BY TimerFacts, Later DEF BridgeStep, Harmless
<1>1. ASSUME NEW step \in {"createBridge", "addClient", "addLeg", "outbound", "setvar", "accept", "reset"},
             Goto(g, step), Steady
      PROVE  TimerInv'
  BY <1>0, <1>1, PlaceOf, GoesToStep DEF InPlace, ReSetup, Steps
<1>2. CASE SetBridged(g)
  <2> DEFINE r == [call[g.c] EXCEPT !.bridge = TRUE, !.bridged = g.leg, !.leg = g.leg]
  <2>1. r.reason = call[g.c].reason /\ r.state = call[g.c].state /\ r.handled = call[g.c].handled
    BY <1>0 DEF Call
  <2>2. call' = [call EXCEPT ![g.c] = r] /\ UNCHANGED <<calls, timers, clientCh, legCh, aid>>
    BY <1>2 DEF SetBridged, manager, asterisk, world
  <2>3. Steady
    <3> HIDE DEF r
    <3> QED
      BY <1>0, <2>1, <2>2, SteadyCall DEF StateMeans
  <2>4. QED
    BY <1>1, <1>2, <2>3 DEF SetBridged
<1>3. CASE CreateBridge(g) \/ AddClient(g) \/ AddLeg(g)
  <2>1. Steady
    BY <1>3, SteadySame DEF CreateBridge, AddClient, AddLeg, manager, world
  <2>2. QED
    BY <1>1, <1>3, <2>1 DEF CreateBridge, AddClient, AddLeg
<1>4. CASE AddOutBoundCall(g) \/ SetMemberVariable(g)
  <2>1. Steady
    BY <1>4, SteadySame DEF AddOutBoundCall, SetMemberVariable, manager, asterisk, world
  <2>2. QED
    BY <1>1, <1>4, <2>1 DEF AddOutBoundCall, SetMemberVariable
<1>5. CASE PublishAccepted(g)
  <2>1. Ready(Message(g, "Accepted", call[g.c].user))
    BY <1>0, ReadyMessage DEF Messages, Call
  <2>2. QED
    BY <1>0, <1>5, <2>1, SteadySame, MovesOn DEF PublishAccepted, manager, asterisk, world
<1>6. QED
  BY <1>2, <1>3, <1>4, <1>5 DEF BridgeStep

\* The agent that leaves, or that was never reached.
LEMMA AgentLeaveTimer ==
  ASSUME TimerInv, EndInv', NEW g \in gos, AgentLeaveStep(g) \/ NoAnswerStep(g) PROVE TimerInv'
<1> failed \subseteq failed'
  BY FailuresStay DEF Step
<1>0. /\ g \in Goroutine /\ g.c \in Calls /\ g.f \in {"agentLeave", "noAnswer"} /\ g.f # "enter"
      /\ g.f # "timeout" /\ g.f # "offer" /\ call[g.c] \in Call /\ StateMeans(g.c)
  BY TimerFacts DEF AgentLeaveStep, NoAnswerStep
<1>1. CASE g.f = "agentLeave" /\ LegLookup(g, "lock")
  <2>1. Steady
    BY <1>1, SteadySame DEF LegLookup, manager, asterisk, world
  <2>2. Goto(g, "lock") \/ Return(g)
    BY <1>1 DEF LegLookup
  <2>3. QED
    BY <1>0, <1>1, <2>1, <2>2, PlaceOf, GoesToStep DEF InPlace, Steps
<1>2. CASE g.f = "noAnswer" /\ LegLookup(g, "reset")
  <2>1. Steady
    BY <1>2, SteadySame DEF LegLookup, manager, asterisk, world
  <2>2. Goto(g, "reset") \/ Return(g)
    BY <1>2 DEF LegLookup
  <2>3. QED
    BY <1>0, <1>2, <2>1, <2>2, PlaceOf, GoesToStep DEF InPlace, ReSetup, Steps
<1>3. CASE AgentLeft(g)
  <2> DEFINE r == IF call[g.c].state = "Terminated" THEN call[g.c]
                  ELSE WithReason(call[g.c], "AgentHangup")
  <2>1. /\ r.state = call[g.c].state /\ r.handled = call[g.c].handled
        /\ call[g.c].reason # NoReason => r.reason # NoReason
    BY <1>0 DEF Call, WithReason, NoReason
  <2>2. call' = [call EXCEPT ![g.c] = r] /\ UNCHANGED <<calls, timers, legCh, aid>>
    BY <1>3 DEF AgentLeft, manager, world
  <2>3. \A c \in Calls : call'[c] = IF c = g.c THEN r ELSE call[c]
    BY <1>0, <2>2, TimerFacts DEF DataOK
  <2>4. \A c \in Calls : clientCh'[c] = "none" <=> clientCh[c] = "none"
    BY <1>3, TimerFacts DEF AgentLeft, ClientGone, DataOK
  <2>5. Steady
    <3> HIDE DEF r
    <3> QED
      BY <1>0, <2>1, <2>2, <2>3, <2>4, TimerFacts DEF Steady, StateMeans
  <2>6. Becomes(g, {}) \/ Becomes(g, ClientEndEvent(g.c))
    BY <1>3 DEF AgentLeft, Return
  <2>7. \A h \in ClientEndEvent(g.c) : Ready(h)
    BY <1>0, ReadyEvents
  <2>8. QED
    BY <1>0, <2>5, <2>6, <2>7, MovesOn
<1>4. CASE AgentLeftFails(g)
  <2> DEFINE r == WithReason(call[g.c], "AgentHangup")
  <2>1. /\ r.state = call[g.c].state /\ r.handled = call[g.c].handled
        /\ r.reason # NoReason
    BY <1>0 DEF Call, WithReason, NoReason
  <2>2. call' = [call EXCEPT ![g.c] = r] /\ UNCHANGED <<calls, timers, clientCh, legCh, aid>>
    BY <1>4 DEF AgentLeftFails, CallerKept, manager, asterisk
  <2>3. Steady
    <3> HIDE DEF r
    <3> QED
      BY <1>0, <2>1, <2>2, SteadyCall DEF StateMeans
  <2> DEFINE G == {}
  <2>4. Becomes(g, G) /\ \A h \in G : Ready(h)
    BY <1>4 DEF AgentLeftFails, CallerKept, Return
  <2> HIDE DEF G
  <2>5. QED
    BY <1>0, <2>3, <2>4, MovesOn
<1>5. QED
  BY <1>1, <1>2, <1>3, <1>4 DEF AgentLeaveStep, NoAnswerStep

\* The queue timeout: it looks at the call and gives it a reason, or the call has been
\* answered or is ended; only then it goes out of flight.
LEMMA TimeoutTimer == ASSUME TimerInv, EndInv', NEW g \in gos, TimeoutStep(g) PROVE TimerInv'
<1> failed \subseteq failed'
  BY FailuresStay DEF Step
<1>0. /\ g \in Goroutine /\ g.c \in Calls /\ g.f = "timeout" /\ g.f # "enter" /\ g.f # "offer"
      /\ call[g.c] \in Call /\ StateMeans(g.c)
  BY TimerFacts DEF TimeoutStep
<1>1. CASE TimeoutLookup(g)
  <2> DEFINE h == [g EXCEPT !.at = "lock"]
             G == {h}
  <2>1. Steady
    BY <1>1, SteadySame DEF TimeoutLookup, manager, asterisk, world
  <2>2. h.f = "timeout" /\ h.at = "lock" /\ h.c = g.c
    BY <1>0 DEF Goroutine
  <2>3. Ready(h)
    BY <1>0, <2>2, ReadyStep DEF InPlace, Steps
  <2>4. /\ gos' \subseteq gos \cup {h} /\ gos \ gos' \subseteq {g}
        /\ g.c \in calls' => h \in gos'
        /\ UNCHANGED <<call, calls, timers>>
    BY <1>1 DEF TimeoutLookup, Goto, Return, Becomes, manager
  <2> HIDE DEF h
  <2>5. \A c \in calls' : Armed(c)'
    <3> SUFFICES ASSUME NEW c \in calls' PROVE Armed(c)'
      OBVIOUS
    <3>1. c \in calls /\ Armed(c)
      BY <2>4 DEF TimerInv
    <3>2. (\E x \in gos : x.c = c /\ x.f = "enter" /\ x.at = "start") =>
            \E x \in gos' : x.c = c /\ x.f = "enter" /\ x.at = "start"
      BY <1>0, <2>4
    <3>3. Pending(c) => Pending(c)'
      BY <1>0, <2>2, <2>4 DEF Pending
    <3>4. QED
      BY <2>4, <3>1, <3>2, <3>3 DEF Armed, Failed
  <2>6. \A x \in G : Ready(x)
    BY <2>3
  <2>7. gos' \subseteq gos \cup G
    BY <2>4
  <2>8. QED
    <3> HIDE DEF G
    <3> QED
      BY <2>1, <2>5, <2>6, <2>7, Steadily
<1>2. CASE TimeoutReached(g)
  <2> DEFINE waiting == call[g.c].state = "InQueue"
             r == IF waiting THEN WithReason(call[g.c], "QueueWaitTimeReached") ELSE call[g.c]
             h == [g EXCEPT !.at = "cancel"]
             G == IF waiting THEN {h} ELSE {}
  <2>1. /\ r.state = call[g.c].state /\ r.handled = call[g.c].handled
        /\ call[g.c].reason # NoReason => r.reason # NoReason
        /\ waiting => r.reason # NoReason
    BY <1>0 DEF Call, WithReason, NoReason
  <2>2. call' = [call EXCEPT ![g.c] = r] /\ UNCHANGED <<calls, timers, clientCh, legCh, aid>>
    BY <1>2 DEF TimeoutReached, manager, asterisk, world
  <2>3. \A c \in Calls : call'[c] = IF c = g.c THEN r ELSE call[c]
    BY <1>0, <2>2, TimerFacts DEF DataOK
  <2>4. Steady
    <3> HIDE DEF r, waiting
    <3> QED
      BY <1>0, <2>1, <2>2, SteadyCall DEF StateMeans
  <2>5. h.f = "timeout" /\ h.at = "cancel" /\ h.c = g.c
    BY <1>0 DEF Goroutine
  <2>6. waiting => Ready(h)
    BY <1>0, <2>1, <2>3, <2>5, ReadyStep DEF InPlace, Steps
  <2>7. /\ gos' \subseteq gos \cup G /\ gos \ gos' \subseteq {g}
    BY <1>2 DEF TimeoutReached, Goto, Return, Becomes
  <2>8. \A c \in calls' : Armed(c)'
    <3> SUFFICES ASSUME NEW c \in calls' PROVE Armed(c)'
      OBVIOUS
    <3>1. c \in calls /\ c \in Calls /\ Armed(c)
      BY <2>2, TimerFacts DEF TimerInv, DataOK
    <3>2. (\E x \in gos : x.c = c /\ x.f = "enter" /\ x.at = "start") =>
            \E x \in gos' : x.c = c /\ x.f = "enter" /\ x.at = "start"
      BY <1>0, <2>7
    <3>3. CASE c # g.c
      <4>1. Pending(c) => Pending(c)'
        BY <2>2, <2>7, <3>3 DEF Pending
      <4>2. call'[c] = call[c]
        BY <2>3, <3>1, <3>3
      <4>3. QED
        BY <3>1, <3>2, <4>1, <4>2 DEF Armed, Failed
    <3>4. CASE c = g.c
      <4>0. call'[c] = r
        BY <2>3, <3>1, <3>4
      <4>1. CASE waiting
        <5> HIDE DEF r
        <5> QED
          BY <2>1, <3>4, <4>0, <4>1 DEF Armed
      <4>2. CASE ~waiting
        <5>1. call'[c] = call[c] /\ call[c].state \in {"New", "Bridged", "Terminated"}
          BY <1>0, <3>4, <4>0, <4>2 DEF Call, States
        <5>2. CASE call[c].state = "New"
          <6>1. \E x \in gos' : x.c = c /\ x.f = "enter" /\ x.at = "start"
            BY <3>1, <3>2, <5>2 DEF Armed
          <6>2. QED
            BY <6>1 DEF Armed, Pending
        <5>3. CASE call[c].state # "New"
          <6>1. call[c].handled \/ call[c].reason # NoReason
            BY <1>0, <3>4, <5>1, <5>3 DEF StateMeans
          <6>2. QED
            BY <5>1, <5>3, <6>1 DEF Armed
        <5>4. QED
          BY <5>2, <5>3
      <4>3. QED
        BY <4>1, <4>2
    <3>5. QED
      BY <3>3, <3>4
  <2>9. \A x \in G : Ready(x)
    BY <2>6
  <2>10. QED
    <3> HIDE DEF G
    <3>1. gos' \subseteq gos \cup G
      BY <2>7
    <3>2. QED
      BY <2>4, <2>8, <2>9, <3>1, Steadily
<1>3. QED
  BY <1>1, <1>2 DEF TimeoutStep

\* reSetupCallForQueue, and the tail of terminateCall.
LEMMA ReSetupTimer ==
  ASSUME TimerInv, EndInv', NEW g \in gos, g.f # "enter", ReSetupStep(g) PROVE TimerInv'
<1> failed \subseteq failed'
  BY FailuresStay DEF Step
<1>0. /\ g \in Goroutine /\ g \in Sound /\ g.c \in Calls /\ g.copy \in Copy /\ InPlace(g) /\ Ends(g)
      /\ call[g.c] \in Call /\ StateMeans(g.c) /\ (g.f = "clientLeave" \/ ~Before(g.c))
      /\ g.f \in Handlers
  <2>1. g \in Goroutine /\ g \in Sound /\ InPlace(g) /\ Ends(g) /\ g.f \in Handlers
    BY TimerFacts DEF EndInv, Goroutine
  <2>2. g.at \in ReSetup
    BY DEF ReSetupStep, ResetCall, TearDown, Unmap, PublishRejected, ReSetup
  <2>3. g.f = "clientLeave" \/ ~Harmless(g)
    BY <2>1, <2>2 DEF InPlace, ReSetup, Harmless
  <2>4. QED
    BY <2>1, <2>3, Later, TimerFacts, SoundTypes
<1>1. /\ g.f \in {"offer", "bridge", "noAnswer", "clientLeave"}
      /\ g.f = "clientLeave" => g.at \in {"teardown", "unmap"}
  <2>1. g.at \in ReSetup
    BY DEF ReSetupStep, ResetCall, TearDown, Unmap, PublishRejected, ReSetup
  <2>2. QED
    BY <1>0, <2>1 DEF InPlace, ReSetup, Handlers, Ending
<1>2. ASSUME Goto(g, "rejected"), Steady, g.f # "clientLeave" PROVE TimerInv'
  BY <1>0, <1>1, <1>2, PlaceOf, GoesToStep DEF InPlace, ReSetup, Steps
<1>3. CASE ResetCall(g)
  <2> DEFINE r == [call[g.c] EXCEPT !.state = "InQueue", !.inDistribution = FALSE, !.user = NoUser,
                                    !.leg = NoLeg, !.bridge = FALSE, !.bridged = NoLeg]
             h == [g EXCEPT !.at = "teardown", !.copy = CopyOf(g.c)]
  <2>1. r.reason = call[g.c].reason /\ r.state = "InQueue" /\ r.handled = call[g.c].handled
    BY <1>0 DEF Call
  <2>2. call' = [call EXCEPT ![g.c] = r] /\ UNCHANGED <<calls, timers, clientCh, legCh, aid>>
    BY <1>3 DEF ResetCall, manager, asterisk, world
  <2>3. Steady
    <3> HIDE DEF r
    <3> QED
      BY <1>0, <2>1, <2>2, SteadyCall DEF StateMeans
  <2>4. h.f = g.f /\ h.at = "teardown" /\ h.c = g.c /\ g.f # "clientLeave"
    BY <1>0, <1>1, <1>3 DEF Goroutine, ResetCall
  <2>5. Ready(h)
    <3> HIDE DEF h
    <3> QED
      BY <1>0, <1>1, <2>4, TimerFacts DEF Ready, InPlace, ReSetup
  <2>6. Becomes(g, {h})
    BY <1>3 DEF ResetCall
  <2>7. QED
    <3> HIDE DEF h
    <3> QED
      BY <1>1, <2>3, <2>5, <2>6, MovesOn
<1>4. CASE TearDown(g)
  <2> DEFINE h == [g EXCEPT !.at = "unmap"]
  <2>1. PICK H \in SUBSET Legs : \E unanswered \in SUBSET DialFailures(H) :
          LegsGone(H) /\ Becomes(g, {h} \cup LegEndEvents(H) \cup unanswered)
    BY <1>4, TornDown DEF Becomes
  <2>2. Steady
    <3>1. UNCHANGED <<call, calls, timers, clientCh, aid>>
      BY <1>4 DEF TearDown, manager
    <3>2. QED
      BY <2>1, <3>1, SteadyHangup
  <2>3. h.f = g.f /\ h.at = "unmap" /\ h.c = g.c
    BY <1>0, PlaceOf DEF Steps
  <2>4. Ready(h)
    BY <1>1, <2>3, ReadyStep DEF InPlace, ReSetup, Ending, Steps
  <2>5. PICK unanswered \in SUBSET DialFailures(H) :
          Becomes(g, {h} \cup LegEndEvents(H) \cup unanswered)
    BY <2>1
  <2>6. \A x \in {h} \cup LegEndEvents(H) \cup unanswered : Ready(x)
    <3> HIDE DEF h
    <3> QED
      BY <1>0, <2>4, ReadyEvents
  <2>7. QED
    <3> HIDE DEF h
    <3> QED
      BY <1>1, <2>2, <2>5, <2>6, MovesOn
<1>5. CASE Unmap(g)
  <2>1. Steady
    BY <1>5, SteadySame DEF Unmap, asterisk, world
  <2>2. CASE g.f = "clientLeave"
    <3>1. Goto(g, "log")
      BY <1>5, <2>2 DEF Unmap
    <3>2. QED
      BY <1>0, <2>1, <2>2, <3>1, PlaceOf, GoesToStep DEF InPlace, Ending, Steps
  <2>3. CASE g.f # "clientLeave"
    BY <1>2, <1>5, <2>1, <2>3 DEF Unmap
  <2>4. QED
    BY <2>2, <2>3
<1>6. CASE PublishRejected(g)
  <2> DEFINE first == Message(g, "Rejected", g.copy.user)
             second == [Message(g, "Rejected", NoUser) EXCEPT !.f = "messageAgain"]
             more == IF g.f = "noAnswer" THEN {second} ELSE {}
  <2>0. ~Before(g.c)
    BY <1>0, <1>1, <1>6 DEF PublishRejected
  <2>1. Ready(first) /\ Ready(second)
    BY <1>0, <2>0, ReadyMessage DEF Messages, Copy
  <2>2. Steady
    BY <1>6, SteadySame DEF PublishRejected, manager, asterisk, world
  <2>3. Becomes(g, {first} \cup more)
    BY <1>6 DEF PublishRejected
  <2>4. \A x \in {first} \cup more : Ready(x)
    BY <2>1
  <2>5. QED
    <3> HIDE DEF first, more
    <3> QED
      BY <1>1, <2>2, <2>3, <2>4, MovesOn
<1>7. QED
  BY <1>3, <1>4, <1>5, <1>6 DEF ReSetupStep

\* onClientChannelLeave and terminateCall.
LEMMA ClientLeaveTimer ==
  ASSUME TimerInv, EndInv', NEW g \in gos, ClientLeaveStep(g) PROVE TimerInv'
<1> failed \subseteq failed'
  BY FailuresStay DEF Step
<1>0. /\ g \in Goroutine /\ g \in Sound /\ g.c \in Calls /\ g.f = "clientLeave" /\ g.f # "enter"
      /\ g.f # "timeout" /\ g.f # "offer" /\ clientCh[g.c] # "none"
      /\ call[g.c] \in Call /\ StateMeans(g.c)
  BY TimerFacts DEF ClientLeaveStep
<1>1. ASSUME NEW step \in {"lock", "remove"}, Goto(g, step) \/ Return(g), Steady PROVE TimerInv'
  BY <1>0, <1>1, PlaceOf, GoesToStep DEF InPlace, Ending, Steps
<1>2. CASE ClientLeft(g) \/ AlreadyTerminated(g) \/ LogOnTerminate(g) \/ LogOnTerminateFails(g)
  <2>1. Steady
    BY <1>2, SteadySame DEF ClientLeft, AlreadyTerminated, LogOnTerminate, LogOnTerminateFails,
                            manager, asterisk, world
  <2>2. QED
    BY <1>1, <1>2, <2>1 DEF ClientLeft, AlreadyTerminated, LogOnTerminate, LogOnTerminateFails
<1>3. CASE ReasonOfLeave(g)
  <2> DEFINE reason == IF call[g.c].state = "Bridged" THEN "Abandon" ELSE "ClientHangup"
             h == [g EXCEPT !.at = "terminate", !.arg = reason]
  <2>1. Steady
    BY <1>3, SteadySame DEF ReasonOfLeave, manager, asterisk, world
  <2>2. h.f = "clientLeave" /\ h.at = "terminate" /\ h.c = g.c
    BY <1>0 DEF Goroutine
  <2>3. Ready(h)
    <3> HIDE DEF h
    <3> QED
      BY <1>0, <2>2 DEF Ready, InPlace, Harmless
  <2>4. Becomes(g, {h})
    BY <1>3 DEF ReasonOfLeave
  <2>5. QED
    <3> HIDE DEF h
    <3> QED
      BY <1>0, <2>1, <2>3, <2>4, MovesOn
<1>4. CASE Terminate(g)
  <2> DEFINE reason == IF call[g.c].reason = NoReason THEN g.arg ELSE call[g.c].reason
             r == [call[g.c] EXCEPT !.state = "Terminated", !.reason = reason]
             h == [g EXCEPT !.at = "cancel", !.copy = CopyOf(g.c)]
  <2>1. reason # NoReason
    BY <1>0, <1>4 DEF Terminate, Sound, Reasons, NoReason
  <2>2. r.reason = reason /\ r.state = "Terminated" /\ r.handled = call[g.c].handled
    BY <1>0 DEF Call
  <2>3. call' = [call EXCEPT ![g.c] = r] /\ UNCHANGED <<calls, timers, clientCh, legCh, aid>>
    BY <1>4 DEF Terminate, manager, asterisk, world
  <2>4. Steady
    <3> HIDE DEF r, reason
    <3> QED
      BY <1>0, <2>1, <2>2, <2>3, SteadyCall
  <2>5. h.f = "clientLeave" /\ h.at = "cancel" /\ h.c = g.c
    BY <1>0 DEF Goroutine
  <2>6. Ready(h)
    <3> HIDE DEF h
    <3> QED
      BY <1>0, <2>5 DEF Ready, InPlace, Harmless, Ending
  <2>7. Becomes(g, {h})
    BY <1>4 DEF Terminate
  <2>8. QED
    <3> HIDE DEF h
    <3> QED
      BY <1>0, <2>4, <2>6, <2>7, MovesOn
<1>5. CASE RemoveCall(g)
  <2> DEFINE h == Message(g, "Terminated", g.copy.user)
  <2>1. g.copy.user \in Users \cup {NoUser}
    BY <1>0, SoundTypes DEF Copy
  <2>2. Ready(h)
    BY <2>1, ReadyMessage DEF Messages
  <2>3. Steady
    BY <1>5, SteadySame DEF RemoveCall, asterisk, world
  <2>4. Becomes(g, {h})
    BY <1>5 DEF RemoveCall
  <2>5. QED
    <3> HIDE DEF h
    <3> QED
      BY <1>0, <2>2, <2>3, <2>4, MovesOn
<1>6. QED
  BY <1>2, <1>3, <1>4, <1>5 DEF ClientLeaveStep

\* Cancelling, hanging up and publishing: a timeout is cancelled only for a call that
\* has a reason to end.
LEMMA SharedTimer ==
  ASSUME TimerInv, EndInv', NEW g \in gos,
         CancelTimer(g) \/ HangupClient(g) \/ HangupClientFails(g) \/ Send(g) \/ SendFails(g)
  PROVE  TimerInv'
<1> failed \subseteq failed'
  BY FailuresStay DEF Step
<1>0. /\ g \in Goroutine /\ g \in Sound /\ g.c \in Calls /\ InPlace(g) /\ Placed(g) /\ Ends(g)
      /\ g.f \in Handlers /\ call[g.c] \in Call /\ StateMeans(g.c)
  BY TimerFacts DEF EndInv, Goroutine
<1>1. CASE CancelTimer(g)
  <2>1. g.f \in {"timeout", "clientLeave"} /\ g.at = "cancel"
    BY <1>0, <1>1 DEF CancelTimer, InPlace, ReSetup, Handlers
  <2>2. call[g.c].reason # NoReason
    BY <1>0, <2>1 DEF Placed, Ends, Ending
  <2>3. timers' = timers \ {g.c} /\ UNCHANGED <<call, calls, clientCh, legCh, aid>>
    BY <1>1 DEF CancelTimer, manager, asterisk, world
  <2>4. Steady
    BY <1>0, <2>2, <2>3, TimerFacts DEF Steady, StateMeans
  <2>5. Goto(g, IF g.f = "timeout" THEN "hangup" ELSE "teardown")
    BY <1>1 DEF CancelTimer
  <2>6. CASE g.f = "timeout"
    BY <1>0, <2>1, <2>4, <2>5, <2>6, PlaceOf, GoesToStep DEF InPlace, Steps
  <2>7. CASE g.f = "clientLeave"
    BY <1>0, <2>1, <2>4, <2>5, <2>7, PlaceOf, GoesToStep DEF InPlace, Ending, Steps
  <2>8. QED
    BY <2>1, <2>6, <2>7
<1>2. CASE HangupClient(g)
  <2>1. g.f # "enter" /\ g.at = "hangup"
    BY <1>0, <1>2 DEF HangupClient, InPlace
  <2>2. UNCHANGED <<call, calls, timers, aid, legCh>> /\ ClientGone(g.c)
    BY <1>2 DEF HangupClient, manager, world
  <2>3. Steady
    BY <1>0, <2>2, SteadyHangup
  <2>4. Becomes(g, ClientEndEvent(g.c)) /\ \A h \in ClientEndEvent(g.c) : Ready(h)
    BY <1>0, <1>2, ReadyEvents DEF HangupClient
  <2>5. QED
    BY <2>1, <2>3, <2>4, MovesOn
<1>3. CASE Send(g)
  <2>1. g.f \in {"message", "messageAgain"} /\ g.at = "send" /\ g.arg \in Messages
    BY <1>0, <1>3 DEF Send, InPlace, ReSetup, Ending, Handlers, Sound
  <2>2. Before(g.c) => g.arg = "Terminated"
    BY <1>0, <2>1 DEF Placed, Harmless
  <2>3. /\ aid' = [aid EXCEPT ![g.c] = [state |-> g.arg, user |-> NamedUser(g)]]
        /\ UNCHANGED <<call, calls, timers, clientCh, legCh>>
    BY <1>3 DEF Send, manager, asterisk
  <2>4. /\ \A c \in Calls : c # g.c => aid'[c] = aid[c]
        /\ aid'[g.c].state = g.arg
    BY <1>0, <2>3, TimerFacts DEF DataOK
  <2>5. Steady
    BY <1>0, <2>2, <2>3, <2>4, TimerFacts DEF Steady, StateMeans
  <2>6. Becomes(g, {})
    BY <1>3 DEF Send, Return
  <2>7. QED
    BY <2>1, <2>5, <2>6, MovesOn
<1>4. CASE HangupClientFails(g) \/ SendFails(g)
  <2>1. g.at \in {"hangup", "send"} /\ GivesUp(g)
    BY <1>4, FailureGivesUp DEF HangupClientFails, SendFails
  <2>2. g.f # "enter"
    BY <1>0, <2>1 DEF InPlace
  <2>3. QED
    BY <2>1, <2>2, GivingUpTimer
<1>5. QED
  BY <1>1, <1>2, <1>3, <1>4

-----------------------------------------------------------------------------
(* The caller that enters, and the outside world. *)

\* A caller that enters is the first goroutine of its call.
LEMMA ClientEntersTimer ==
  ASSUME TimerInv, EndInv', NEW c \in Calls, ClientEnters(c) PROVE TimerInv'
<1> DEFINE h == Go("enter", "create", c)
<1>1. h.f = "enter" /\ h.at = "create" /\ h.c = c
  BY DEF Go
<1> HIDE DEF h
<1>2. /\ gos' = gos \cup {h} /\ clientCh[c] = "none"
      /\ UNCHANGED <<call, calls, timers, legCh, aid, failed>>
      /\ \A d \in Calls : clientCh'[d] = IF d = c THEN "stasis" ELSE clientCh[d]
  BY TimerFacts DEF ClientEnters, DataOK, manager, world, h
<1>3. \A g \in gos : g.c # c /\ g.c \in Calls
  BY <1>2, TimerFacts
<1>4. \A d \in Calls : Before(d)' => Before(d)
  BY <1>1, <1>2 DEF Before
<1>5. \A d \in Calls : Before(d)' => Fresh(d)'
  BY <1>2, <1>4 DEF TimerInv, Fresh
<1>6. Placed(h)'
  BY <1>1, <1>2 DEF Placed, InPlace
<1>7. \A g \in gos : Placed(g)'
  BY <1>2, <1>3, <1>4, TimerFacts DEF Placed, InPlace, Harmless
<1>8. OneEntry'
  BY <1>1, <1>2, <1>3 DEF OneEntry, TimerInv
<1>9. \A d \in Calls : StateMeans(d)'
  BY <1>2, TimerFacts DEF StateMeans
<1>10. \A d \in calls' : Armed(d)'
  <2>1. \A d \in calls : Armed(d) /\ (Failed("queue", d)' <=> Failed("queue", d))
    BY <1>2 DEF TimerInv, Failed
  <2>2. QED
    BY <1>2, <2>1 DEF Armed, Pending
<1>11. QED
  BY <1>2, <1>5, <1>6, <1>7, <1>8, <1>9, <1>10 DEF TimerInv

\* What happens in the outside world: AID offers, and agents answer, only when
\* queueProcessStart of the call is over.
LEMMA WorldTimer == ASSUME TimerInv, EndInv', World PROVE TimerInv'
<1> failed = failed'
  BY WorldFails
<1>1. ASSUME NEW c \in Calls, ClientEnters(c) PROVE TimerInv'
  BY <1>1, ClientEntersTimer
<1>2. ASSUME NEW c \in Calls, ClientHangsUp(c) PROVE TimerInv'
  <2> DEFINE G == ClientEndEvent(c)
  <2>1. Steady
    BY <1>2, SteadyHangup DEF ClientHangsUp, manager, world
  <2>2. gos' = gos \cup G /\ \A h \in G : Ready(h)
    BY <1>2, ReadyEvents DEF ClientHangsUp
  <2> HIDE DEF G
  <2>3. QED
    BY <2>1, <2>2, StaysArmed, Steadily
<1>3. ASSUME NEW c \in Calls, TimerFires(c) PROVE TimerInv'
  <2> DEFINE h == Go("timeout", "lookup", c)
             G == {h}
  <2>1. h.f = "timeout" /\ h.at = "lookup" /\ h.c = c
    BY DEF Go
  <2>2. /\ c \in timers /\ timers' = timers \ {c} /\ gos' = gos \cup {h}
        /\ UNCHANGED <<call, calls, clientCh, legCh, aid>>
    BY <1>3 DEF TimerFires, manager, asterisk, world
  <2> HIDE DEF h
  <2>3. Ready(h)
    BY <2>1, <2>2, TimerFacts DEF Ready, InPlace, Harmless, StateMeans
  <2>4. \A d \in calls' : Armed(d)'
    <3> SUFFICES ASSUME NEW d \in calls' PROVE Armed(d)'
      OBVIOUS
    <3>1. Armed(d)
      BY <2>2 DEF TimerInv
    <3>2. Pending(d) => Pending(d)'
      BY <2>1, <2>2 DEF Pending
    <3>3. QED
      BY <2>2, <3>1, <3>2 DEF Armed, Failed
  <2>5. \A d \in Calls : Before(d)' => Before(d)
    BY <2>1, <2>2 DEF Before
  <2>6. \A d \in Calls : Before(d)' => Fresh(d)'
    BY <2>2, <2>5 DEF TimerInv, Fresh
  <2>7. \A g \in gos' : Placed(g)'
    BY <2>1, <2>2, <2>3, <2>5, TimerFacts DEF Placed, Ready, InPlace, Harmless
  <2>8. OneEntry'
    BY <2>1, <2>2 DEF OneEntry, TimerInv
  <2>9. \A d \in Calls : StateMeans(d)'
    BY <2>2, TimerFacts DEF StateMeans
  <2>10. QED
    BY <2>4, <2>6, <2>7, <2>8, <2>9 DEF TimerInv
<1>4. ASSUME NEW l \in Legs, legCh[l] # "none" PROVE l[1] \in Calls /\ ~Before(l[1])
  <2>1. l[1] \in Calls
    BY DEF Legs
  <2>2. QED
    BY <1>4, <2>1 DEF TimerInv, Fresh
<1>5. ASSUME NEW l \in Legs, AgentAnswers(l) PROVE TimerInv'
  <2> DEFINE h == GoLeg("agentEnter", "lookup", l)
             G == {h}
  <2>1. h.f = "agentEnter" /\ h.at = "lookup" /\ h.c = l[1]
    BY DEF GoLeg, Go
  <2>2. /\ legCh[l] = "dialing" /\ gos' = gos \cup G
        /\ legCh' = [legCh EXCEPT ![l] = "stasis"]
        /\ UNCHANGED <<call, calls, timers, clientCh, aid>>
    BY <1>5 DEF AgentAnswers, manager, world
  <2>3. \A k \in Legs : legCh[k] = "none" => legCh'[k] = "none"
    BY <2>2, TimerFacts DEF DataOK
  <2>4. Steady
    BY <2>2, <2>3, TimerFacts DEF Steady, StateMeans
  <2>5. \A x \in G : Ready(x)
    <3>1. l[1] \in Calls /\ ~Before(l[1])
      BY <1>4, <2>2
    <3> HIDE DEF h
    <3>2. QED
      BY <2>1, <3>1 DEF Ready, InPlace, Before
  <2>6. QED
    <3> HIDE DEF G
    <3> QED
      BY <2>2, <2>4, <2>5, StaysArmed, Steadily
<1>6. ASSUME NEW l \in Legs, AgentFails(l) \/ AgentHangsUp(l) PROVE TimerInv'
  <2>1. LegsGone({l}) /\ UNCHANGED <<call, calls, timers, clientCh, aid>>
    BY <1>6 DEF AgentFails, AgentHangsUp, manager, world
  <2>2. Steady
    BY <2>1, SteadyHangup
  <2>3. PICK G : gos' = gos \cup G /\ (G = DialFailures({l}) \/ G = LegEndEvents({l}))
    BY <1>6 DEF AgentFails, AgentHangsUp
  <2>4. \A h \in G : Ready(h)
    <3>1. {l} \in SUBSET Legs /\ l[1] \in Calls
      BY DEF Legs
    <3>2. QED
      BY <2>3, <3>1, ReadyEvents
  <2>5. QED
    BY <2>2, <2>3, <2>4, StaysArmed, Steadily
<1>7. ASSUME NEW c \in Calls, NEW u \in Users, Distribute(c, u) PROVE TimerInv'
  <2> DEFINE h == [Go("offer", "lookup", c) EXCEPT !.user = u, !.n = offers[c] + 1]
             G == {h}
  <2>1. h.f = "offer" /\ h.at = "lookup" /\ h.c = c
    BY DEF Go
  <2>2. /\ aid[c].state \notin {NoReason, "Terminated"} /\ gos' = gos \cup G
        /\ UNCHANGED <<call, calls, timers, clientCh, legCh>>
        /\ aid' = [aid EXCEPT ![c].state = "Offered"]
    BY <1>7 DEF Distribute, manager, asterisk, NoReason
  <2>3. ~Before(c) /\ \A d \in Calls : d # c => aid'[d] = aid[d]
    BY <2>2, TimerFacts DEF TimerInv, Fresh, DataOK
  <2>4. Steady
    BY <2>2, <2>3, TimerFacts DEF Steady, StateMeans
  <2>5. \A x \in G : Ready(x)
    <3> HIDE DEF h
    <3> QED
      BY <2>1, <2>3 DEF Ready, InPlace, Before
  <2>6. QED
    <3> HIDE DEF G
    <3> QED
      BY <2>2, <2>4, <2>5, StaysArmed, Steadily
<1>8. QED
  BY <1>1, <1>2, <1>3, <1>5, <1>6, <1>7 DEF World

\* queueProcessStart of one call leaves the others armed.
LEMMA OthersArmed ==
  ASSUME TimerInv, NEW g \in gos, gos \ {g} \subseteq gos', timers \subseteq timers',
         failed \subseteq failed', NEW d \in calls, d # g.c, call'[d] = call[d]
  PROVE  Armed(d)'
<1>1. Armed(d)
  BY DEF TimerInv
<1>2. Pending(d) => Pending(d)'
  BY DEF Pending
<1>3. QED
  BY <1>1, <1>2 DEF Armed, Failed

\* A step inside queueProcessStart that leaves calls armed keeps the invariant.
LEMMA EntryMoves ==
  ASSUME TimerInv, EndInv', NEW g \in gos, g.f = "enter",
         NEW h, Becomes(g, {h}), h.f = "enter", h.c = g.c,
         h.at \in {"start", "schedule", "publish"},
         UNCHANGED <<clientCh, legCh, aid>>,
         \A c \in Calls : /\ call'[c].state = "Bridged" => call[c].state = "Bridged"
                          /\ call'[c].reason = call[c].reason
                          /\ StateMeans(c)',
         \A c \in calls' : Armed(c)'
  PROVE  TimerInv'
<1>1. gos' = (gos \ {g}) \cup {h} /\ g.c \in Calls /\ clientCh[g.c] # "none"
  BY TimerFacts DEF Becomes
<1>2. \A c \in Calls : Before(c)' => Before(c)
  BY <1>1 DEF Before
<1>3. \A c \in Calls : Before(c)' => Fresh(c)'
  BY <1>2 DEF TimerInv, Fresh
<1>4. Placed(h)'
  BY <1>1 DEF Placed, InPlace
<1>5. \A x \in gos : Placed(x)'
  BY <1>2, TimerFacts DEF Placed, InPlace, Harmless
<1>6. OneEntry'
  BY <1>1 DEF OneEntry, TimerInv
<1>7. QED
  BY <1>1, <1>3, <1>4, <1>5, <1>6 DEF TimerInv

\* queueProcessStart: the timeout is scheduled before AID is told of the call.
LEMMA EnterTimer ==
  ASSUME TimerInv, EndInv', NEW g \in gos,
         EnterStep(g) \/ (g.f = "enter" /\ ReSetupStep(g))
  PROVE  TimerInv'
<1> failed \subseteq failed'
  BY FailuresStay DEF Step
<1> \A c \in Calls : Failed("queue", c) => Failed("queue", c)'
  BY DEF Failed
<1>0. /\ g \in Goroutine /\ g.c \in Calls /\ g.f = "enter" /\ InPlace(g) /\ clientCh[g.c] # "none"
      /\ call[g.c] \in Call /\ StateMeans(g.c) /\ call[g.c].state # "Bridged"
  <2>1. g.f = "enter" /\ g.c \in Calls
    BY TimerFacts DEF EnterStep
  <2>2. call[g.c].state # "Bridged"
    BY <2>1 DEF TimerInv, Before, Fresh
  <2>3. QED
    BY <2>1, <2>2, TimerFacts
<1> DEFINE At(step) == [g EXCEPT !.at = step]
<1>1. \A step \in Steps : At(step).f = "enter" /\ At(step).at = step /\ At(step).c = g.c
  BY <1>0 DEF Goroutine
<1>2. \A c \in calls : c \in Calls /\ Armed(c)
  BY TimerFacts DEF DataOK, TimerInv
<1> HIDE DEF At
<1>3. CASE RejectSetup(g)
  <2> DEFINE G == ClientEndEvent(g.c)
  <2>1. Steady
    BY <1>0, <1>3, SteadyHangup DEF RejectSetup, manager, world
  <2>2. g.at = "create" /\ gos' = (gos \ {g}) \cup G /\ \A h \in G : Ready(h)
    BY <1>0, <1>3, ReadyEvents DEF RejectSetup, Becomes
  <2>3. UNCHANGED <<call, calls, timers>>
    BY <1>3 DEF RejectSetup, manager
  <2> HIDE DEF G
  <2>4. \A c \in calls' : Armed(c)'
    BY <1>2, <2>2, <2>3 DEF Armed, Pending
  <2>5. QED
    BY <2>1, <2>2, <2>4, Steadily
<1>4. CASE RegisterCall(g)
  <2> DEFINE h == At("start")
  <2>1. h.f = "enter" /\ h.at = "start" /\ h.c = g.c /\ Becomes(g, {h})
    BY <1>1, <1>4 DEF RegisterCall, Goto, Steps, At
  <2>2. calls' = calls \cup {g.c} /\ UNCHANGED <<call, timers, clientCh, legCh, aid>>
    BY <1>4 DEF RegisterCall, asterisk, world
  <2> HIDE DEF h
  <2>3. Armed(g.c)'
    BY <2>1 DEF Armed, Pending, Becomes
  <2>4. \A c \in calls' : Armed(c)'
    BY <2>1, <2>2, <2>3, OthersArmed DEF Becomes
  <2>5. QED
    BY <1>0, <2>1, <2>2, <2>4, TimerFacts, EntryMoves DEF StateMeans
<1>5. CASE QueueProcessStart(g)
  <2> DEFINE r == [call[g.c] EXCEPT !.state = "InQueue"]
             h == At("schedule")
  <2>1. r.reason = call[g.c].reason /\ r.state = "InQueue" /\ r.handled = call[g.c].handled
    BY <1>0 DEF Call
  <2>2. /\ call' = [call EXCEPT ![g.c] = r]
        /\ UNCHANGED <<calls, timers, clientCh, legCh, aid>>
    BY <1>5 DEF QueueProcessStart, manager, asterisk, world
  <2>3. h.f = "enter" /\ h.at = "schedule" /\ h.c = g.c /\ Becomes(g, {h})
    BY <1>1, <1>5 DEF QueueProcessStart, Goto, Steps, At
  <2> HIDE DEF r, h
  <2>4. \A c \in Calls : call'[c] = IF c = g.c THEN r ELSE call[c]
    BY <1>0, <2>2, TimerFacts DEF DataOK
  <2>5. Armed(g.c)'
    BY <1>0, <2>1, <2>3, <2>4 DEF Armed, Pending, Becomes
  <2>6. \A c \in calls' : Armed(c)'
    <3>1. \A c \in calls : c # g.c => call'[c] = call[c]
      BY <1>2, <2>4
    <3>2. QED
      BY <2>2, <2>3, <2>5, <3>1, OthersArmed DEF Becomes
  <2>7. \A c \in Calls : /\ call'[c].state = "Bridged" => call[c].state = "Bridged"
                         /\ call'[c].reason = call[c].reason
                         /\ StateMeans(c)'
    BY <1>0, <2>1, <2>2, <2>4, TimerFacts DEF StateMeans
  <2>8. QED
    BY <1>0, <2>2, <2>3, <2>6, <2>7, EntryMoves
<1>6. CASE ScheduleTimeout(g)
  <2>1. g.at = "schedule" /\ UNCHANGED <<call, calls, clientCh, legCh, aid>>
    BY <1>6 DEF ScheduleTimeout, manager, asterisk, world
  <2> DEFINE h == At("publish")
  <2>2. h.f = "enter" /\ h.at = "publish" /\ h.c = g.c /\ Becomes(g, {h})
    BY <1>1, <1>6 DEF ScheduleTimeout, Goto, Steps, At
  <2>3. timers' = timers \cup ({g.c} \cap TimedCalls)
    BY <1>6 DEF ScheduleTimeout
  <2> HIDE DEF h
  <2>4. g.c \in calls => Armed(g.c)'
    BY <1>2, <2>1, <2>2, <2>3 DEF Armed, Pending, Becomes
  <2>5. \A c \in calls' : Armed(c)'
    BY <2>1, <2>2, <2>3, <2>4, OthersArmed DEF Becomes
  <2>6. \A c \in Calls : StateMeans(c)'
    BY <1>0, <2>1, <2>3, TimerFacts DEF StateMeans
  <2>7. QED
    BY <1>0, <2>1, <2>2, <2>5, <2>6, EntryMoves
<1>7. CASE RejectSetupFails(g) \/ NoQueueToEnter(g) \/ PublishNewFails(g)
  <2>1. /\ gos' = gos \ {g} /\ UNCHANGED <<call, calls, timers, clientCh, legCh, aid>>
        /\ g.at \in {"create", "publish"} \/ (g.at = "schedule" /\ Failed("queue", g.c)')
    <3>1. GivesUp(g)
      BY <1>7, FailureGivesUp
    <3>2. g.at \in {"create", "publish"} \/ (g.at = "schedule" /\ Failed("queue", g.c)')
      BY <1>7 DEF RejectSetupFails, NoQueueToEnter, QueueNotFound, PublishNewFails, Fails, Failed
    <3>3. QED
      BY <3>1, <3>2 DEF GivesUp, Return, Becomes, manager, asterisk
  <2>2. Steady
    BY <2>1, SteadySame
  <2>3. g.c \in calls => Armed(g.c)'
    BY <1>2, <2>1 DEF Armed, Pending, Failed
  <2>4. \A c \in calls' : Armed(c)'
    BY <2>1, <2>3, OthersArmed
  <2> DEFINE G == {}
  <2>5. gos' \subseteq gos \cup G /\ \A h \in G : Ready(h)
    BY <2>1
  <2> HIDE DEF G
  <2>6. QED
    BY <2>2, <2>4, <2>5, Steadily
<1>8. CASE PublishNew(g)
  <2>1. /\ g.at = "publish" /\ gos' = gos \ {g}
        /\ UNCHANGED <<call, calls, timers, clientCh, legCh>>
        /\ aid' = [aid EXCEPT ![g.c] = [state |-> "New", user |-> NoUser]]
    BY <1>8 DEF PublishNew, Return, Becomes, manager, asterisk
  <2>2. \A c \in Calls : Before(c)' => Before(c) /\ c # g.c
    BY <1>0, <2>1 DEF Before, TimerInv, OneEntry
  <2>3. \A c \in Calls : c # g.c => aid'[c] = aid[c]
    BY <2>1, TimerFacts DEF DataOK
  <2>4. \A c \in Calls : Before(c)' => Fresh(c)'
    BY <2>1, <2>2, <2>3 DEF TimerInv, Fresh
  <2>5. \A x \in gos' : Placed(x)'
    BY <2>1, <2>2, TimerFacts DEF Placed, InPlace, Harmless
  <2>6. OneEntry'
    BY <2>1 DEF OneEntry, TimerInv
  <2>7. \A c \in Calls : StateMeans(c)'
    BY <2>1, TimerFacts DEF StateMeans
  <2>8. \A c \in calls' : Armed(c)'
    BY <1>2, <2>1 DEF Armed, Pending
  <2>9. QED
    BY <2>4, <2>5, <2>6, <2>7, <2>8 DEF TimerInv
<1>9. CASE ResetCall(g) \/ TearDown(g) \/ Unmap(g) \/ PublishRejected(g)
  BY <1>0, <1>9 DEF InPlace, ResetCall, TearDown, Unmap, PublishRejected
<1>10. QED
  BY <1>3, <1>4, <1>5, <1>6, <1>7, <1>8, <1>9 DEF EnterStep, ReSetupStep

-----------------------------------------------------------------------------
(* The theorems. *)

\* Nothing is in flight, timed or known to AID at the start.
LEMMA InitTimer == Init => TimerInv
<1> SUFFICES ASSUME Init PROVE TimerInv
  OBVIOUS
<1>1. EndInv
  BY InitHolds DEF Init, EndInv
<1>2. ASSUME NEW c \in Calls PROVE Fresh(c) /\ StateMeans(c)
  <2>1. call[c] = NewCall /\ aid[c] = [state |-> NoReason, user |-> NoUser] /\ timers = {}
    BY DEF Init
  <2>2. \A l \in Legs : legCh[l] = "none"
    BY DEF Init
  <2>3. QED
    BY <2>1, <2>2 DEF Fresh, StateMeans, NewCall
<1>3. gos = {} /\ calls = {}
  BY DEF Init
<1>4. QED
  BY <1>1, <1>2, <1>3 DEF TimerInv, OneEntry

\* No step leaves the invariant.
LEMMA TimerInductive == TimerInv /\ [Next]_vars => TimerInv'
<1> SUFFICES ASSUME TimerInv, [Next]_vars PROVE TimerInv'
  OBVIOUS
<1>0. EndInv'
  BY EndInductive DEF TimerInv
<1>1. CASE World
  BY <1>0, <1>1, WorldTimer
<1>2. ASSUME NEW g \in gos, Step(g) PROVE TimerInv'
  <2>1. CASE EnterStep(g) \/ (g.f = "enter" /\ ReSetupStep(g))
    BY <1>0, <1>2, <2>1, EnterTimer
  <2>2. CASE g.f # "enter" /\ ReSetupStep(g)
    BY <1>0, <1>2, <2>2, ReSetupTimer
  <2>3. QED
    BY <1>0, <1>2, <2>1, <2>2, OfferTimer, AgentEnterTimer, BridgeTimer, AgentLeaveTimer,
       ClientLeaveTimer, TimeoutTimer, SharedTimer DEF Step
<1>3. ASSUME UNCHANGED <<call, manager, timers, gos, asterisk, world>> PROVE TimerInv'
  <2> DEFINE G == {}
  <2>1. Steady
    BY <1>3, SteadySame DEF manager, asterisk, world
  <2>2. gos' \subseteq gos \cup G /\ (\A h \in G : Ready(h)) /\ gos \ gos' = {}
    BY <1>3
  <2> HIDE DEF G
  <2>3. QED
    BY <1>0, <2>1, <2>2, StaysArmed, Steadily
<1>4. QED
  BY <1>1, <1>2, <1>3 DEF Next, Engine, Panic, vars, manager, asterisk, world

\* In every behaviour a waiting call with a queue timeout that nobody has answered has
\* its timeout pending or has a reason to end, if its queue is found, whichever of its handlers were
\* interleaved before it became quiet (call.go:62-82, announce.go:327-346).
THEOREM WaitingIsTimed == Spec => []TimeoutArmed
<1>1. TimerInv => TimeoutArmed
  <2> SUFFICES ASSUME TimerInv, NEW c \in calls \cap TimedCalls, Quiet(c), ~call[c].handled,
                      call[c].reason = NoReason, ~Failed("queue", c)
               PROVE  c \in timers
    BY DEF TimeoutArmed
  <2>1. Pending(c)
    BY DEF TimerInv, Armed
  <2>2. QED
    BY <2>1 DEF Pending, Quiet
<1>2. QED
  BY <1>1, InitTimer, TimerInductive, PTL DEF Spec

\* In every behaviour no timeout is pending for a call that talks: the answer cancels
\* it, and no answer comes before it was scheduled (handlers.ari.go:103, call.go:72).
THEOREM TalkingIsNotTimed == Spec => []TalkingNotTimed
<1>1. TimerInv => TalkingNotTimed
  BY TimerFacts DEF TalkingNotTimed, StateMeans, DataOK
<1>2. QED
  BY <1>1, InitTimer, TimerInductive, PTL DEF Spec
=============================================================================

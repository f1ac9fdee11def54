-------------------------- MODULE CallAttempt_proofs --------------------------
(***************************************************************************)
(* Attempts to reach an agent, for every set of calls and agents and every *)
(* limit: OneLiveLeg, BridgedLegKept and AcceptedNamesAgent, as long as a  *)
(* failed Originate leaves no channel.  No lock is held for the length of  *)
(* an attempt; IsCallInDistribution is what keeps a second one out.  It is *)
(* a baton: a ringing leg, one goroutine, or the call that talks holds it, *)
(* and who holds it may give it back once, in reSetupCallForQueue.         *)
(***************************************************************************)
EXTENDS CallLifecycle_proofs

Sending == {"message", "messageAgain"}
Bridging == {"createBridge", "addClient", "addLeg", "outbound", "setvar", "accept"}

\* A goroutine that carries the attempt of its call on.
Carries(g) ==
  \/ g.f = "offer" /\ g.at \in {"map", "originate", "reset"}
  \/ g.f = "agentEnter"
  \/ g.f = "bridge" /\ g.at \in {"set", "reset"} \cup Bridging
  \/ g.f = "noAnswer" /\ g.at \in {"lookup", "reset"}
  \/ g.f \in Sending /\ g.arg = "Accepted"

\* The leg of the attempt that the call is in.
Current(l) == call[l[1]].inDistribution /\ call[l[1]].leg = l

Names(c) ==
  /\ call[c].inDistribution =>
       call[c].leg \in Legs /\ call[c].leg[1] = c /\ call[c].leg[2] = call[c].user
  /\ call[c].bridged # NoLeg => call[c].inDistribution /\ call[c].bridged = call[c].leg

Rung(l) ==
  /\ legCh[l] = "dialing" => Current(l) /\ \A g \in gos : Carries(g) => g.c # l[1]
  /\ legCh[l] = "stasis" => Current(l) \/ Doomed(l)

Carried(g) ==
  /\ g.leg \in Legs /\ g.leg[1] = g.c /\ Current(g.leg)
  /\ \A h \in gos : Carries(h) /\ h.c = g.c => h = g
  /\ (g.f = "bridge" /\ g.at \in Bridging) \/ g.f \in Sending => call[g.c].bridged = g.leg
  /\ g.f \in Sending => g.user = g.leg[2]

AttemptInv ==
  /\ TimerInv
  /\ \A c \in Calls : Names(c)
  /\ \A l \in Legs : Rung(l)
  /\ \A g \in gos : Carries(g) => Carried(g)

-----------------------------------------------------------------------------
(* Steps that begin and end no attempt. *)

\* The calls stay in the attempts they are in.
SameAttempts ==
  \A c \in Calls : /\ call'[c].inDistribution = call[c].inDistribution
                   /\ call'[c].leg = call[c].leg
                   /\ Names(c)'

\* A carrier that a step starts or goes on with.
Carrier(h) ==
  /\ h \in gos' /\ Carried(h)'
  /\ \A l \in Legs : l[1] = h.c => legCh'[l] # "dialing"

\* What is given up is gone, or known to have outlived the request.
HungUp(g) ==
  g.at = "teardown" =>
    \A l \in Legs \cap {g.copy.leg, g.copy.bridged} : legCh'[l] = "stasis" => l \in kept'

\* A step within the attempts of its calls keeps the invariant.
LEMMA Within ==
  ASSUME AttemptInv, TimerInv', SameAttempts, kept \subseteq kept',
         \A l \in Legs : /\ legCh'[l] = "dialing" => legCh[l] = "dialing"
                         /\ legCh'[l] = "stasis" => legCh[l] \in {"dialing", "stasis"},
         \A h \in gos \ gos' : HungUp(h),
         \A h \in gos' \ gos : Carries(h) => Carrier(h),
         \A h \in gos \cap gos' : Carries(h) => Carrier(h) \/ call'[h.c].bridged = call[h.c].bridged
  PROVE  AttemptInv'
<1>1. \A l \in Legs : l[1] \in Calls
  BY DEF Legs
<1>2. \A l \in Legs : Current(l)' <=> Current(l)
  BY <1>1 DEF Current, SameAttempts
<1>3. ASSUME NEW l \in Legs PROVE Rung(l)'
  <2>1. CASE legCh'[l] = "dialing"
    <3>1. Current(l)' /\ \A g \in gos : Carries(g) => g.c # l[1]
      BY <1>2, <2>1 DEF AttemptInv, Rung
    <3>2. \A g \in gos' \ gos : Carries(g) => g.c # l[1]
      BY <2>1 DEF Carrier
    <3>3. QED
      BY <2>1, <3>1, <3>2 DEF Rung
  <2>2. CASE legCh'[l] = "stasis"
    <3>1. Current(l) \/ Doomed(l)
      BY <2>2 DEF AttemptInv, Rung
    <3>2. Doomed(l) => Doomed(l)'
      BY <2>2 DEF Doomed, HungUp
    <3>3. QED
      BY <1>2, <2>2, <3>1, <3>2 DEF Rung
  <2>3. QED
    BY <2>1, <2>2 DEF Rung
<1>4. ASSUME NEW h \in gos', Carries(h) PROVE Carried(h)'
  <2>1. CASE h \in gos' \ gos \/ Carrier(h)
    BY <1>4, <2>1 DEF Carrier
  <2>2. CASE h \in gos /\ ~Carrier(h)
    <3>1. Carried(h)
      BY <1>4, <2>2 DEF AttemptInv
    <3>2. \A k \in gos' : Carries(k) /\ k.c = h.c => k = h
      <4> SUFFICES ASSUME NEW k \in gos', Carries(k), k.c = h.c PROVE k = h
        OBVIOUS
      <4>1. CASE k \in gos
        BY <3>1, <4>1 DEF Carried
      <4>2. CASE k \in gos' \ gos
        BY <1>4, <4>2 DEF Carrier, Carried
      <4>3. QED
        BY <4>1, <4>2
    <3>3. QED
      BY <1>2, <1>4, <2>2, <3>1, <3>2 DEF Carried
  <2>3. QED
    BY <2>1, <2>2
<1>5. QED
  BY <1>3, <1>4 DEF AttemptInv, SameAttempts

\* No leg rings for the call of a carrier.
LEMMA NoneRings ==
  ASSUME AttemptInv, NEW g \in gos, Carries(g)
  PROVE  Carried(g) /\ \A l \in Legs : l[1] = g.c => legCh[l] # "dialing"
BY DEF AttemptInv, Rung

\* The goroutines of a step that neither starts nor goes on with a carrier.
LEMMA Aside ==
  ASSUME AttemptInv, TimerInv', SameAttempts, kept \subseteq kept',
         \A l \in Legs : legCh'[l] \in {legCh[l], "gone"},
         NEW g \in gos, NEW G, Becomes(g, G), g.at # "teardown", \A h \in G : ~Carries(h),
         \A h \in gos \cap gos' : Carries(h) => call'[h.c].bridged = call[h.c].bridged
  PROVE  AttemptInv'
<1>1. \A h \in gos \ gos' : HungUp(h)
  BY DEF Becomes, HungUp
<1>2. \A h \in gos' \ gos : Carries(h) => Carrier(h)
  BY DEF Becomes
<1>3. \A l \in Legs : /\ legCh'[l] = "dialing" => legCh[l] = "dialing"
                      /\ legCh'[l] = "stasis" => legCh[l] \in {"dialing", "stasis"}
  OBVIOUS
<1>4. QED
  BY <1>1, <1>2, <1>3, Within

\* A carrier that goes on as the carrier h, next to goroutines that carry nothing.
LEMMA Onward ==
  ASSUME AttemptInv, TimerInv', SameAttempts, kept \subseteq kept',
         \A l \in Legs : legCh'[l] \in {legCh[l], "gone"},
         NEW g \in gos, Carries(g), g.at # "teardown", NEW h, NEW G, Becomes(g, {h} \cup G),
         \A k \in G : ~Carries(k),
         h.c = g.c, h.leg = g.leg,
         (h.f = "bridge" /\ h.at \in Bridging) \/ h.f \in Sending => call'[g.c].bridged = g.leg,
         h.f \in Sending => h.user = g.leg[2],
         \A k \in gos : k # g /\ Carries(k) => call'[k.c].bridged = call[k.c].bridged
  PROVE  AttemptInv'
<1>1. Carried(g) /\ \A l \in Legs : l[1] = g.c => legCh[l] # "dialing"
  BY NoneRings
<1>2. g.c \in Calls /\ g.leg \in Legs /\ g.leg[1] = g.c
  BY <1>1 DEF Carried, Legs
<1>3. Current(g.leg)'
  BY <1>1, <1>2 DEF Carried, Current, SameAttempts
<1>4. gos' = (gos \ {g}) \cup ({h} \cup G)
  BY DEF Becomes
<1>5. \A k \in gos' : Carries(k) /\ k.c = g.c => k = h
  BY <1>1, <1>4 DEF Carried
<1>6. Carried(h)'
  BY <1>2, <1>3, <1>5 DEF Carried
<1>7. Carrier(h)
  BY <1>1, <1>4, <1>6 DEF Carrier
<1>8. \A k \in gos' \ gos : Carries(k) => Carrier(k)
  BY <1>4, <1>7
<1>9. \A k \in gos \ gos' : HungUp(k)
  BY <1>4 DEF HungUp
<1>10. \A l \in Legs : /\ legCh'[l] = "dialing" => legCh[l] = "dialing"
                       /\ legCh'[l] = "stasis" => legCh[l] \in {"dialing", "stasis"}
  OBVIOUS
<1>11. \A k \in gos \cap gos' : Carries(k) => Carrier(k) \/ call'[k.c].bridged = call[k.c].bridged
  BY <1>4, <1>7
<1>12. QED
  BY <1>8, <1>9, <1>10, <1>11, Within

\* What the calls and goroutines before the step have.
LEMMA AttemptFacts ==
  ASSUME AttemptInv
  PROVE  /\ DataOK /\ TimerInv
         /\ \A c \in Calls : Names(c) /\ call[c] \in Call
         /\ \A g \in gos : g \in Goroutine /\ g.c \in Calls /\ g \in Sound /\ InPlace(g)
BY TimerFacts DEF AttemptInv

\* A step that changes no call, or of one call neither the attempt nor the bridged leg.
LEMMA SameCall ==
  ASSUME AttemptInv,
         call' = call \/ \E c \in Calls, r \in Call :
           /\ call' = [call EXCEPT ![c] = r]
           /\ r.inDistribution = call[c].inDistribution /\ r.leg = call[c].leg
           /\ r.user = call[c].user /\ r.bridged = call[c].bridged
  PROVE  /\ SameAttempts
         /\ \A c \in Calls : call'[c].bridged = call[c].bridged
         /\ \A h \in gos : call'[h.c].bridged = call[h.c].bridged
<1>1. \A c \in Calls : /\ call'[c].inDistribution = call[c].inDistribution
                       /\ call'[c].leg = call[c].leg /\ call'[c].user = call[c].user
                       /\ call'[c].bridged = call[c].bridged
  BY AttemptFacts DEF DataOK
<1>2. QED
  BY <1>1, AttemptFacts DEF SameAttempts, Names

\* Legs that are hung up, or not, fade.
LEMMA Fades == ASSUME legCh' = legCh \/ \E H : LegsGone(H) PROVE \A l \in Legs : legCh'[l] \in {legCh[l], "gone"}
BY DEF LegsGone

\* Events that carry nothing.
LEMMA EventsAside ==
  ASSUME NEW c, NEW H
  PROVE  \A h \in ClientEndEvent(c) \cup LegEndEvents(H) : ~Carries(h)
<1>1. \A h \in ClientEndEvent(c) : h.f = "clientLeave"
  BY DEF ClientEndEvent, Go
<1>2. \A h \in LegEndEvents(H) : h.f = "agentLeave"
  BY DEF LegEndEvents, GoLeg, Go
<1>3. QED
  BY <1>1, <1>2 DEF Carries, Sending

\* A goroutine that goes on at another step.
LEMMA Moved ==
  ASSUME NEW g \in Goroutine, NEW step \in Steps
  PROVE  LET h == [g EXCEPT !.at = step] IN
         h.at = step /\ h.f = g.f /\ h.c = g.c /\ h.leg = g.leg /\ h.arg = g.arg /\ h.user = g.user
BY DEF Goroutine

\* A goroutine that goes on at another step, or returns, carries on only what it
\* carried.
LEMMA CarriesOn ==
  ASSUME AttemptInv, TimerInv', SameAttempts, kept \subseteq kept',
         \A l \in Legs : legCh'[l] \in {legCh[l], "gone"},
         NEW g \in gos, g.at # "teardown", NEW step \in Steps, Goto(g, step) \/ Return(g),
         \A k \in gos : k # g /\ Carries(k) => call'[k.c].bridged = call[k.c].bridged,
         Goto(g, step) /\ Carries([g EXCEPT !.at = step]) =>
           /\ Carries(g)
           /\ (g.f = "bridge" /\ step \in Bridging) \/ g.f \in Sending => call'[g.c].bridged = g.leg
  PROVE  AttemptInv'
<1>0. PICK h : h = [g EXCEPT !.at = step]
  OBVIOUS
<1>1. g \in Goroutine
  BY AttemptFacts
<1>2. h.at = step /\ h.f = g.f /\ h.c = g.c /\ h.leg = g.leg /\ h.user = g.user
  BY <1>0, <1>1, Moved
<1>3. CASE Goto(g, step) /\ Carries(h)
  <2>1. Carries(g) /\ ((g.f = "bridge" /\ step \in Bridging) \/ g.f \in Sending => call'[g.c].bridged = g.leg)
    BY <1>0, <1>3
  <2>2. Carried(g)
    BY <2>1 DEF AttemptInv
  <2>3. h.f \in Sending => h.user = g.leg[2]
    BY <1>2, <2>2 DEF Carried
  <2>4. (h.f = "bridge" /\ h.at \in Bridging) \/ h.f \in Sending => call'[g.c].bridged = g.leg
    BY <1>2, <2>1
  <2>5. PICK G : G = {}
    OBVIOUS
  <2>6. Becomes(g, {h} \cup G) /\ \A k \in G : ~Carries(k)
    BY <1>0, <1>3, <2>5 DEF Goto, Becomes
  <2>7. h.c = g.c /\ h.leg = g.leg
    BY <1>2
  <2>8. QED
    BY <2>1, <2>3, <2>4, <2>6, <2>7, Onward
<1>4. CASE Goto(g, step) /\ ~Carries(h)
  <2>1. Becomes(g, {h}) /\ \A k \in {h} : ~Carries(k)
    BY <1>0, <1>4 DEF Goto
  <2>2. \A k \in gos \cap gos' : Carries(k) => call'[k.c].bridged = call[k.c].bridged
    BY <1>4, <2>1 DEF Becomes
  <2>3. QED
    BY <2>1, <2>2, Aside
<1>5. CASE Return(g)
  <2>1. Becomes(g, {}) /\ \A k \in {} : ~Carries(k)
    BY <1>5 DEF Return
  <2>2. \A k \in gos \cap gos' : Carries(k) => call'[k.c].bridged = call[k.c].bridged
    BY <1>5, <2>1 DEF Becomes
  <2>3. QED
    BY <2>1, <2>2, Aside
<1>6. Goto(g, step) \/ Return(g)
  OBVIOUS
<1>7. QED
  BY <1>3, <1>4, <1>5, <1>6

\* A message carries the attempt only if it is Accepted.
LEMMA MessageAside ==
  ASSUME NEW g \in Goroutine, NEW state \in Messages, NEW user \in Users \cup {NoUser}
  PROVE  LET m == Message(g, state, user) IN
         /\ m.f = "message" /\ m.at = "send" /\ m.c = g.c /\ m.leg = g.leg /\ m.arg = state /\ m.user = user
         /\ state # "Accepted" => ~Carries(m)
         /\ state # "Accepted" => ~Carries([m EXCEPT !.f = "messageAgain"])
<1> DEFINE m == Message(g, state, user)
           n == [m EXCEPT !.f = "messageAgain"]
<1>1. /\ m.f = "message" /\ m.at = "send" /\ m.c = g.c /\ m.leg = g.leg /\ m.arg = state /\ m.user = user
      /\ n.f = "messageAgain" /\ n.arg = state
  BY DEF Message, Goroutine
<1> HIDE DEF m, n
<1>2. state # "Accepted" => ~Carries(m) /\ ~Carries(n)
  BY <1>1 DEF Carries, Sending
<1>3. QED
  BY <1>1, <1>2 DEF m, n

\* A goroutine that gives up on an error begins and ends no attempt.
LEMMA GivingUpAttempt ==
  ASSUME AttemptInv, TimerInv', NEW g \in gos, g.at # "teardown", GivesUp(g)
  PROVE  AttemptInv'
<1>1. PICK G : G = {}
  OBVIOUS
<1>2. Becomes(g, G) /\ \A k \in G : ~Carries(k)
  BY <1>1 DEF GivesUp, Return
<1>3. kept \subseteq kept' /\ call' = call /\ legCh' = legCh
  BY DEF GivesUp, asterisk
<1>4. QED
  BY <1>2, <1>3, SameCall, Fades, Aside

-----------------------------------------------------------------------------
(* The outside world. *)

\* A leg that rings hands the attempt to the goroutine that its answer or failure starts.
LEMMA Handed ==
  ASSUME AttemptInv, SameAttempts, NEW l \in Legs, legCh[l] = "dialing", legCh'[l] # "dialing",
         \A k \in Legs : legCh'[k] = "dialing" => legCh[k] = "dialing",
         NEW f \in {"agentEnter", "noAnswer"}, NEW h, h = GoLeg(f, "lookup", l), h \in gos',
         \A k \in gos' \ gos : Carries(k) => \E d \in Legs : legCh[d] = "dialing" /\ k = GoLeg(f, "lookup", d)
  PROVE  Carrier(h)
<1>1. h.f = f /\ h.c = l[1] /\ h.leg = l /\ l[1] \in Calls
  BY DEF GoLeg, Go, Legs
<1>2. Current(l) /\ \A g \in gos : Carries(g) => g.c # l[1]
  BY DEF AttemptInv, Rung
<1>3. \A d \in Legs : legCh[d] = "dialing" /\ d[1] = l[1] => d = l
  BY <1>2 DEF AttemptInv, Rung, Current
<1>4. ASSUME NEW k \in gos', Carries(k), k.c = l[1] PROVE k = h
  <2>1. k \in gos' \ gos
    BY <1>2, <1>4
  <2>2. PICK d \in Legs : legCh[d] = "dialing" /\ k = GoLeg(f, "lookup", d)
    BY <1>4, <2>1
  <2>3. k.c = d[1]
    BY <2>2 DEF GoLeg, Go
  <2>4. QED
    BY <1>3, <1>4, <2>2, <2>3
<1>5. Current(l)'
  BY <1>1, <1>2 DEF Current, SameAttempts
<1>6. Carried(h)'
  BY <1>1, <1>4, <1>5 DEF Carried, Sending
<1>7. \A d \in Legs : d[1] = h.c => legCh'[d] # "dialing"
  BY <1>1, <1>3
<1>8. QED
  BY <1>6, <1>7 DEF Carrier

\* What happens in the outside world begins and ends no attempt.
LEMMA WorldAttempt == ASSUME AttemptInv, TimerInv', World PROVE AttemptInv'
<1> kept \subseteq kept'
  BY WorldFails
<1>0. DataOK
  BY AttemptFacts
<1>1. ASSUME call' = call, legCh' = legCh \/ \E H : LegsGone(H), NEW G, gos' = gos \cup G,
             \A h \in G : ~Carries(h)
      PROVE  AttemptInv'
  <2>1. SameAttempts /\ \A h \in gos : call'[h.c].bridged = call[h.c].bridged
    BY <1>1, SameCall
  <2>2. \A l \in Legs : legCh'[l] \in {legCh[l], "gone"}
    BY <1>1, Fades
  <2>3. QED
    BY <1>1, <2>1, <2>2, Within
<1>2. ASSUME NEW c \in Calls, ClientEnters(c) PROVE AttemptInv'
  <2> DEFINE G == {Go("enter", "create", c)}
  <2>1. \A h \in G : ~Carries(h)
    BY DEF Go, Carries, Sending
  <2>2. gos' = gos \cup G /\ call' = call /\ legCh' = legCh
    BY <1>2 DEF ClientEnters
  <2> HIDE DEF G
  <2>3. QED
    BY <1>1, <2>1, <2>2
<1>3. ASSUME NEW c \in Calls, ClientHangsUp(c) PROVE AttemptInv'
  <2>1. \A h \in ClientEndEvent(c) : ~Carries(h)
    BY EventsAside
  <2>2. QED
    BY <1>1, <1>3, <2>1 DEF ClientHangsUp
<1>4. ASSUME NEW c \in Calls, TimerFires(c) PROVE AttemptInv'
  <2> DEFINE G == {Go("timeout", "lookup", c)}
  <2>1. \A h \in G : ~Carries(h)
    BY DEF Go, Carries, Sending
  <2>2. gos' = gos \cup G /\ call' = call /\ legCh' = legCh
    BY <1>4 DEF TimerFires, asterisk
  <2> HIDE DEF G
  <2>3. QED
    BY <1>1, <2>1, <2>2
<1>5. ASSUME NEW c \in Calls, NEW u \in Users, Distribute(c, u) PROVE AttemptInv'
  <2> DEFINE G == {[Go("offer", "lookup", c) EXCEPT !.user = u, !.n = offers[c] + 1]}
  <2>1. \A h \in G : ~Carries(h)
    BY DEF Go, Carries, Sending
  <2>2. gos' = gos \cup G /\ call' = call /\ legCh' = legCh
    BY <1>5 DEF Distribute, asterisk
  <2> HIDE DEF G
  <2>3. QED
    BY <1>1, <2>1, <2>2
<1>6. ASSUME NEW l \in Legs, AgentHangsUp(l) PROVE AttemptInv'
  <2>1. \A h \in LegEndEvents({l}) : ~Carries(h)
    BY EventsAside
  <2>2. QED
    BY <1>1, <1>6, <2>1 DEF AgentHangsUp
<1>7. ASSUME NEW l \in Legs, NEW f \in {"agentEnter", "noAnswer"},
             gos' = gos \cup {GoLeg(f, "lookup", l)}, call' = call, legCh[l] = "dialing",
             legCh'[l] # "dialing", \A k \in Legs : k # l => legCh'[k] = legCh[k]
      PROVE  AttemptInv'
  <2> DEFINE h == GoLeg(f, "lookup", l)
  <2>1. SameAttempts /\ \A k \in gos : call'[k.c].bridged = call[k.c].bridged
    BY <1>7, SameCall
  <2>2. Carrier(h)
    BY <1>7, <2>1, Handed
  <2>3. \A k \in Legs : /\ legCh'[k] = "dialing" => legCh[k] = "dialing"
                        /\ legCh'[k] = "stasis" => legCh[k] \in {"dialing", "stasis"}
    BY <1>7
  <2> HIDE DEF h
  <2>4. \A k \in gos' \ gos : k = h
    BY <1>7 DEF h
  <2>5. QED
    BY <1>7, <2>1, <2>2, <2>3, <2>4, Within
<1>8. ASSUME NEW l \in Legs, AgentAnswers(l) PROVE AttemptInv'
  BY <1>0, <1>7, <1>8 DEF AgentAnswers, DataOK
<1>9. ASSUME NEW l \in Legs, AgentFails(l) PROVE AttemptInv'
  <2>1. DialFailures({l}) = {GoLeg("noAnswer", "lookup", l)}
    BY <1>9 DEF AgentFails, DialFailures
  <2>2. QED
    BY <1>0, <1>7, <1>9, <2>1 DEF AgentFails, LegsGone, DataOK
<1>10. QED
  BY <1>2, <1>3, <1>4, <1>5, <1>6, <1>8, <1>9 DEF World

-----------------------------------------------------------------------------
(* Handlers that begin and end no attempt. *)

\* A step of the engine that changes no attempt and no leg.
LEMMA Plainly ==
  ASSUME AttemptInv, TimerInv', SameAttempts, kept \subseteq kept', legCh' = legCh,
         \A h \in gos : call'[h.c].bridged = call[h.c].bridged,
         NEW g \in gos, g.at # "teardown", NEW step \in Steps, Goto(g, step) \/ Return(g),
         Goto(g, step) /\ Carries([g EXCEPT !.at = step]) =>
           Carries(g) /\ (g.f = "bridge" /\ step \in Bridging => g.at \in Bridging)
  PROVE  AttemptInv'
<1>1. \A l \in Legs : legCh'[l] \in {legCh[l], "gone"}
  BY Fades
<1>2. ASSUME Goto(g, step), Carries([g EXCEPT !.at = step])
      PROVE  (g.f = "bridge" /\ step \in Bridging) \/ g.f \in Sending => call'[g.c].bridged = g.leg
  <2>1. Carries(g) /\ Carried(g)
    BY <1>2 DEF AttemptInv
  <2>2. QED
    BY <1>2, <2>1 DEF Carried
<1>3. QED
  BY <1>1, <1>2, CarriesOn

\* The same for a goroutine whose handler carries nothing at step.
LEMMA PlainlyAside ==
  ASSUME AttemptInv, TimerInv', SameAttempts, kept \subseteq kept', legCh' = legCh,
         \A h \in gos : call'[h.c].bridged = call[h.c].bridged,
         NEW g \in gos, g.at # "teardown", NEW step \in Steps, Goto(g, step) \/ Return(g),
         \/ g.f \in {"enter", "agentLeave", "clientLeave", "timeout"}
         \/ g.f = "offer" /\ step \notin {"map", "originate", "reset"}
         \/ g.f = "bridge" /\ step \notin {"set", "reset"} \cup Bridging
         \/ g.f = "noAnswer" /\ step \notin {"lookup", "reset"}
  PROVE  AttemptInv'
<1>1. g \in Goroutine
  BY AttemptFacts
<1>2. ~Carries([g EXCEPT !.at = step])
  BY <1>1, Moved DEF Carries, Sending
<1>3. QED
  BY <1>2, Plainly

\* A caller that enters.
LEMMA EnterAttempt ==
  ASSUME AttemptInv, TimerInv', NEW g \in gos, EnterStep(g) PROVE AttemptInv'
<1> kept \subseteq kept'
  BY FailuresStay DEF Step
<1>0. g.f = "enter" /\ g.c \in Calls /\ call[g.c] \in Call /\ g.at \notin {"teardown"}
  BY AttemptFacts DEF EnterStep, InPlace
<1>1. ASSUME NEW step \in Steps, Goto(g, step) \/ Return(g), call' = call, legCh' = legCh
      PROVE  AttemptInv'
  BY <1>0, <1>1, SameCall, PlainlyAside
<1>2. CASE RejectSetup(g)
  <2>1. \A h \in ClientEndEvent(g.c) : ~Carries(h)
    BY EventsAside
  <2>2. QED
    BY <1>0, <1>2, <2>1, SameCall, Fades, Aside DEF RejectSetup
<1>3. CASE RegisterCall(g)
  BY <1>1, <1>3 DEF RegisterCall, asterisk, Steps
<1>4. CASE QueueProcessStart(g)
  <2> DEFINE r == [call[g.c] EXCEPT !.state = "InQueue"]
  <2>1. /\ r \in Call
        /\ r.inDistribution = call[g.c].inDistribution /\ r.leg = call[g.c].leg
        /\ r.user = call[g.c].user /\ r.bridged = call[g.c].bridged
    BY <1>0 DEF Call, States
  <2>2. call' = [call EXCEPT ![g.c] = r]
    BY <1>4 DEF QueueProcessStart
  <2>3. SameAttempts /\ \A h \in gos : call'[h.c].bridged = call[h.c].bridged
    <3> HIDE DEF r
    <3> QED
      BY <1>0, <2>1, <2>2, SameCall
  <2>4. QED
    BY <1>0, <1>4, <2>3, PlainlyAside DEF QueueProcessStart, asterisk, Steps
<1>5. CASE ScheduleTimeout(g)
  BY <1>1, <1>5 DEF ScheduleTimeout, asterisk, Steps
<1>6. CASE PublishNew(g)
  BY <1>1, <1>6 DEF PublishNew, asterisk, Steps
<1>7. CASE RejectSetupFails(g) \/ NoQueueToEnter(g) \/ PublishNewFails(g)
  BY <1>0, <1>7, FailureGivesUp, GivingUpAttempt
<1>8. QED
  BY <1>2, <1>3, <1>4, <1>5, <1>6, <1>7 DEF EnterStep

\* A queue timeout.
LEMMA TimeoutAttempt ==
  ASSUME AttemptInv, TimerInv', NEW g \in gos, TimeoutStep(g) PROVE AttemptInv'
<1> kept \subseteq kept'
  BY FailuresStay DEF Step
<1>0. g.f = "timeout" /\ g.c \in Calls /\ call[g.c] \in Call /\ g.at # "teardown"
  BY AttemptFacts DEF TimeoutStep, InPlace
<1>1. CASE TimeoutLookup(g)
  BY <1>0, <1>1, SameCall, PlainlyAside DEF TimeoutLookup, asterisk, Steps
<1>2. CASE TimeoutReached(g)
  <2> DEFINE r == IF call[g.c].state = "InQueue"
                  THEN WithReason(call[g.c], "QueueWaitTimeReached") ELSE call[g.c]
  <2>1. /\ r \in Call
        /\ r.inDistribution = call[g.c].inDistribution /\ r.leg = call[g.c].leg
        /\ r.user = call[g.c].user /\ r.bridged = call[g.c].bridged
    BY <1>0 DEF Call, WithReason, Reasons
  <2>2. call' = [call EXCEPT ![g.c] = r]
    BY <1>2 DEF TimeoutReached
  <2>3. SameAttempts /\ \A h \in gos : call'[h.c].bridged = call[h.c].bridged
    <3> HIDE DEF r
    <3> QED
      BY <1>0, <2>1, <2>2, SameCall
  <2>4. QED
    BY <1>0, <1>2, <2>3, PlainlyAside DEF TimeoutReached, asterisk, Steps
<1>3. QED
  BY <1>1, <1>2 DEF TimeoutStep

\* A caller that leaves.
LEMMA ClientLeaveAttempt ==
  ASSUME AttemptInv, TimerInv', NEW g \in gos, ClientLeaveStep(g) PROVE AttemptInv'
<1> kept \subseteq kept'
  BY FailuresStay DEF Step
<1>0. /\ g.f = "clientLeave" /\ g.c \in Calls /\ call[g.c] \in Call
      /\ g \in Goroutine /\ g \in Sound
  BY AttemptFacts DEF ClientLeaveStep
<1>1. CASE ClientLeft(g)
  BY <1>0, <1>1, SameCall, PlainlyAside DEF ClientLeft, asterisk, Steps
<1>2. CASE ReasonOfLeave(g)
  <2> DEFINE reason == IF call[g.c].state = "Bridged" THEN "Abandon" ELSE "ClientHangup"
             h == [g EXCEPT !.at = "terminate", !.arg = reason]
  <2>1. h.f = "clientLeave"
    BY <1>0 DEF Goroutine
  <2>2. \A k \in {h} : ~Carries(k)
    <3> HIDE DEF h
    <3> QED
      BY <2>1 DEF Carries, Sending
  <2>3. Becomes(g, {h})
    BY <1>2 DEF ReasonOfLeave
  <2>4. g.at # "teardown" /\ call' = call /\ legCh' = legCh
    BY <1>2 DEF ReasonOfLeave, asterisk
  <2> HIDE DEF h
  <2>5. QED
    BY <2>2, <2>3, <2>4, SameCall, Fades, Aside
<1>3. CASE AlreadyTerminated(g)
  BY <1>0, <1>3, SameCall, PlainlyAside DEF AlreadyTerminated, asterisk, Steps
<1>4. CASE Terminate(g)
  <2> DEFINE reason == IF call[g.c].reason = NoReason THEN g.arg ELSE call[g.c].reason
             r == [call[g.c] EXCEPT !.state = "Terminated", !.reason = reason]
             h == [g EXCEPT !.at = "cancel", !.copy = CopyOf(g.c)]
  <2>1. /\ r.inDistribution = call[g.c].inDistribution /\ r.leg = call[g.c].leg
        /\ r.user = call[g.c].user /\ r.bridged = call[g.c].bridged
    BY <1>0 DEF Call
  <2>2. r \in Call
    <3>1. g.arg \in Reasons /\ call[g.c].reason \in Reasons \cup {NoReason}
      BY <1>0, <1>4 DEF Terminate, Sound, Call
    <3>2. reason \in Reasons \cup {NoReason}
      BY <3>1
    <3> HIDE DEF reason
    <3>3. QED
      BY <1>0, <3>2, TerminatedType
  <2>3. call' = [call EXCEPT ![g.c] = r]
    BY <1>4 DEF Terminate
  <2>4. SameAttempts /\ \A k \in gos : call'[k.c].bridged = call[k.c].bridged
    <3> HIDE DEF r
    <3> QED
      BY <1>0, <2>1, <2>2, <2>3, SameCall
  <2>5. h.f = "clientLeave"
    BY <1>0 DEF Goroutine
  <2>6. \A k \in {h} : ~Carries(k)
    <3> HIDE DEF h
    <3> QED
      BY <2>5 DEF Carries, Sending
  <2>7. Becomes(g, {h}) /\ g.at # "teardown" /\ legCh' = legCh
    BY <1>4 DEF Terminate, asterisk
  <2> HIDE DEF h
  <2>8. QED
    BY <2>4, <2>6, <2>7, Fades, Aside
<1>5. CASE LogOnTerminate(g)
  BY <1>0, <1>5, SameCall, PlainlyAside DEF LogOnTerminate, asterisk, Steps
<1>6. CASE RemoveCall(g)
  <2>0. PICK u : u = g.copy.user
    OBVIOUS
  <2> DEFINE m == Message(g, "Terminated", u)
  <2>1. u \in Users \cup {NoUser}
    BY <1>0, <2>0, SoundTypes DEF Copy
  <2>2. \A k \in {m} : ~Carries(k)
    <3>1. ~Carries(m)
      BY <1>0, <2>1, MessageAside DEF Messages
    <3> HIDE DEF m
    <3>2. QED
      BY <3>1
  <2>3. Becomes(g, {m}) /\ g.at # "teardown" /\ call' = call /\ legCh' = legCh
    BY <1>6, <2>0 DEF RemoveCall, asterisk
  <2> HIDE DEF m
  <2>4. QED
    BY <2>2, <2>3, SameCall, Fades, Aside
<1>7. CASE LogOnTerminateFails(g)
  BY <1>0, <1>7, SameCall, PlainlyAside DEF LogOnTerminateFails, asterisk, Steps
<1>8. QED
  BY <1>1, <1>2, <1>3, <1>4, <1>5, <1>6, <1>7 DEF ClientLeaveStep

\* An agent's channel that leaves, or that was not answered.
LEMMA AgentLeaveAttempt ==
  ASSUME AttemptInv, TimerInv', NEW g \in gos, AgentLeaveStep(g) \/ NoAnswerStep(g) PROVE AttemptInv'
<1> kept \subseteq kept'
  BY FailuresStay DEF Step
<1>0. /\ g.f \in {"agentLeave", "noAnswer"} /\ g.c \in Calls /\ call[g.c] \in Call
      /\ g \in Goroutine
  BY AttemptFacts DEF AgentLeaveStep, NoAnswerStep
<1>1. CASE g.f = "noAnswer" /\ LegLookup(g, "reset")
  <2>1. Carries(g)
    BY <1>1 DEF Carries, LegLookup
  <2>2. g.at # "teardown" /\ call' = call /\ legCh' = legCh /\ (Goto(g, "reset") \/ Return(g))
    BY <1>1 DEF LegLookup, asterisk
  <2>3. QED
    BY <1>1, <2>1, <2>2, SameCall, Plainly DEF Steps
<1>2. CASE g.f = "agentLeave" /\ LegLookup(g, "lock")
  BY <1>2, SameCall, PlainlyAside DEF LegLookup, asterisk, Steps
<1>3. CASE g.f = "agentLeave" /\ (AgentLeft(g) \/ AgentLeftFails(g))
  <2> DEFINE r == IF call[g.c].state = "Terminated" THEN call[g.c]
                  ELSE WithReason(call[g.c], "AgentHangup")
  <2>1. /\ r \in Call
        /\ r.inDistribution = call[g.c].inDistribution /\ r.leg = call[g.c].leg
        /\ r.user = call[g.c].user /\ r.bridged = call[g.c].bridged
    BY <1>0 DEF Call, WithReason, Reasons
  <2>2. call' = [call EXCEPT ![g.c] = r]
    BY <1>3 DEF AgentLeft, AgentLeftFails
  <2>3. SameAttempts /\ \A h \in gos : call'[h.c].bridged = call[h.c].bridged
    <3> HIDE DEF r
    <3> QED
      BY <1>0, <2>1, <2>2, SameCall
  <2>4. g.at # "teardown" /\ legCh' = legCh
    BY <1>3 DEF AgentLeft, AgentLeftFails, CallerKept, asterisk
  <2>5. PICK G : Becomes(g, G) /\ G \subseteq ClientEndEvent(g.c)
    BY <1>3 DEF AgentLeft, AgentLeftFails, CallerKept, Return
  <2>6. \A k \in G : ~Carries(k)
    BY <2>5, EventsAside
  <2>7. QED
    BY <2>3, <2>4, <2>5, <2>6, Fades, Aside
<1>4. QED
  BY <1>0, <1>1, <1>2, <1>3 DEF AgentLeaveStep, NoAnswerStep

\* Steps that several handlers share.
LEMMA SharedAttempt ==
  ASSUME AttemptInv, TimerInv', NEW g \in gos,
         \/ CancelTimer(g) \/ HangupClient(g) \/ HangupClientFails(g)
         \/ Send(g) \/ SendFails(g)
  PROVE  AttemptInv'
<1> kept \subseteq kept'
  BY FailuresStay DEF Step
<1>0. /\ g.c \in Calls /\ g \in Goroutine /\ InPlace(g)
  BY AttemptFacts
<1>1. CASE CancelTimer(g)
  <2>1. g.f \in {"clientLeave", "timeout"} /\ g.at # "teardown"
    BY <1>0, <1>1 DEF CancelTimer, InPlace, ReSetup, Goroutine, Handlers
  <2>2. QED
    BY <1>1, <2>1, SameCall, PlainlyAside DEF CancelTimer, asterisk, Steps
<1>2. CASE HangupClient(g)
  <2>1. \A k \in ClientEndEvent(g.c) : ~Carries(k)
    BY EventsAside
  <2>2. g.at # "teardown" /\ call' = call /\ legCh' = legCh
    BY <1>2 DEF HangupClient
  <2>3. QED
    BY <1>2, <2>1, <2>2, SameCall, Fades, Aside DEF HangupClient
<1>3. CASE Send(g)
  <2>1. PICK G : G = {}
    OBVIOUS
  <2>2. Becomes(g, G) /\ \A k \in G : ~Carries(k)
    BY <1>3, <2>1 DEF Send, Return
  <2>3. g.at # "teardown" /\ call' = call /\ legCh' = legCh
    BY <1>3 DEF Send, asterisk
  <2>4. QED
    BY <2>2, <2>3, SameCall, Fades, Aside
<1>4. CASE HangupClientFails(g) \/ SendFails(g)
  <2>1. g.at # "teardown"
    BY <1>4 DEF HangupClientFails, SendFails
  <2>2. QED
    BY <1>4, <2>1, FailureGivesUp, GivingUpAttempt
<1>5. QED
  BY <1>1, <1>2, <1>3, <1>4

-----------------------------------------------------------------------------
(* Handlers that begin an attempt, carry it on, or end it. *)

\* An offer: IsCallInDistribution lets it begin an attempt only when nobody carries
\* one, and a failed Originate that leaves no channel gives the attempt to nobody.
LEMMA OfferAttempt ==
  ASSUME AttemptInv, TimerInv', ~OriginateMayBeLost, NEW g \in gos, OfferStep(g) PROVE AttemptInv'
<1> kept \subseteq kept'
  BY FailuresStay DEF Step
<1>0. /\ g.f = "offer" /\ g.c \in Calls /\ call[g.c] \in Call /\ Names(g.c)
      /\ g \in Goroutine /\ g \in Sound /\ DataOK
  BY AttemptFacts DEF OfferStep
<1>1. CASE OfferLookup(g)
  BY <1>0, <1>1, SameCall, PlainlyAside DEF OfferLookup, asterisk, Steps
<1>2. CASE OfferIgnored(g)
  <2>1. PICK G : G = {}
    OBVIOUS
  <2>2. Becomes(g, G) /\ \A k \in G : ~Carries(k)
    BY <1>2, <2>1 DEF OfferIgnored, Return
  <2>3. g.at # "teardown" /\ call' = call /\ legCh' = legCh
    BY <1>2 DEF OfferIgnored, asterisk
  <2>4. QED
    BY <2>2, <2>3, SameCall, Fades, Aside
<1>3. CASE OfferDismissed(g)
  <2> DEFINE m == Message(g, "Dismissed", g.user)
  <2>1. \A k \in {m} : ~Carries(k)
    <3>1. ~Carries(m)
      BY <1>0, SoundTypes, MessageAside DEF Messages
    <3> HIDE DEF m
    <3>2. QED
      BY <3>1
  <2>2. Becomes(g, {m}) /\ g.at # "teardown" /\ call' = call /\ legCh' = legCh
    BY <1>3 DEF OfferDismissed, asterisk
  <2> HIDE DEF m
  <2>3. QED
    BY <2>1, <2>2, SameCall, Fades, Aside
<1>4. CASE OfferBeyondLimit(g)
  <2> DEFINE r == WithReason(call[g.c], "MaxAttemptReached")
  <2>1. /\ r \in Call
        /\ r.inDistribution = call[g.c].inDistribution /\ r.leg = call[g.c].leg
        /\ r.user = call[g.c].user /\ r.bridged = call[g.c].bridged
    BY <1>0 DEF Call, WithReason, Reasons
  <2>2. call' = [call EXCEPT ![g.c] = r]
    BY <1>4 DEF OfferBeyondLimit
  <2>3. SameAttempts /\ \A h \in gos : call'[h.c].bridged = call[h.c].bridged
    <3> HIDE DEF r
    <3> QED
      BY <1>0, <2>1, <2>2, SameCall
  <2>4. QED
    BY <1>0, <1>4, <2>3, PlainlyAside DEF OfferBeyondLimit, asterisk, Steps
<1>5. CASE OfferTaken(g)
  <2>0. PICK n, leg : n = call[g.c].attempts + 1 /\ leg = <<g.c, g.user, n>>
    OBVIOUS
  <2> DEFINE r == [call[g.c] EXCEPT !.attempts = n, !.inDistribution = TRUE,
                                    !.user = g.user, !.leg = leg]
             h == [g EXCEPT !.at = "map", !.leg = leg]
  <2>1. leg \in Legs
    <3>1. n \in 1 .. MaxAttempts
      BY <1>0, <1>5, <2>0, CallAssumption DEF OfferTaken, Call
    <3>2. QED
      BY <1>0, <2>0, <3>1 DEF Sound, Legs
  <2>2. leg[1] = g.c /\ leg[2] = g.user /\ leg # NoLeg
    BY <2>0, <2>1, NoLegAssumption
  <2>3. r.inDistribution = TRUE /\ r.leg = leg /\ r.user = g.user /\ r.bridged = call[g.c].bridged
    BY <1>0 DEF Call
  <2>4. \A c \in Calls : call'[c] = IF c = g.c THEN r ELSE call[c]
    BY <1>0, <1>5, <2>0 DEF OfferTaken, DataOK
  <2>5. h.f = "offer" /\ h.at = "map" /\ h.c = g.c /\ h.leg = leg
    BY <1>0 DEF Goroutine
  <2>6. gos' = (gos \ {g}) \cup {h} /\ legCh' = legCh /\ g.at = "lock" /\ ~call[g.c].inDistribution
    BY <1>5, <2>0 DEF OfferTaken, Becomes, asterisk
  <2> HIDE DEF r, h
  <2>7. \A k \in gos : Carries(k) => k.c # g.c
    BY <2>6 DEF AttemptInv, Carried, Current
  <2>8. \A c \in Calls : Names(c)'
    BY <1>0, <2>1, <2>2, <2>3, <2>4, <2>6 DEF AttemptInv, Names
  <2>9. \A l \in Legs : l[1] # g.c => (Current(l)' <=> Current(l))
    <3>1. \A l \in Legs : l[1] \in Calls
      BY DEF Legs
    <3>2. QED
      BY <2>4, <3>1 DEF Current
  <2>10. \A l \in Legs : Doomed(l) => Doomed(l)'
    BY <2>6 DEF Doomed
  <2>11. ASSUME NEW l \in Legs PROVE Rung(l)'
    <3>1. CASE l[1] = g.c
      <4>1. Rung(l) /\ ~Current(l)
        BY <2>6, <3>1 DEF AttemptInv, Current
      <4>2. QED
        BY <2>6, <2>10, <4>1 DEF Rung
    <3>2. CASE l[1] # g.c
      <4>1. Rung(l) /\ (Current(l)' <=> Current(l))
        BY <2>9, <3>2 DEF AttemptInv
      <4>2. QED
        BY <2>5, <2>6, <2>10, <3>2, <4>1 DEF Rung
    <3>3. QED
      BY <3>1, <3>2
  <2>12. ASSUME NEW k \in gos', Carries(k) PROVE Carried(k)'
    <3>1. CASE k = h
      <4>1. Current(leg)'
        BY <1>0, <2>2, <2>3, <2>4 DEF Current
      <4>2. QED
        BY <2>1, <2>2, <2>5, <2>6, <2>7, <3>1, <4>1 DEF Carried, Sending
    <3>2. CASE k # h
      <4>1. k \in gos /\ k.c # g.c /\ Carried(k) /\ k.c \in Calls
        BY <2>6, <2>7, <2>12, <3>2, AttemptFacts DEF AttemptInv
      <4>2. Current(k.leg)' /\ call'[k.c] = call[k.c]
        BY <2>4, <2>9, <4>1 DEF Carried
      <4>3. QED
        BY <2>5, <2>6, <4>1, <4>2 DEF Carried
    <3>3. QED
      BY <3>1, <3>2
  <2>13. QED
    BY <2>8, <2>11, <2>12 DEF AttemptInv
<1>6. CASE AddAgentCallMap(g)
  <2>1. Carries(g)
    BY <1>0, <1>6 DEF AddAgentCallMap, Carries
  <2>2. g.at # "teardown" /\ call' = call /\ legCh' = legCh /\ Goto(g, "originate")
    BY <1>6 DEF AddAgentCallMap, asterisk
  <2>3. QED
    BY <1>0, <2>1, <2>2, SameCall, Plainly DEF Steps
<1>7. CASE Originate(g)
  <2>1. Carries(g) /\ call' = call /\ gos' = gos \ {g} /\ g.at # "teardown"
    BY <1>0, <1>7 DEF Originate, Carries, Return, Becomes
  <2>2. Carried(g)
    BY <2>1 DEF AttemptInv
  <2>3. legCh' = [legCh EXCEPT ![g.leg] = "dialing"]
    BY <1>7 DEF Originate
  <2>4. \A l \in Legs : legCh'[l] = IF l = g.leg THEN "dialing" ELSE legCh[l]
    BY <1>0, <2>3 DEF DataOK
  <2>5. \A l \in Legs : Doomed(l) => Doomed(l)'
    BY <2>1 DEF Doomed
  <2>6. ASSUME NEW l \in Legs PROVE Rung(l)'
    <3>1. Rung(l) /\ (Current(l)' <=> Current(l))
      BY <2>1 DEF AttemptInv, Current
    <3>2. CASE l = g.leg
      BY <2>1, <2>2, <2>4, <3>1, <3>2 DEF Rung, Carried
    <3>3. CASE l # g.leg
      BY <2>1, <2>4, <2>5, <3>1, <3>3 DEF Rung
    <3>4. QED
      BY <3>2, <3>3
  <2>7. ASSUME NEW k \in gos', Carries(k) PROVE Carried(k)'
    <3>1. Carried(k)
      BY <2>1, <2>7 DEF AttemptInv
    <3>2. QED
      BY <2>1, <3>1 DEF Carried, Current
  <2>8. \A c \in Calls : Names(c)'
    BY <2>1 DEF AttemptInv, Names
  <2>9. QED
    BY <2>6, <2>7, <2>8 DEF AttemptInv
<1>8. CASE OriginateFails(g)
  <2>1. Carries(g)
    BY <1>0, <1>8 DEF OriginateFails, Carries
  <2>2. g.at # "teardown" /\ call' = call /\ legCh' = legCh /\ Goto(g, "reset")
    BY <1>8 DEF OriginateFails
  <2>3. QED
    BY <1>0, <2>1, <2>2, SameCall, Plainly DEF Steps
<1>9. CASE NoQueueForOffer(g)
  <2>1. g.at # "teardown"
    BY <1>9 DEF NoQueueForOffer
  <2>2. QED
    BY <1>9, <2>1, FailureGivesUp, GivingUpAttempt
<1>10. QED
  BY <1>1, <1>2, <1>3, <1>4, <1>5, <1>6, <1>7, <1>8, <1>9 DEF OfferStep

\* An agent's channel that was answered: the goroutine of the answer goes on as bridgeCall.
LEMMA AgentEnterAttempt ==
  ASSUME AttemptInv, TimerInv', NEW g \in gos, AgentEnterStep(g) PROVE AttemptInv'
<1> kept \subseteq kept'
  BY FailuresStay DEF Step
<1>0. /\ g.f = "agentEnter" /\ g.c \in Calls /\ call[g.c] \in Call /\ g \in Goroutine
      /\ Carries(g)
  BY AttemptFacts DEF AgentEnterStep, Carries
<1>1. CASE LegLookup(g, "lock")
  BY <1>0, <1>1, SameCall, Plainly DEF LegLookup, asterisk, Steps
<1>2. CASE LateAgentGone(g)
  <2>1. PICK G : G = {}
    OBVIOUS
  <2>2. Becomes(g, G) /\ \A k \in G : ~Carries(k)
    BY <1>2, <2>1 DEF LateAgentGone, Return
  <2>3. g.at # "teardown" /\ call' = call /\ legCh' = legCh
    BY <1>2 DEF LateAgentGone, asterisk
  <2>4. QED
    BY <2>2, <2>3, SameCall, Fades, Aside
<1>3. CASE AgentJoins(g)
  <2>0. PICK late : /\ late = IF call[g.c].state = "Bridged" THEN {g.leg} ELSE {}
                    /\ LegsGone(late)
                    /\ Becomes(g, {[g EXCEPT !.f = "bridge", !.at = "set"]} \cup LegEndEvents(late))
    BY <1>3 DEF AgentJoins
  <2> DEFINE r == [call[g.c] EXCEPT !.state = "Bridged", !.handled = TRUE]
             h == [g EXCEPT !.f = "bridge", !.at = "set"]
  <2>1. /\ r.inDistribution = call[g.c].inDistribution /\ r.leg = call[g.c].leg
        /\ r.user = call[g.c].user /\ r.bridged = call[g.c].bridged
    BY <1>0 DEF Call
  <2>2. r \in Call
    BY <1>0, JoinType
  <2>3. call' = [call EXCEPT ![g.c] = r]
    BY <1>3 DEF AgentJoins
  <2>4. SameAttempts /\ \A k \in gos : call'[k.c].bridged = call[k.c].bridged
    <3> HIDE DEF r
    <3> QED
      BY <1>0, <2>1, <2>2, <2>3, SameCall
  <2>5. h.f = "bridge" /\ h.at = "set" /\ h.c = g.c /\ h.leg = g.leg
    BY <1>0 DEF Goroutine
  <2>6. PICK G : G = LegEndEvents(late)
    OBVIOUS
  <2>7. \A k \in G : ~Carries(k)
    BY <2>6, EventsAside
  <2>8. Becomes(g, {h} \cup G) /\ g.at # "teardown"
    BY <1>3, <2>0, <2>6 DEF AgentJoins
  <2>9. \A l \in Legs : legCh'[l] \in {legCh[l], "gone"}
    BY <2>0, Fades
  <2> HIDE DEF h
  <2>10. ~(h.f = "bridge" /\ h.at \in Bridging) /\ h.f \notin Sending
    BY <2>5 DEF Bridging, Sending
  <2>11. QED
    BY <1>0, <2>4, <2>5, <2>7, <2>8, <2>9, <2>10, Onward
<1>4. QED
  BY <1>1, <1>2, <1>3 DEF AgentEnterStep

\* bridgeCall: the leg that it bridges is the one of the attempt, and so is the agent
\* that its Accepted names.
LEMMA BridgeAttempt ==
  ASSUME AttemptInv, TimerInv', NEW g \in gos, BridgeStep(g) PROVE AttemptInv'
<1> kept \subseteq kept'
  BY FailuresStay DEF Step
<1>0. /\ g.f = "bridge" /\ g.c \in Calls /\ call[g.c] \in Call /\ g \in Goroutine
      /\ Names(g.c) /\ DataOK
  BY AttemptFacts DEF BridgeStep
<1>1. CASE SetBridged(g)
  <2> DEFINE r == [call[g.c] EXCEPT !.bridge = TRUE, !.bridged = g.leg, !.leg = g.leg]
  <2>1. Carries(g) /\ Carried(g)
    BY <1>0, <1>1 DEF SetBridged, Carries, AttemptInv
  <2>2. r.inDistribution = call[g.c].inDistribution /\ r.leg = g.leg /\ r.user = call[g.c].user /\ r.bridged = g.leg
    BY <1>0 DEF Call
  <2>3. \A c \in Calls : call'[c] = IF c = g.c THEN r ELSE call[c]
    BY <1>0, <1>1 DEF SetBridged, DataOK
  <2> HIDE DEF r
  <2>4. call[g.c].leg = g.leg /\ call[g.c].inDistribution
    BY <2>1 DEF Carried, Current
  <2>5. SameAttempts
    <3>1. \A c \in Calls : Names(c)
      BY DEF AttemptInv
    <3>2. g.leg \in Legs /\ g.leg[1] = g.c /\ g.leg[2] = call[g.c].user
      BY <1>0, <2>1, <2>4 DEF Names, Carried
    <3>3. Names(g.c)'
      BY <1>0, <2>2, <2>3, <2>4, <3>2 DEF Names
    <3>4. \A c \in Calls : Names(c)'
      BY <2>3, <3>1, <3>3 DEF Names
    <3>5. QED
      BY <1>0, <2>2, <2>3, <2>4, <3>4 DEF SameAttempts
  <2>6. \A k \in gos : k # g /\ Carries(k) => call'[k.c].bridged = call[k.c].bridged
    BY <2>1, <2>3, AttemptFacts DEF Carried
  <2>7. call'[g.c].bridged = g.leg
    BY <1>0, <2>2, <2>3
  <2>8. g.at # "teardown" /\ legCh' = legCh /\ Goto(g, "createBridge")
    BY <1>1 DEF SetBridged, asterisk
  <2>9. QED
    BY <2>1, <2>5, <2>6, <2>7, <2>8, Fades, CarriesOn DEF Steps
<1>2. ASSUME NEW step \in {"addClient", "addLeg", "outbound", "setvar", "accept", "reset"},
             Goto(g, step), g.at \in Bridging, call' = call, legCh' = legCh
      PROVE  AttemptInv'
  <2>1. Carries(g) /\ g.at # "teardown"
    BY <1>0, <1>2 DEF Carries, Bridging
  <2>2. QED
    BY <1>2, <2>1, SameCall, Plainly DEF Steps
<1>3. CASE CreateBridge(g) \/ AddClient(g) \/ AddLeg(g)
  BY <1>2, <1>3 DEF CreateBridge, AddClient, AddLeg, Bridging
<1>4. CASE AddOutBoundCall(g) \/ SetMemberVariable(g)
  BY <1>2, <1>4 DEF AddOutBoundCall, SetMemberVariable, Bridging, asterisk
<1>5. CASE PublishAccepted(g)
  <2>0. PICK u : u = call[g.c].user
    OBVIOUS
  <2> DEFINE h == Message(g, "Accepted", u)
  <2>1. Carries(g) /\ Carried(g)
    BY <1>0, <1>5 DEF PublishAccepted, Carries, Bridging, AttemptInv
  <2>2. u = g.leg[2] /\ call[g.c].bridged = g.leg
    BY <1>0, <1>5, <2>0, <2>1 DEF Carried, Current, Names, PublishAccepted, Bridging
  <2>3. u \in Users \cup {NoUser}
    BY <1>0, <2>0 DEF Call
  <2>4. h.f = "message" /\ h.at = "send" /\ h.c = g.c /\ h.leg = g.leg /\ h.user = u
    BY <1>0, <2>3 DEF Message, Goroutine
  <2>5. PICK G : G = {}
    OBVIOUS
  <2>6. Becomes(g, {h} \cup G) /\ \A k \in G : ~Carries(k)
    BY <1>5, <2>0, <2>5 DEF PublishAccepted, Becomes
  <2>7. g.at # "teardown" /\ call' = call /\ legCh' = legCh
    BY <1>5 DEF PublishAccepted, asterisk
  <2> HIDE DEF h
  <2>8. SameAttempts /\ \A k \in gos : call'[k.c].bridged = call[k.c].bridged
    BY <2>7, SameCall
  <2>9. QED
    BY <2>1, <2>2, <2>4, <2>6, <2>7, <2>8, Fades, Onward
<1>6. QED
  BY <1>1, <1>3, <1>4, <1>5 DEF BridgeStep

\* reSetupCallForQueue ends the attempt: who carries it gives it up, and hangs up the
\* leg that it had.
LEMMA ResetAttempt ==
  ASSUME AttemptInv, TimerInv', NEW g \in gos, ResetCall(g) PROVE AttemptInv'
<1> kept \subseteq kept'
  BY FailuresStay DEF Step, ReSetupStep
<1> DEFINE r == [call[g.c] EXCEPT !.state = "InQueue", !.inDistribution = FALSE, !.user = NoUser,
                                  !.leg = NoLeg, !.bridge = FALSE, !.bridged = NoLeg]
           h == [g EXCEPT !.at = "teardown", !.copy = CopyOf(g.c)]
<1>0. /\ g.c \in Calls /\ call[g.c] \in Call /\ g \in Goroutine /\ DataOK /\ g.at = "reset"
      /\ g.f \in {"offer", "bridge", "noAnswer"}
  <2>1. /\ g.c \in Calls /\ call[g.c] \in Call /\ g \in Goroutine /\ DataOK /\ g.at = "reset"
        /\ InPlace(g) /\ g.f \in Handlers
    BY AttemptFacts DEF ResetCall, Goroutine
  <2>2. QED
    BY <2>1 DEF InPlace, Handlers, Ending
<1>1. Carries(g) /\ Carried(g) /\ \A l \in Legs : l[1] = g.c => legCh[l] # "dialing"
  BY <1>0, NoneRings DEF Carries
<1>2. r.inDistribution = FALSE /\ r.bridged = NoLeg
  BY <1>0 DEF Call
<1>3. \A c \in Calls : call'[c] = IF c = g.c THEN r ELSE call[c]
  BY <1>0 DEF ResetCall, DataOK
<1>4. h.at = "teardown" /\ h.f = g.f /\ h.copy.leg = g.leg
  BY <1>0, <1>1 DEF Goroutine, CopyOf, Carried, Current
<1>5. gos' = (gos \ {g}) \cup {h} /\ legCh' = legCh
  BY DEF ResetCall, Becomes, asterisk
<1> HIDE DEF r, h
<1>6. ~Carries(h)
  BY <1>0, <1>4 DEF Carries, Bridging, Sending
<1>7. \A k \in gos' : Carries(k) => k \in gos /\ k.c # g.c
  BY <1>1, <1>5, <1>6 DEF Carried
<1>8. \A c \in Calls : Names(c)'
  BY <1>2, <1>3 DEF AttemptInv, Names
<1>9. \A l \in Legs : l[1] # g.c => (Current(l)' <=> Current(l))
  <2>1. \A l \in Legs : l[1] \in Calls
    BY DEF Legs
  <2>2. QED
    BY <1>3, <2>1 DEF Current
<1>10. \A l \in Legs : Doomed(l) => Doomed(l)'
  BY <1>0, <1>5 DEF Doomed
<1>11. ASSUME NEW l \in Legs PROVE Rung(l)'
  <2>0. Rung(l)
    BY DEF AttemptInv
  <2>1. CASE l[1] = g.c
    <3>1. Current(l) => Doomed(l)'
      BY <1>1, <1>4, <1>5, <2>1 DEF Current, Carried, Doomed
    <3>2. QED
      BY <1>1, <1>5, <1>10, <2>0, <2>1, <3>1 DEF Rung
  <2>2. CASE l[1] # g.c
    <3>1. Current(l)' <=> Current(l)
      BY <1>9, <2>2
    <3>2. QED
      BY <1>5, <1>7, <1>10, <2>0, <3>1 DEF Rung
  <2>3. QED
    BY <2>1, <2>2
<1>12. ASSUME NEW k \in gos', Carries(k) PROVE Carried(k)'
  <2>1. k \in gos /\ k.c # g.c /\ Carried(k) /\ k.c \in Calls
    BY <1>7, <1>12, AttemptFacts DEF AttemptInv
  <2>2. Current(k.leg)' /\ call'[k.c] = call[k.c]
    BY <1>3, <1>9, <2>1 DEF Carried
  <2>3. QED
    BY <1>7, <2>1, <2>2 DEF Carried
<1>13. QED
  BY <1>8, <1>11, <1>12 DEF AttemptInv

\* A leg that is hung up while it rings may hand the attempt to the goroutine of its
\* failed dial; a leg that has answered no longer needs to be doomed.
LEMMA TearDownAttempt ==
  ASSUME AttemptInv, TimerInv', NEW g \in gos, TearDown(g) PROVE AttemptInv'
<1> kept \subseteq kept'
  BY FailuresStay DEF Step, ReSetupStep
<1>0. /\ g.c \in Calls /\ g \in Goroutine /\ g.at = "teardown" /\ DataOK
      /\ g.f \in Handlers /\ InPlace(g)
  BY AttemptFacts DEF TearDown, Goroutine
<1>1. PICK H \in SUBSET Legs : \E unanswered \in SUBSET DialFailures(H) :
        /\ H \subseteq {g.copy.bridged, g.copy.leg}
        /\ \A l \in {g.copy.bridged, g.copy.leg} \cap Legs : l \notin H => l \in kept'
        /\ LegsGone(H)
        /\ gos' = (gos \ {g}) \cup
                   ({[g EXCEPT !.at = "unmap"]} \cup LegEndEvents(H) \cup unanswered)
  BY TornDown
<1>2. LegsGone(H) /\ call' = call
  BY <1>1 DEF TearDown
<1>3. SameAttempts /\ \A k \in gos : call'[k.c].bridged = call[k.c].bridged
  BY <1>2, SameCall
<1>4. \A l \in Legs : legCh'[l] = IF l \in H /\ legCh[l] # "none" THEN "gone" ELSE legCh[l]
  BY <1>2 DEF LegsGone
<1>5. PICK unanswered \in SUBSET DialFailures(H) :
        gos' = (gos \ {g}) \cup ({[g EXCEPT !.at = "unmap"]} \cup LegEndEvents(H) \cup unanswered)
  BY <1>1
<1>6. PICK h : h = [g EXCEPT !.at = "unmap"]
  OBVIOUS
<1>7. PICK G : G = LegEndEvents(H)
  OBVIOUS
<1>8. \A k \in G : ~Carries(k)
  BY <1>7, EventsAside
<1>9. ~Carries(h)
  <2>1. h.at = "unmap" /\ h.f = g.f
    BY <1>0, <1>6 DEF Goroutine, Steps
  <2>2. g.f \notin Sending \cup {"agentEnter"}
    BY <1>0 DEF InPlace, Sending
  <2>3. QED
    BY <2>1, <2>2 DEF Carries, Bridging
<1>10. gos' = (gos \ {g}) \cup ({h} \cup G \cup unanswered)
  BY <1>5, <1>6, <1>7
<1>11. \A k \in unanswered : \E d \in H : legCh[d] = "dialing" /\ k = GoLeg("noAnswer", "lookup", d)
  BY DEF DialFailures
<1>12. \A k \in gos' \ gos : Carries(k) => k \in unanswered
  BY <1>8, <1>9, <1>10
<1>13. ASSUME NEW k \in unanswered PROVE Carrier(k)
  <2>1. PICK d \in H : legCh[d] = "dialing" /\ k = GoLeg("noAnswer", "lookup", d)
    BY <1>11
  <2>2. legCh'[d] # "dialing" /\ \A l \in Legs : legCh'[l] = "dialing" => legCh[l] = "dialing"
    BY <1>4, <2>1
  <2>3. k \in gos'
    BY <1>10
  <2>4. \A x \in gos' \ gos : Carries(x) =>
          \E y \in Legs : legCh[y] = "dialing" /\ x = GoLeg("noAnswer", "lookup", y)
    BY <1>11, <1>12
  <2>5. QED
    BY <1>3, <2>1, <2>2, <2>3, <2>4, Handed
<1>14. \A k \in gos \ gos' : HungUp(k)
  <2>1. HungUp(g)
    BY <1>1, <1>4 DEF HungUp
  <2>2. QED
    BY <1>10, <2>1
<1>15. \A l \in Legs : /\ legCh'[l] = "dialing" => legCh[l] = "dialing"
                       /\ legCh'[l] = "stasis" => legCh[l] \in {"dialing", "stasis"}
  BY <1>4
<1>16. QED
  BY <1>3, <1>12, <1>13, <1>14, <1>15, Within

\* reSetupCallForQueue and the tail of terminateCall.
LEMMA ReSetupAttempt ==
  ASSUME AttemptInv, TimerInv', NEW g \in gos, ReSetupStep(g) PROVE AttemptInv'
<1> kept \subseteq kept'
  BY FailuresStay DEF Step
<1>0. /\ g.c \in Calls /\ call[g.c] \in Call /\ g \in Goroutine /\ g \in Sound
      /\ g.f \in {"enter", "offer", "bridge", "noAnswer", "clientLeave"}
  <2>1. /\ g.c \in Calls /\ call[g.c] \in Call /\ g \in Goroutine /\ g \in Sound
        /\ InPlace(g) /\ g.f \in Handlers
    BY AttemptFacts DEF Goroutine
  <2>2. g.at \in ReSetup
    BY DEF ReSetupStep, ResetCall, TearDown, Unmap, PublishRejected, ReSetup
  <2>3. QED
    BY <2>1, <2>2 DEF InPlace, Handlers, ReSetup
<1>1. ASSUME NEW step \in {"log", "rejected"}, Goto(g, step),
             g.at # "teardown", call' = call, legCh' = legCh
      PROVE  AttemptInv'
  BY <1>0, <1>1, SameCall, PlainlyAside DEF Steps, Bridging
<1>2. CASE Unmap(g)
  BY <1>1, <1>2 DEF Unmap, asterisk
<1>3. CASE PublishRejected(g)
  <2>0. PICK first, second, more :
          /\ first = Message(g, "Rejected", g.copy.user)
          /\ second = [Message(g, "Rejected", NoUser) EXCEPT !.f = "messageAgain"]
          /\ more = IF g.f = "noAnswer" THEN {second} ELSE {}
    OBVIOUS
  <2>1. PICK u \in Users \cup {NoUser} : u = g.copy.user
    BY <1>0, SoundTypes DEF Copy
  <2>2. ~Carries(first)
    <3>1. first = Message(g, "Rejected", u)
      BY <2>0, <2>1
    <3>2. ~Carries(Message(g, "Rejected", u))
      BY <1>0, MessageAside DEF Messages
    <3>3. QED
      BY <3>1, <3>2
  <2>3. ~Carries(second)
    BY <1>0, <2>0, MessageAside DEF Messages
  <2>4. PICK G : G = {first} \cup more
    OBVIOUS
  <2>5. Becomes(g, G) /\ \A k \in G : ~Carries(k)
    BY <1>3, <2>0, <2>2, <2>3, <2>4 DEF PublishRejected
  <2>6. g.at # "teardown" /\ call' = call /\ legCh' = legCh
    BY <1>3 DEF PublishRejected, asterisk
  <2>7. QED
    BY <2>5, <2>6, SameCall, Fades, Aside
<1>4. QED
  BY <1>2, <1>3, ResetAttempt, TearDownAttempt DEF ReSetupStep

-----------------------------------------------------------------------------
(* The theorems. *)

\* Nobody is dialled at the start.
LEMMA InitAttempt == Init => AttemptInv
<1> SUFFICES ASSUME Init PROVE AttemptInv
  OBVIOUS
<1>1. ASSUME NEW c \in Calls PROVE Names(c)
  <2>1. call[c] = NewCall
    BY DEF Init
  <2>2. QED
    BY <2>1 DEF NewCall, Names
<1>2. gos = {} /\ \A l \in Legs : legCh[l] = "none"
  BY DEF Init
<1>3. QED
  BY <1>1, <1>2, InitTimer DEF AttemptInv, Rung

\* No step leaves the invariant, if a failed Originate leaves no channel.
LEMMA AttemptInductive ==
  ASSUME ~OriginateMayBeLost PROVE AttemptInv /\ [Next]_vars => AttemptInv'
<1> SUFFICES ASSUME AttemptInv, [Next]_vars PROVE AttemptInv'
  OBVIOUS
<1>0. TimerInv'
  BY TimerInductive DEF AttemptInv
<1>1. CASE World
  BY <1>0, <1>1, WorldAttempt
<1>2. ASSUME NEW g \in gos, Step(g) PROVE AttemptInv'
  BY <1>0, <1>2, EnterAttempt, OfferAttempt, AgentEnterAttempt, BridgeAttempt, AgentLeaveAttempt,
     ClientLeaveAttempt, TimeoutAttempt, ReSetupAttempt, SharedAttempt DEF Step
<1>3. ASSUME UNCHANGED <<call, manager, timers, gos, asterisk, world>> PROVE AttemptInv'
  <2>1. call' = call /\ gos' = gos /\ legCh' = legCh /\ kept \subseteq kept'
    BY <1>3 DEF asterisk, world
  <2>2. SameAttempts /\ \A h \in gos : call'[h.c].bridged = call[h.c].bridged
    BY <2>1, SameCall
  <2>3. QED
    BY <1>0, <2>1, <2>2, Within
<1>4. QED
  BY <1>1, <1>2, <1>3 DEF Next, Engine, Panic, vars, manager, asterisk, world

\* In every behaviour at most one agent rings or talks for a call, legs aside that are
\* about to be hung up or outlived such a request, although offers are repeated and
\* attempts fail, are given up and answered late (call.go:274, handlers.ari.go:184-219).
THEOREM OneAgentAtATime ==
  ASSUME ~OriginateMayBeLost PROVE Spec => []OneLiveLeg
<1>1. AttemptInv => OneLiveLeg
  <2> SUFFICES ASSUME AttemptInv, NEW c \in Calls, NEW k \in LiveLegs(c), NEW l \in LiveLegs(c)
               PROVE  k = l \/ Doomed(k) \/ Doomed(l)
    BY DEF OneLiveLeg
  <2>1. k \in Legs /\ l \in Legs /\ k[1] = c /\ l[1] = c
    BY DEF LiveLegs
  <2>2. (Current(k) \/ Doomed(k)) /\ (Current(l) \/ Doomed(l))
    BY <2>1 DEF AttemptInv, Rung, LiveLegs, Alive
  <2>3. QED
    BY <2>1, <2>2 DEF Current
<1>2. QED
  BY <1>1, InitAttempt, AttemptInductive, PTL DEF Spec

\* Only bridgeCall and reSetupCallForQueue touch BridgedChannel.
LEMMA WhoBridges ==
  ASSUME AttemptInv, [Next]_vars, NEW c \in Calls, call'[c].bridged # call[c].bridged
  PROVE  \E g \in gos : g.c = c /\ ((BridgeStep(g) /\ SetBridged(g)) \/ ResetCall(g))
<1>1. ASSUME NEW g \in gos, NEW r, call' = [call EXCEPT ![g.c] = r],
             r.bridged = call[g.c].bridged
      PROVE  FALSE
  BY <1>1, AttemptFacts DEF DataOK
<1>2. call' # call
  OBVIOUS
<1>3. PICK g \in gos : Step(g)
  BY <1>2 DEF Next, Engine, Panic, World, ClientEnters, ClientHangsUp, TimerFires, AgentAnswers,
     AgentFails, AgentHangsUp, Distribute, vars
<1>4. g.c \in Calls /\ call[g.c] \in Call /\ DataOK
  BY AttemptFacts
<1>5. ~EnterStep(g)
  <2>1. [call[g.c] EXCEPT !.state = "InQueue"].bridged = call[g.c].bridged
    BY <1>4 DEF Call
  <2>2. QED
    BY <1>1, <1>2, <2>1, FailureGivesUp DEF EnterStep, RejectSetup, RegisterCall, QueueProcessStart,
       ScheduleTimeout, PublishNew, GivesUp
<1>6. ~OfferStep(g)
  <2>1. [call[g.c] EXCEPT !.reason = "MaxAttemptReached"].bridged = call[g.c].bridged
    BY <1>4 DEF Call
  <2>2. ~OfferBeyondLimit(g)
    BY <1>1, <2>1 DEF OfferBeyondLimit, WithReason
  <2>3. ASSUME OfferTaken(g) PROVE FALSE
    <3> DEFINE n == call[g.c].attempts + 1
               r == [call[g.c] EXCEPT !.attempts = n, !.inDistribution = TRUE,
                                      !.user = g.user, !.leg = <<g.c, g.user, n>>]
    <3>1. r.bridged = call[g.c].bridged
      BY <1>4 DEF Call
    <3>2. call' = [call EXCEPT ![g.c] = r]
      BY <2>3 DEF OfferTaken
    <3> HIDE DEF r
    <3>3. QED
      BY <1>1, <3>1, <3>2
  <2>4. QED
    BY <1>2, <2>2, <2>3, FailureGivesUp DEF OfferStep, OfferLookup, OfferIgnored, OfferDismissed,
       AddAgentCallMap, Originate, OriginateFails, GivesUp
<1>7. ~AgentEnterStep(g)
  <2>1. ASSUME AgentJoins(g) PROVE FALSE
    <3> DEFINE r == [call[g.c] EXCEPT !.state = "Bridged", !.handled = TRUE]
    <3>1. r.bridged = call[g.c].bridged
      BY <1>4 DEF Call
    <3>2. call' = [call EXCEPT ![g.c] = r]
      BY <2>1 DEF AgentJoins
    <3> HIDE DEF r
    <3>3. QED
      BY <1>1, <3>1, <3>2
  <2>2. QED
    BY <1>2, <2>1 DEF AgentEnterStep, LegLookup, LateAgentGone
<1>8. BridgeStep(g) => SetBridged(g)
  BY <1>2 DEF BridgeStep, CreateBridge, AddClient, AddLeg, AddOutBoundCall, SetMemberVariable, PublishAccepted
<1>9. ~NoAnswerStep(g) /\ ~AgentLeaveStep(g)
  <2>1. ASSUME AgentLeft(g) \/ AgentLeftFails(g) PROVE FALSE
    <3> DEFINE r == IF call[g.c].state = "Terminated" THEN call[g.c]
                    ELSE [call[g.c] EXCEPT !.reason = "AgentHangup"]
    <3>1. r.bridged = call[g.c].bridged
      BY <1>4 DEF Call
    <3>2. call' = [call EXCEPT ![g.c] = r]
      BY <2>1 DEF AgentLeft, AgentLeftFails, WithReason
    <3> HIDE DEF r
    <3>3. QED
      BY <1>1, <3>1, <3>2
  <2>2. QED
    BY <1>2, <2>1 DEF NoAnswerStep, AgentLeaveStep, LegLookup
<1>10. ~ClientLeaveStep(g)
  <2>1. ASSUME Terminate(g) PROVE FALSE
    <3> DEFINE q == IF call[g.c].reason = NoReason THEN g.arg ELSE call[g.c].reason
               r == [call[g.c] EXCEPT !.state = "Terminated", !.reason = q]
    <3>1. r.bridged = call[g.c].bridged
      BY <1>4 DEF Call
    <3>2. call' = [call EXCEPT ![g.c] = r]
      BY <2>1 DEF Terminate
    <3> HIDE DEF r
    <3>3. QED
      BY <1>1, <3>1, <3>2
  <2>2. QED
    BY <1>2, <2>1 DEF ClientLeaveStep, ClientLeft, ReasonOfLeave, AlreadyTerminated, LogOnTerminate,
       LogOnTerminateFails, RemoveCall
<1>11. ~TimeoutStep(g)
  <2>1. ASSUME TimeoutReached(g) PROVE FALSE
    <3> DEFINE r == IF call[g.c].state = "InQueue"
                    THEN [call[g.c] EXCEPT !.reason = "QueueWaitTimeReached"] ELSE call[g.c]
    <3>1. r.bridged = call[g.c].bridged
      BY <1>4 DEF Call
    <3>2. call' = [call EXCEPT ![g.c] = r]
      BY <2>1 DEF TimeoutReached, WithReason
    <3> HIDE DEF r
    <3>3. QED
      BY <1>1, <3>1, <3>2
  <2>2. QED
    BY <1>2, <2>1 DEF TimeoutStep, TimeoutLookup
<1>12. ReSetupStep(g) => ResetCall(g)
  BY <1>2 DEF ReSetupStep, TearDown, Unmap, PublishRejected
<1>13. ~CancelTimer(g) /\ ~HangupClient(g) /\ ~HangupClientFails(g) /\ ~Send(g) /\ ~SendFails(g)
  BY <1>2, FailureGivesUp DEF CancelTimer, HangupClient, Send, GivesUp
<1>14. (BridgeStep(g) /\ SetBridged(g)) \/ ResetCall(g)
  BY <1>3, <1>5, <1>6, <1>7, <1>8, <1>9, <1>10, <1>11, <1>12, <1>13 DEF Step
<1>15. g.c = c
  BY <1>4, <1>14 DEF SetBridged, ResetCall, DataOK
<1>16. QED
  BY <1>14, <1>15

\* While a call is bridged its agent channel is not exchanged: only bridgeCall sets it,
\* and there is one attempt whose channel it can be (handlers.ari.go:82, 124).
THEOREM BridgedLegStays ==
  ASSUME ~OriginateMayBeLost PROVE Spec => BridgedLegKept
<1> DEFINE Kept1 == \A c \in Calls :
             call[c].state = "Bridged" /\ call'[c].state = "Bridged" /\ call[c].bridged # NoLeg =>
               call'[c].bridged = call[c].bridged
<1>1. AttemptInv /\ [Next]_vars => [Kept1]_vars
  <2> SUFFICES ASSUME AttemptInv, [Next]_vars, NEW c \in Calls, call'[c].state = "Bridged",
                      call[c].bridged # NoLeg, call'[c].bridged # call[c].bridged
               PROVE  FALSE
    OBVIOUS
  <2>1. PICK g \in gos : g.c = c /\ ((BridgeStep(g) /\ SetBridged(g)) \/ ResetCall(g))
    BY WhoBridges
  <2>2. call[c] \in Call /\ DataOK /\ Names(c)
    BY AttemptFacts
  <2>3. CASE ResetCall(g)
    BY <2>1, <2>2, <2>3 DEF ResetCall, DataOK, Call
  <2>4. CASE BridgeStep(g) /\ SetBridged(g)
    <3>1. Carries(g) /\ Carried(g)
      BY <2>4 DEF SetBridged, BridgeStep, Carries, AttemptInv
    <3>2. call[c].bridged = g.leg
      BY <2>1, <2>2, <3>1 DEF Carried, Current, Names
    <3>3. call'[c].bridged = g.leg
      BY <2>1, <2>2, <2>4 DEF SetBridged, DataOK, Call
    <3>4. QED
      BY <3>2, <3>3
  <2>5. QED
    BY <2>1, <2>3, <2>4
<1>2. QED
  BY <1>1, InitAttempt, AttemptInductive, PTL DEF Spec, BridgedLegKept

\* The Accepted of a call names the agent whose channel is bridged, although the name
\* is read without the lock after bridgeCall (handlers.ari.go:108-115).
THEOREM AcceptedIsTrue ==
  ASSUME ~OriginateMayBeLost PROVE Spec => AcceptedNamesAgent
<1> DEFINE Named == \A c \in Calls : aid'[c] # aid[c] /\ aid'[c].state = "Accepted" =>
             call[c].bridged # NoLeg /\ aid'[c].user = call[c].bridged[2]
<1>1. AttemptInv /\ [Next]_vars => [Named]_vars
  <2> SUFFICES ASSUME AttemptInv, [Next]_vars, NEW c \in Calls, aid'[c] # aid[c],
                      aid'[c].state = "Accepted"
               PROVE  call[c].bridged # NoLeg /\ aid'[c].user = call[c].bridged[2]
    OBVIOUS
  <2>0. DataOK
    BY AttemptFacts
  <2>1. PICK g \in gos : Send(g)
    <3>1. ~World
      <4>1. ASSUME NEW d \in Calls, NEW u \in Users, Distribute(d, u) PROVE FALSE
        <5>1. aid' = [aid EXCEPT ![d].state = "Offered"]
          BY <4>1 DEF Distribute
        <5>2. d = c => aid'[c].state = "Offered"
          BY <2>0, <5>1 DEF DataOK
        <5>3. QED
          BY <2>0, <5>1, <5>2 DEF DataOK
      <4>2. QED
        BY <4>1 DEF World, ClientEnters, ClientHangsUp, TimerFires, AgentAnswers, AgentFails,
           AgentHangsUp, world
    <3>2. ASSUME NEW g \in gos, PublishNew(g) PROVE FALSE
      BY <2>0, <3>2, AttemptFacts DEF PublishNew, DataOK
    <3>3. ASSUME NEW g \in gos, Step(g) PROVE Send(g)
      <4>1. ~EnterStep(g)
        BY <3>2, <3>3, FailureGivesUp DEF EnterStep, RejectSetup, RegisterCall, QueueProcessStart,
           ScheduleTimeout, GivesUp, world
      <4>2. ~OfferStep(g)
        BY FailureGivesUp DEF OfferStep, OfferLookup, OfferIgnored, OfferDismissed, OfferBeyondLimit,
           OfferTaken, AddAgentCallMap, Originate, OriginateFails, GivesUp, world
      <4>3. ~AgentEnterStep(g) /\ ~BridgeStep(g)
        BY DEF AgentEnterStep, LegLookup, LateAgentGone, AgentJoins, BridgeStep, SetBridged,
           CreateBridge, AddClient, AddLeg, AddOutBoundCall, SetMemberVariable, PublishAccepted, world
      <4>4. ~NoAnswerStep(g) /\ ~AgentLeaveStep(g) /\ ~ClientLeaveStep(g) /\ ~TimeoutStep(g)
        BY DEF NoAnswerStep, AgentLeaveStep, LegLookup, AgentLeft, AgentLeftFails, CallerKept,
           ClientLeaveStep, ClientLeft, ReasonOfLeave, AlreadyTerminated, Terminate, LogOnTerminate,
           LogOnTerminateFails, RemoveCall, TimeoutStep, TimeoutLookup, TimeoutReached, world
      <4>5. ~ReSetupStep(g) /\ ~CancelTimer(g) /\ ~HangupClient(g) /\ ~HangupClientFails(g) /\ ~SendFails(g)
        BY FailureGivesUp DEF ReSetupStep, ResetCall, TearDown, Unmap, PublishRejected,
           CancelTimer, HangupClient, GivesUp, world
      <4>6. QED
        BY <3>3, <4>1, <4>2, <4>3, <4>4, <4>5 DEF Step
    <3>4. QED
      BY <3>1, <3>3 DEF Next, Engine, Panic, vars, world
  <2>2. /\ g.c \in Calls /\ InPlace(g) /\ g \in Goroutine /\ g.f \in Handlers
        /\ Names(g.c) /\ call[g.c] \in Call
    BY <2>1, AttemptFacts DEF Goroutine
  <2>3. aid' = [aid EXCEPT ![g.c] = [state |-> g.arg, user |-> NamedUser(g)]]
    BY <2>1 DEF Send
  <2>4. g.c = c /\ g.arg = "Accepted" /\ aid'[c].user = NamedUser(g)
    BY <2>0, <2>2, <2>3 DEF DataOK
  <2>5. g.f \in Sending
    BY <2>1, <2>2 DEF InPlace, Send, Handlers, Sending, Ending, ReSetup
  <2>6. call[c].bridged = g.leg /\ g.user = g.leg[2] /\ g.leg \in Legs
    <3>1. Carried(g)
      BY <2>4, <2>5 DEF Carries, AttemptInv
    <3>2. QED
      BY <2>4, <2>5, <3>1 DEF Carried
  <2>7. g.leg # NoLeg /\ g.user # NoUser
    BY <2>6, NoLegAssumption, CallAssumption DEF Legs
  <2>8. QED
    BY <2>4, <2>6, <2>7 DEF NamedUser
<1>2. QED
  BY <1>1, InitAttempt, AttemptInductive, PTL DEF Spec, AcceptedNamesAgent
=============================================================================

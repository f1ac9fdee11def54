---------------------------- MODULE Announce_proofs ----------------------------
(***************************************************************************)
(* Theorems about Announce, for every set of kinds, every limit of plays   *)
(* and every definition of the queue: types, one chain of each kind, the   *)
(* turn, silence while the caller talks, music while the caller waits, and *)
(* that the sessions keep the promise of AnnounceTurn.                     *)
(***************************************************************************)
EXTENDS Announce, TLAPS

-----------------------------------------------------------------------------
(* Lines *)

\* The startMoh goroutines, counted.
Mohs == [request : Nat, flag : Nat]

Elements(s) == {s[i] : i \in DOMAIN s}
Distinct(s) == \A i, j \in DOMAIN s : s[i] = s[j] => i = j

\* Who asks is added to the line.
LEMMA AppendLine ==
  ASSUME NEW S, NEW s \in Seq(S), NEW k \in S
  PROVE  /\ Append(s, k) \in Seq(S)
         /\ Elements(Append(s, k)) = Elements(s) \cup {k}
         /\ Distinct(s) /\ k \notin Elements(s) => Distinct(Append(s, k))
<1> DEFINE t == Append(s, k)
<1>1. t \in Seq(S) /\ Len(t) = Len(s) + 1 /\ t[Len(t)] = k
      /\ \A i \in 1 .. Len(s) : t[i] = s[i]
  OBVIOUS
<1>2. DOMAIN s = 1 .. Len(s) /\ DOMAIN t = 1 .. Len(t) /\ Len(s) \in Nat
  BY <1>1
<1> HIDE DEF t
<1>3. Elements(t) \subseteq Elements(s) \cup {k}
  BY <1>1, <1>2 DEF Elements
<1>4. Elements(s) \subseteq Elements(t)
  BY <1>1, <1>2 DEF Elements
<1>5. k \in Elements(t)
  BY <1>1, <1>2 DEF Elements
<1>6. Distinct(s) /\ k \notin Elements(s) => Distinct(t)
  BY <1>1, <1>2 DEF Elements, Distinct
<1>7. Elements(t) = Elements(s) \cup {k}
  BY <1>3, <1>4, <1>5
<1> USE DEF t
<1> QED BY <1>1, <1>6, <1>7

\* The first leaves the line.
LEMMA TailLine ==
  ASSUME NEW S, NEW s \in Seq(S), s # <<>>
  PROVE  /\ Tail(s) \in Seq(S) /\ Head(s) \in S /\ Head(s) \in Elements(s)
         /\ Elements(Tail(s)) \subseteq Elements(s)
         /\ Distinct(s) => Distinct(Tail(s)) /\ Head(s) \notin Elements(Tail(s))
<1> DEFINE t == Tail(s)
<1>1. t \in Seq(S) /\ Head(s) \in S /\ Head(s) = s[1]
      /\ \A i \in 1 .. Len(t) : t[i] = s[i + 1]
  OBVIOUS
<1>2. /\ DOMAIN s = 1 .. Len(s) /\ DOMAIN t = 1 .. Len(t)
      /\ Len(s) \in Nat /\ Len(s) > 0 /\ Len(t) = Len(s) - 1
  BY <1>1
<1> HIDE DEF t
<1>3. \A i \in DOMAIN t : i + 1 \in DOMAIN s /\ t[i] = s[i + 1] /\ i + 1 # 1
  BY <1>1, <1>2
<1>4. 1 \in DOMAIN s
  BY <1>2
<1>5. Head(s) \in Elements(s)
  BY <1>1, <1>4 DEF Elements
<1>6. Elements(t) \subseteq Elements(s)
  BY <1>3 DEF Elements
<1>7. ASSUME Distinct(s) PROVE Distinct(t)
  <2> SUFFICES ASSUME NEW i \in DOMAIN t, NEW j \in DOMAIN t, t[i] = t[j] PROVE i = j
    BY DEF Distinct
  <2>1. i + 1 = j + 1
    BY <1>3, <1>7 DEF Distinct
  <2> QED BY <1>2, <2>1
<1>8. ASSUME Distinct(s) PROVE Head(s) \notin Elements(t)
  BY <1>1, <1>3, <1>4, <1>8 DEF Distinct, Elements
<1> USE DEF t
<1> QED BY <1>1, <1>5, <1>6, <1>7, <1>8

\* An empty line has nobody in it.
LEMMA EmptyLine == Elements(<<>>) = {} /\ Distinct(<<>>)
BY DEF Elements, Distinct

\* InLine is the set of those who wait.
LEMMA LineOf == InLine = Elements(waiting)
BY DEF InLine, Elements

-----------------------------------------------------------------------------
(* The inductive invariant *)

Sessions == {"start", "play", "playing", "ending"}

\* Whoever is on the way to a session may still be played.
PlaysLeft ==
  \A k \in Kinds :
    k # "Client" /\ (pc[k] \in {"task", "run", "start"} \/ k \in Elements(waiting))
      => plays[k] < MaxPlays

\* Nothing is announced before queueProcessStart has set the announcements up.
BeforeEntry ==
  entry # "done" =>
    /\ waiting = <<>> /\ (\A k \in Kinds : pc[k] = "none")
    /\ timeout = "none" /\ mohs.request = 0 /\ mohs.flag = 0
    /\ state # "Bridged"

\* Every kind is in one place.
OnePlace ==
  /\ ~doubled
  /\ Distinct(waiting)
  /\ \A k \in Elements(waiting) : pc[k] = "none"

\* The session that exists has the turn, and its cancel function once it plays.
OneSession ==
  /\ preparing # NoKind => current = NoKind
  /\ \A k \in Kinds : pc[k] \in Sessions => current = k /\ preparing = NoKind
  /\ \A k \in Kinds : pc[k] \in {"play", "playing"} => cancelFunc = k

\* Music without the flag has a startMoh behind it that will set the flag, or that failed.
MusicKnown ==
  /\ ~alive => ~music
  /\ entry \in {"start", "moh"} => ~music
  /\ entry = "schedule" /\ music => mohFlag
  /\ entry = "done" /\ music /\ ~mohFlag => MohUnderWay \/ mohRaced \/ "startMoh" \in failed
  /\ state = "Bridged" /\ MohUnderWay => mohRaced

\* What a new state needs: everything holds at the start.
LEMMA InitHolds ==
  Init => /\ TypeOK /\ PlaysLeft /\ BeforeEntry /\ OnePlace /\ OneSession /\ MusicKnown
          /\ TurnNotForgotten /\ QuietWhileTalking /\ NoMusicWhileTalking
<1> SUFFICES ASSUME Init
             PROVE  /\ TypeOK /\ PlaysLeft /\ BeforeEntry /\ OnePlace /\ OneSession /\ MusicKnown
                    /\ TurnNotForgotten /\ QuietWhileTalking /\ NoMusicWhileTalking
  OBVIOUS
<1> USE AnnounceAssumption DEF Init
<1>1. TypeOK
  <2>1. /\ state \in {"New", "InQueue", "Bridged", "Terminated"}
        /\ current \in Kinds \cup {NoKind} /\ preparing \in Kinds \cup {NoKind}
        /\ waiting \in Seq(Kinds) /\ cancelFunc \in Kinds \cup {NoKind}
    OBVIOUS
  <2>2. pc \in [Kinds -> Places] /\ plays \in [Kinds -> 0 .. MaxPlays]
        /\ cancelled \subseteq Kinds /\ escaped \subseteq Kinds
    BY DEF Places
  <2>3. mohs \in [request : Nat, flag : Nat]
    OBVIOUS
  <2>4. /\ entry \in {"start", "moh", "flag", "schedule", "done", "failed"}
        /\ timeout \in {"none", "armed", "fired", "cancel", "stop", "hangup"}
        /\ ending \in {"no", "terminate", "cancel", "log", "gone"}
        /\ queue \in QueueDefs
        /\ joins \in 0 .. MaxJoins /\ returns \in 0 .. MaxReturns /\ edits \in 0 .. MaxEdits
    OBVIOUS
  <2>5. /\ mohFlag \in BOOLEAN /\ alive \in BOOLEAN /\ music \in BOOLEAN /\ down \in BOOLEAN
        /\ doubled \in BOOLEAN /\ abandoned \in BOOLEAN /\ mohRaced \in BOOLEAN
        /\ failed \subseteq Requests
    OBVIOUS
  <2> QED BY <2>1, <2>2, <2>3, <2>4, <2>5 DEF TypeOK
<1>2. PlaysLeft
  BY EmptyLine DEF PlaysLeft
<1>3. BeforeEntry /\ OneSession
  BY DEF BeforeEntry, OneSession, Sessions
<1>4. OnePlace
  BY EmptyLine DEF OnePlace
<1>5. MusicKnown
  BY DEF MusicKnown
<1>6. TurnNotForgotten /\ QuietWhileTalking /\ NoMusicWhileTalking
  BY DEF TurnNotForgotten, QuietWhileTalking, NoMusicWhileTalking
<1> QED BY <1>1, <1>2, <1>3, <1>4, <1>5, <1>6

-----------------------------------------------------------------------------
(* Types *)

\* One startMoh more, and one that has made its request or set its flag.
LEMMA MohsType ==
  ASSUME NEW m \in Mohs
  PROVE  /\ [m EXCEPT !.request = @ + 1] \in Mohs
         /\ m.request > 0 => /\ [request |-> m.request - 1, flag |-> m.flag + 1] \in Mohs
                             /\ [m EXCEPT !.request = @ - 1] \in Mohs
         /\ m.flag > 0 => [m EXCEPT !.flag = @ - 1] \in Mohs
BY DEF Mohs

\* What can be cancelled is the session of a kind.
LEMMA CancelType ==
  ASSUME TypeOK, CancelSession
  PROVE  cancelled' \subseteq Kinds /\ cancelled \subseteq cancelled'
         /\ (cancelFunc \in Kinds => cancelFunc \in cancelled')
BY AnnounceAssumption DEF TypeOK, CancelSession

\* A request that fails, or succeeds, is one of three.
LEMMA FailedType ==
  ASSUME TypeOK
  PROVE  /\ \A r \in Requests : Fails(r) \/ Succeeds(r) => failed' \subseteq Requests
         /\ StopMoh => mohFlag' \in BOOLEAN /\ music' \in BOOLEAN /\ failed' \subseteq Requests
<1>1. \A r \in Requests : Fails(r) \/ Succeeds(r) => failed' \subseteq Requests
  BY DEF TypeOK, Fails, Succeeds
<1>2. mohFlag \in BOOLEAN /\ music \in BOOLEAN
  BY DEF TypeOK
<1>3. StopMoh => mohFlag' \in BOOLEAN /\ music' \in BOOLEAN
  BY <1>2, Zenon DEF StopMoh
<1>4. StopMoh => failed' \subseteq Requests
  BY <1>1 DEF StopMoh, Requests
<1> QED BY <1>1, <1>3, <1>4, Zenon

\* Every step keeps the types: the play counters stop at the limit, and an
\* announcement that is scheduled has a play left.
LEMMA TypeStep ==
  TypeOK /\ PlaysLeft /\ [Next]_vars => TypeOK'
<1> SUFFICES ASSUME TypeOK, PlaysLeft, [Next]_vars PROVE TypeOK'
  OBVIOUS
<1> mohs \in Mohs
  BY DEF TypeOK, Mohs
<1> USE AnnounceAssumption DEF TypeOK, Places, turnVars, playVars, mohVars, callVars, worldVars,
        history, Goto
<1>1. CASE EnterQueue        BY <1>1 DEF EnterQueue
<1>2. CASE EnterMoh          BY <1>2 DEF EnterMoh
<1>33. CASE EnterMohFails
  <2>1. failed' \subseteq Requests
    BY <1>33, FailedType DEF EnterMohFails, Requests
  <2> QED BY <1>33, <2>1 DEF EnterMohFails
<1>3. CASE EnterMohFlag      BY <1>3 DEF EnterMohFlag
<1>4. CASE ScheduleActions   BY <1>4 DEF ScheduleActions
<1>5. ASSUME NEW k \in Kinds, Setup(k) PROVE TypeOK'
  BY <1>5 DEF Setup
<1>6. ASSUME NEW k \in Kinds, TaskFires(k) PROVE TypeOK'
  BY <1>6 DEF TaskFires
<1>7. ASSUME NEW k \in Kinds, RunDropped(k) PROVE TypeOK'
  BY <1>7 DEF RunDropped
<1>8. ASSUME NEW k \in Kinds, TakeTurn(k) PROVE TypeOK'
  BY <1>8 DEF TakeTurn
<1>9. ASSUME NEW k \in Kinds, WaitForTurn(k) PROVE TypeOK'
  <2>1. waiting' \in Seq(Kinds)
    BY <1>9, AppendLine DEF WaitForTurn
  <2> QED BY <1>9, <2>1 DEF WaitForTurn
<1>10. ASSUME NEW k \in Kinds, SetActionProperties(k) PROVE TypeOK'
  <2>1. k # "Client" => plays[k] + 1 \in 0 .. MaxPlays
    BY <1>10 DEF SetActionProperties, PlaysLeft
  <2> QED BY <1>10, <2>1 DEF SetActionProperties
<1>11. ASSUME NEW k \in Kinds, Play(k) PROVE TypeOK'
  <2>1. music' \in BOOLEAN
    BY <1>11, Zenon DEF Play
  <2> QED BY <1>11, <2>1 DEF Play
<1>12. ASSUME NEW k \in Kinds, PlayEnds(k) PROVE TypeOK'
  BY <1>12 DEF PlayEnds
<1>13. ASSUME NEW k \in Kinds, EndPasses(k) PROVE TypeOK'
  <2>1. waiting' \in Seq(Kinds) /\ preparing' \in Kinds
    BY <1>13, TailLine DEF EndPasses
  <2>2. pc' \in [Kinds -> Places]
    BY <1>13 DEF EndPasses, Rescheduled
  <2>3. cancelled' \subseteq Kinds
    BY <1>13, CancelType DEF EndPasses
  <2>4. doubled' \in BOOLEAN
    BY <1>13, Zenon DEF EndPasses
  <2>5. /\ current' = NoKind /\ cancelFunc' = NoKind
        /\ UNCHANGED <<plays, mohVars, callVars, worldVars, escaped, abandoned, mohRaced, failed>>
    BY <1>13 DEF EndPasses
  <2> QED BY <2>1, <2>2, <2>3, <2>4, <2>5
<1>14. ASSUME NEW k \in Kinds, EndFrees(k) PROVE TypeOK'
  <2>1. mohs' \in Mohs
    BY <1>14, MohsType DEF EndFrees
  <2>2. cancelled' \subseteq Kinds
    BY <1>14, CancelType DEF EndFrees
  <2>3. pc' \in [Kinds -> Places]
    BY <1>14 DEF EndFrees, Rescheduled
  <2>4. /\ current' = NoKind /\ preparing' = NoKind /\ cancelFunc' = NoKind /\ mohFlag' = FALSE
        /\ UNCHANGED <<waiting, plays, music, callVars, worldVars, history>>
    BY <1>14 DEF EndFrees
  <2>5. mohFlag' \in BOOLEAN
    BY <2>4
  <2> HIDE DEF Goto, Places
  <2> QED BY <2>1, <2>2, <2>3, <2>4, <2>5 DEF Mohs
<1>15. ASSUME NEW k \in Kinds, EndDrops(k) PROVE TypeOK'
  <2>1. cancelled' \subseteq Kinds
    BY <1>15, CancelType DEF EndDrops
  <2>2. waiting' \in Seq(Kinds)
    BY <1>15 DEF EndDrops
  <2>3. pc' \in [Kinds -> Places]
    BY <1>15 DEF EndDrops, WithoutTasks
  <2> QED BY <1>15, <2>1, <2>2, <2>3 DEF EndDrops
<1>16. ASSUME NEW k \in Kinds, EndUnregistered(k) PROVE TypeOK'
  BY <1>16 DEF EndUnregistered
<1>17. CASE MohRequest
  <2>1. mohs' \in Mohs /\ music' \in BOOLEAN
    BY <1>17, MohsType DEF MohRequest
  <2>2. UNCHANGED <<turnVars, playVars, mohFlag, callVars, worldVars, doubled, escaped, abandoned, mohRaced>>
    BY <1>17 DEF MohRequest
  <2>3. failed' \subseteq Requests
    BY <1>17, FailedType DEF MohRequest, Requests
  <2> QED BY <2>1, <2>2, <2>3 DEF Mohs
<1>34. CASE MohRequestFails
  <2>1. mohs' \in Mohs
    BY <1>34, MohsType DEF MohRequestFails
  <2>2. /\ UNCHANGED <<turnVars, playVars, mohFlag, music, callVars, worldVars>>
        /\ UNCHANGED <<doubled, escaped, abandoned, mohRaced>>
    BY <1>34 DEF MohRequestFails
  <2>3. failed' \subseteq Requests
    BY <1>34, FailedType DEF MohRequestFails, Requests
  <2> QED BY <2>1, <2>2, <2>3 DEF Mohs
<1>18. CASE MohStarted
  <2>1. mohs' \in Mohs
    BY <1>18, MohsType DEF MohStarted
  <2>2. mohFlag' = TRUE /\ UNCHANGED <<turnVars, playVars, music, callVars, worldVars, history>>
    BY <1>18 DEF MohStarted
  <2> QED BY <2>1, <2>2 DEF Mohs
<1>19. CASE AgentJoins
  <2>1. cancelled' \subseteq Kinds
    BY <1>19, CancelType DEF AgentJoins
  <2>2. waiting' \in Seq(Kinds) /\ escaped' \subseteq Kinds
    BY <1>19 DEF AgentJoins
  <2>3. pc' \in [Kinds -> Places] /\ timeout' \in {"none", "armed", "fired", "cancel", "stop", "hangup"}
    BY <1>19 DEF AgentJoins, CancelByCallID, WithoutTasks
  <2>4. mohFlag' \in BOOLEAN /\ music' \in BOOLEAN /\ failed' \subseteq Requests
    BY <1>19, FailedType DEF AgentJoins
  <2>5. mohRaced' \in BOOLEAN
    BY <1>19, Zenon DEF AgentJoins
  <2> QED BY <1>19, <2>1, <2>2, <2>3, <2>4, <2>5 DEF AgentJoins
<1>20. CASE ReturnToQueue
  <2>1. mohs' \in Mohs
    BY <1>20, MohsType DEF ReturnToQueue
  <2>2. state' = "InQueue" /\ returns' \in 0 .. MaxReturns
    BY <1>20 DEF ReturnToQueue
  <2>3. UNCHANGED <<turnVars, playVars, mohFlag, music, entry, timeout, ending, alive,
                    queue, joins, edits, down, history>>
    BY <1>20 DEF ReturnToQueue
  <2> QED BY <2>1, <2>2, <2>3 DEF Mohs
<1>21. CASE QueueChanges     BY <1>21 DEF QueueChanges
<1>22. CASE TimeoutFires     BY <1>22 DEF TimeoutFires
<1>23. CASE TimeoutChecks    BY <1>23 DEF TimeoutChecks
<1>24. CASE TimeoutCancels   BY <1>24 DEF TimeoutCancels, WithoutTasks
<1>25. CASE TimeoutStops
  <2>1. cancelled' \subseteq Kinds /\ waiting' \in Seq(Kinds)
    BY <1>25, CancelType DEF TimeoutStops
  <2>2. mohFlag' \in BOOLEAN /\ music' \in BOOLEAN /\ failed' \subseteq Requests
    BY <1>25, FailedType DEF TimeoutStops
  <2> QED BY <1>25, <2>1, <2>2 DEF TimeoutStops
<1>26. CASE TimeoutHangsUp
  <2>1. ending' \in {"no", "terminate", "cancel", "log", "gone"}
    BY <1>26 DEF TimeoutHangsUp, ChannelEnds
  <2>2. alive' \in BOOLEAN /\ music' \in BOOLEAN
    BY <1>26 DEF TimeoutHangsUp, ChannelEnds
  <2> QED BY <1>26, <2>1, <2>2 DEF TimeoutHangsUp
<1>35. CASE TimeoutHangupFails
  <2>1. failed' \subseteq Requests
    BY <1>35, FailedType DEF TimeoutHangupFails, Requests
  <2> QED BY <1>35, <2>1 DEF TimeoutHangupFails
<1>27. CASE CallerHangsUp
  <2>1. ending' \in {"no", "terminate", "cancel", "log", "gone"}
    BY <1>27 DEF CallerHangsUp, ChannelEnds
  <2>2. alive' \in BOOLEAN /\ music' \in BOOLEAN
    BY <1>27 DEF CallerHangsUp, ChannelEnds
  <2> QED BY <1>27, <2>1, <2>2 DEF CallerHangsUp
<1>28. CASE Terminate
  <2>1. cancelled' \subseteq Kinds /\ waiting' \in Seq(Kinds)
    BY <1>28, CancelType DEF Terminate
  <2> QED BY <1>28, <2>1 DEF Terminate
<1>29. CASE TerminateCancels BY <1>29 DEF TerminateCancels, CancelByCallID, WithoutTasks
<1>30. CASE RemoveCall       BY <1>30 DEF RemoveCall
<1>31. CASE Crash            BY <1>31 DEF Crash
<1>32. CASE UNCHANGED vars   BY <1>32 DEF vars
<1> QED
  BY <1>1, <1>2, <1>3, <1>4, <1>5, <1>6, <1>7, <1>8, <1>9, <1>10, <1>11, <1>12, <1>13, <1>14,
     <1>15, <1>16, <1>17, <1>18, <1>19, <1>20, <1>21, <1>22, <1>23, <1>24, <1>25, <1>26, <1>27,
     <1>28, <1>29, <1>30, <1>31, <1>32, <1>33, <1>34, <1>35
     DEF Next, Engine, StartMoh, World, Entry, Chain, EndAction, Timeout, Ending,
         PlayCrashes, JoinCrashes, TimeoutCrashes, LogCrashes
-----------------------------------------------------------------------------
(* The chains *)

\* What agents, the timeout and the end of the call do to the announcements: they drop
\* the line and the tasks, and cancel sessions.  Everything else leaves them alone.
Dismissal ==
  /\ waiting' = waiting \/ waiting' = <<>>
  /\ pc' = pc \/ pc' = WithoutTasks
  /\ cancelled \subseteq cancelled'
  /\ UNCHANGED <<current, preparing, cancelFunc, plays, doubled, abandoned>>
  /\ (state' = state /\ escaped' = escaped) \/ state' # "Bridged" \/ AgentJoins

\* The steps of the chain of k.
ChainStep(k) ==
  \/ Setup(k) \/ TaskFires(k) \/ RunDropped(k) \/ TakeTurn(k) \/ WaitForTurn(k)
  \/ SetActionProperties(k) \/ Play(k) \/ PlayEnds(k)
  \/ EndPasses(k) \/ EndFrees(k) \/ EndDrops(k) \/ EndUnregistered(k)

\* Every step is of a chain, or sets the announcements up, or dismisses some of them.
LEMMA StepKinds ==
  ASSUME TypeOK, [Next]_vars
  PROVE  Dismissal \/ ScheduleActions \/ \E k \in Kinds : ChainStep(k)
<1> USE DEF Dismissal, turnVars, playVars, mohVars, callVars, worldVars, history
<1>1. CASE Entry
  <2>1. EnterQueue => Dismissal    BY DEF EnterQueue
  <2>2. EnterMoh => Dismissal      BY DEF EnterMoh
  <2>3. EnterMohFlag => Dismissal  BY DEF EnterMohFlag
  <2>4. EnterMohFails => Dismissal BY DEF EnterMohFails
  <2> QED BY <1>1, <2>1, <2>2, <2>3, <2>4 DEF Entry
<1>2. ASSUME NEW k \in Kinds, Chain(k)
      PROVE  Dismissal \/ \E j \in Kinds : ChainStep(j)
  <2>1. PlayCrashes(k) => Dismissal
    BY DEF PlayCrashes, Crash
  <2> QED BY <1>2, <2>1 DEF Chain, EndAction, ChainStep
<1>3. CASE StartMoh \/ MohStarted
  BY <1>3 DEF StartMoh, MohRequest, MohRequestFails, MohStarted
<1>4. CASE Timeout
  <2>1. TimeoutChecks => Dismissal   BY DEF TimeoutChecks
  <2>2. TimeoutCancels => Dismissal  BY DEF TimeoutCancels
  <2>3. TimeoutStops => Dismissal    BY DEF TimeoutStops, CancelSession
  <2>4. TimeoutCrashes => Dismissal  BY DEF TimeoutCrashes, Crash
  <2>5. TimeoutHangsUp => Dismissal  BY DEF TimeoutHangsUp
  <2>6. TimeoutHangupFails => Dismissal  BY DEF TimeoutHangupFails
  <2> QED BY <1>4, <2>1, <2>2, <2>3, <2>4, <2>5, <2>6 DEF Timeout
<1>5. CASE Ending
  <2>1. Terminate => Dismissal         BY DEF Terminate, CancelSession
  <2>2. TerminateCancels => Dismissal  BY DEF TerminateCancels, CancelByCallID
  <2>3. RemoveCall => Dismissal        BY DEF RemoveCall
  <2>4. LogCrashes => Dismissal        BY DEF LogCrashes, Crash
  <2> QED BY <1>5, <2>1, <2>2, <2>3, <2>4 DEF Ending
<1>6. CASE AgentJoins
  BY <1>6 DEF AgentJoins, CancelByCallID, CancelSession
<1>7. CASE JoinCrashes \/ QueueChanges \/ TimeoutFires \/ CallerHangsUp
  BY <1>7 DEF JoinCrashes, Crash, QueueChanges, TimeoutFires, CallerHangsUp
<1>8. CASE ReturnToQueue
  BY <1>8 DEF ReturnToQueue
<1>9. ASSUME NEW k \in Kinds, TaskFires(k)
      PROVE  \E j \in Kinds : ChainStep(j)
  BY <1>9 DEF ChainStep
<1>10. CASE UNCHANGED vars
  BY <1>10 DEF vars
<1> HIDE DEF Dismissal
<1> QED
  BY <1>1, <1>2, <1>3, <1>4, <1>5, <1>6, <1>7, <1>8, <1>9, <1>10 DEF Next, Engine, World, Entry

\* The first in line was waiting nowhere else: no chain is ever doubled.
LEMMA OnePlaceStep ==
  TypeOK /\ BeforeEntry /\ OnePlace /\ [Next]_vars => OnePlace'
<1> SUFFICES ASSUME TypeOK, BeforeEntry, OnePlace, [Next]_vars PROVE OnePlace'
  OBVIOUS
<1> waiting \in Seq(Kinds) /\ pc \in [Kinds -> Places] /\ Elements(waiting) \subseteq Kinds
  BY DEF TypeOK, Elements
<1> USE DEF OnePlace, turnVars, history, Goto
<1>1. CASE Dismissal
  BY <1>1, EmptyLine DEF Dismissal, WithoutTasks
<1>2. CASE ScheduleActions
  BY <1>2, EmptyLine DEF ScheduleActions, BeforeEntry
<1>3. ASSUME NEW k \in Kinds, Setup(k) PROVE OnePlace'
  BY <1>3 DEF Setup
<1>4. ASSUME NEW k \in Kinds, TaskFires(k) PROVE OnePlace'
  BY <1>4 DEF TaskFires
<1>5. ASSUME NEW k \in Kinds, RunDropped(k) PROVE OnePlace'
  BY <1>5 DEF RunDropped
<1>6. ASSUME NEW k \in Kinds, TakeTurn(k) PROVE OnePlace'
  BY <1>6 DEF TakeTurn, Runs
<1>7. ASSUME NEW k \in Kinds, WaitForTurn(k) PROVE OnePlace'
  <2>1. k \notin Elements(waiting)
    BY <1>7 DEF WaitForTurn, Runs
  <2>2. Distinct(waiting') /\ Elements(waiting') = Elements(waiting) \cup {k}
    BY <1>7, <2>1, AppendLine DEF WaitForTurn
  <2> QED BY <1>7, <2>2 DEF WaitForTurn
<1>8. ASSUME NEW k \in Kinds, SetActionProperties(k) PROVE OnePlace'
  BY <1>8 DEF SetActionProperties
<1>9. ASSUME NEW k \in Kinds, Play(k) PROVE OnePlace'
  BY <1>9 DEF Play
<1>10. ASSUME NEW k \in Kinds, PlayEnds(k) PROVE OnePlace'
  BY <1>10 DEF PlayEnds
<1>11. ASSUME NEW k \in Kinds, EndPasses(k) PROVE OnePlace'
  <2> DEFINE next == Head(waiting)
  <2>1. /\ next \in Elements(waiting) /\ Distinct(waiting') /\ next \notin Elements(waiting')
        /\ Elements(waiting') \subseteq Elements(waiting)
    BY <1>11, TailLine DEF EndPasses
  <2>2. pc[next] = "none" /\ k \notin Elements(waiting)
    BY <1>11, <2>1 DEF EndPasses
  <2>3. ~doubled'
    BY <1>11, <2>2, Zenon DEF EndPasses
  <2>4. \A j \in Elements(waiting') : pc'[j] = "none"
    BY <1>11, <2>1, <2>2 DEF EndPasses
  <2> QED BY <2>1, <2>3, <2>4
<1>12. ASSUME NEW k \in Kinds, EndFrees(k) PROVE OnePlace'
  BY <1>12, EmptyLine DEF EndFrees
<1>13. ASSUME NEW k \in Kinds, EndDrops(k) PROVE OnePlace'
  BY <1>13, EmptyLine DEF EndDrops
<1>14. ASSUME NEW k \in Kinds, EndUnregistered(k) PROVE OnePlace'
  BY <1>14 DEF EndUnregistered
<1> QED
  BY StepKinds, <1>1, <1>2, <1>3, <1>4, <1>5, <1>6, <1>7, <1>8, <1>9, <1>10, <1>11, <1>12,
     <1>13, <1>14 DEF ChainStep

\* Set-ups look at the play counters, and nothing else makes a chain pending.
LEMMA PlaysLeftStep ==
  TypeOK /\ BeforeEntry /\ OnePlace /\ PlaysLeft /\ [Next]_vars => PlaysLeft'
<1> SUFFICES ASSUME TypeOK, BeforeEntry, OnePlace, PlaysLeft, [Next]_vars PROVE PlaysLeft'
  OBVIOUS
<1> waiting \in Seq(Kinds) /\ pc \in [Kinds -> Places] /\ plays \in [Kinds -> 0 .. MaxPlays]
    /\ Elements(waiting) \subseteq Kinds
  BY DEF TypeOK, Elements
<1> USE DEF PlaysLeft, turnVars, Goto
<1>1. CASE Dismissal
  BY <1>1, EmptyLine DEF Dismissal, WithoutTasks
<1>2. CASE ScheduleActions
  <2>1. Elements(waiting') = {} /\ \A k \in Kinds \ {"Client"} : pc'[k] \in {"none", "setup"}
    BY <1>2, EmptyLine DEF ScheduleActions, BeforeEntry
  <2> QED BY <2>1
<1>3. ASSUME NEW k \in Kinds, Setup(k) PROVE PlaysLeft'
  BY <1>3 DEF Setup
<1>4. ASSUME NEW k \in Kinds, TaskFires(k) PROVE PlaysLeft'
  BY <1>4 DEF TaskFires
<1>5. ASSUME NEW k \in Kinds, RunDropped(k) PROVE PlaysLeft'
  BY <1>5 DEF RunDropped
<1>6. ASSUME NEW k \in Kinds, TakeTurn(k) PROVE PlaysLeft'
  BY <1>6 DEF TakeTurn, Runs
<1>7. ASSUME NEW k \in Kinds, WaitForTurn(k) PROVE PlaysLeft'
  <2>1. Elements(waiting') = Elements(waiting) \cup {k}
    BY <1>7, AppendLine DEF WaitForTurn
  <2> QED BY <1>7, <2>1 DEF WaitForTurn, Runs
<1>8. ASSUME NEW k \in Kinds, SetActionProperties(k) PROVE PlaysLeft'
  <2>1. k \notin Elements(waiting)
    BY <1>8 DEF SetActionProperties, OnePlace
  <2> QED BY <1>8, <2>1 DEF SetActionProperties
<1>9. ASSUME NEW k \in Kinds, Play(k) PROVE PlaysLeft'
  BY <1>9 DEF Play
<1>10. ASSUME NEW k \in Kinds, PlayEnds(k) PROVE PlaysLeft'
  BY <1>10 DEF PlayEnds
<1>11. ASSUME NEW k \in Kinds, EndPasses(k) PROVE PlaysLeft'
  <2>1. Head(waiting) \in Elements(waiting) /\ Elements(waiting') \subseteq Elements(waiting)
    BY <1>11, TailLine DEF EndPasses
  <2>2. \A j \in Kinds : pc'[j] \in {"task", "run", "start"} =>
          pc[j] \in {"task", "run", "start"} \/ j = Head(waiting)
    BY <1>11, <2>1 DEF EndPasses, Rescheduled
  <2>3. plays' = plays
    BY <1>11 DEF EndPasses
  <2> QED BY <2>1, <2>2, <2>3
<1>12. ASSUME NEW k \in Kinds, EndFrees(k) PROVE PlaysLeft'
  BY <1>12 DEF EndFrees, Rescheduled
<1>13. ASSUME NEW k \in Kinds, EndDrops(k) PROVE PlaysLeft'
  BY <1>13, EmptyLine DEF EndDrops, WithoutTasks
<1>14. ASSUME NEW k \in Kinds, EndUnregistered(k) PROVE PlaysLeft'
  BY <1>14 DEF EndUnregistered
<1> QED
  BY StepKinds, <1>1, <1>2, <1>3, <1>4, <1>5, <1>6, <1>7, <1>8, <1>9, <1>10, <1>11, <1>12,
     <1>13, <1>14 DEF ChainStep

-----------------------------------------------------------------------------
(* The turn *)

\* A session has the turn from isCallAvailForNextAction to onEndAction.
LEMMA OneSessionStep ==
  TypeOK /\ BeforeEntry /\ OneSession /\ [Next]_vars => OneSession'
<1> SUFFICES ASSUME TypeOK, BeforeEntry, OneSession, [Next]_vars PROVE OneSession'
  OBVIOUS
<1> waiting \in Seq(Kinds) /\ pc \in [Kinds -> Places] /\ preparing \in Kinds \cup {NoKind}
  BY DEF TypeOK
<1> USE AnnounceAssumption DEF OneSession, Sessions, turnVars, Goto
<1>1. CASE Dismissal
  BY <1>1 DEF Dismissal, WithoutTasks
<1>2. CASE ScheduleActions
  BY <1>2 DEF ScheduleActions, BeforeEntry
<1>3. ASSUME NEW k \in Kinds, Setup(k) PROVE OneSession'
  BY <1>3 DEF Setup
<1>4. ASSUME NEW k \in Kinds, TaskFires(k) PROVE OneSession'
  BY <1>4 DEF TaskFires
<1>5. ASSUME NEW k \in Kinds, RunDropped(k) PROVE OneSession'
  BY <1>5 DEF RunDropped
<1>6. ASSUME NEW k \in Kinds, TakeTurn(k) PROVE OneSession'
  <2>1. \A j \in Kinds : pc[j] \notin Sessions
    BY <1>6 DEF TakeTurn
  <2>2. current' = k /\ preparing' = NoKind /\ pc' = [pc EXCEPT ![k] = "start"]
    BY <1>6 DEF TakeTurn
  <2> QED BY <2>1, <2>2
<1>7. ASSUME NEW k \in Kinds, WaitForTurn(k) PROVE OneSession'
  BY <1>7 DEF WaitForTurn
<1>8. ASSUME NEW k \in Kinds, SetActionProperties(k) PROVE OneSession'
  BY <1>8 DEF SetActionProperties
<1>9. ASSUME NEW k \in Kinds, Play(k) PROVE OneSession'
  BY <1>9 DEF Play
<1>10. ASSUME NEW k \in Kinds, PlayEnds(k) PROVE OneSession'
  BY <1>10 DEF PlayEnds
<1>11. ASSUME NEW k \in Kinds, EndPasses(k) PROVE OneSession'
  <2>1. \A j \in Kinds : j # k => pc[j] \notin Sessions
    BY <1>11 DEF EndPasses
  <2>2. \A j \in Kinds : pc'[j] \notin Sessions
    BY <1>11, <2>1 DEF EndPasses, Rescheduled
  <2>3. current' = NoKind
    BY <1>11 DEF EndPasses
  <2> QED BY <2>2, <2>3
<1>12. ASSUME NEW k \in Kinds, EndFrees(k) PROVE OneSession'
  <2>1. \A j \in Kinds : j # k => pc[j] \notin Sessions
    BY <1>12 DEF EndFrees
  <2>2. \A j \in Kinds : pc'[j] \notin Sessions
    BY <1>12, <2>1 DEF EndFrees, Rescheduled
  <2>3. preparing' = NoKind
    BY <1>12 DEF EndFrees
  <2> QED BY <2>2, <2>3
<1>13. ASSUME NEW k \in Kinds, EndDrops(k) PROVE OneSession'
  <2>1. \A j \in Kinds : j # k => pc[j] \notin Sessions
    BY <1>13 DEF EndDrops
  <2>2. \A j \in Kinds : pc'[j] \notin Sessions
    BY <1>13, <2>1 DEF EndDrops, WithoutTasks
  <2> QED BY <1>13, <2>2 DEF EndDrops
<1>14. ASSUME NEW k \in Kinds, EndUnregistered(k) PROVE OneSession'
  BY <1>14 DEF EndUnregistered
<1> QED
  BY StepKinds, <1>1, <1>2, <1>3, <1>4, <1>5, <1>6, <1>7, <1>8, <1>9, <1>10, <1>11, <1>12,
     <1>13, <1>14 DEF ChainStep

\* The turn is handed on, given back, or kept by a chain that is over.
LEMMA TurnHeldStep ==
  TypeOK /\ BeforeEntry /\ OneSession /\ TurnNotForgotten /\ [Next]_vars => TurnNotForgotten'
<1> SUFFICES ASSUME TypeOK, BeforeEntry, OneSession, TurnNotForgotten, [Next]_vars
             PROVE  TurnNotForgotten'
  OBVIOUS
<1> waiting \in Seq(Kinds) /\ pc \in [Kinds -> Places] /\ preparing \in Kinds \cup {NoKind}
  BY DEF TypeOK
<1> USE AnnounceAssumption DEF TurnNotForgotten, InSession, turnVars, history, Goto
<1>1. CASE Dismissal
  BY <1>1 DEF Dismissal, WithoutTasks
<1>2. CASE ScheduleActions
  BY <1>2 DEF ScheduleActions, BeforeEntry
<1>3. ASSUME NEW k \in Kinds, Setup(k) PROVE TurnNotForgotten'
  BY <1>3 DEF Setup
<1>4. ASSUME NEW k \in Kinds, TaskFires(k) PROVE TurnNotForgotten'
  BY <1>4 DEF TaskFires
<1>5. ASSUME NEW k \in Kinds, RunDropped(k) PROVE TurnNotForgotten'
  <2>1. CASE preparing = k
    BY <1>5, <2>1 DEF RunDropped
  <2>2. CASE preparing # k
    BY <1>5, <2>2 DEF RunDropped
  <2> QED BY <2>1, <2>2
<1>6. ASSUME NEW k \in Kinds, TakeTurn(k) PROVE TurnNotForgotten'
  BY <1>6 DEF TakeTurn
<1>7. ASSUME NEW k \in Kinds, WaitForTurn(k) PROVE TurnNotForgotten'
  BY <1>7 DEF WaitForTurn, Runs
<1>8. ASSUME NEW k \in Kinds, SetActionProperties(k) PROVE TurnNotForgotten'
  BY <1>8 DEF SetActionProperties
<1>9. ASSUME NEW k \in Kinds, Play(k) PROVE TurnNotForgotten'
  BY <1>9 DEF Play
<1>10. ASSUME NEW k \in Kinds, PlayEnds(k) PROVE TurnNotForgotten'
  <2> DEFINE over == ~Registered \/ state = "Terminated"
  <2>1. CASE over
    BY <1>10, <2>1 DEF PlayEnds
  <2>2. CASE ~over
    BY <1>10, <2>2 DEF PlayEnds
  <2> QED BY <2>1, <2>2
<1>11. ASSUME NEW k \in Kinds, EndPasses(k) PROVE TurnNotForgotten'
  <2>1. Head(waiting) \in Kinds
    BY <1>11, TailLine DEF EndPasses
  <2> QED BY <1>11, <2>1 DEF EndPasses
<1>12. ASSUME NEW k \in Kinds, EndFrees(k) PROVE TurnNotForgotten'
  BY <1>12 DEF EndFrees
<1>13. ASSUME NEW k \in Kinds, EndDrops(k) PROVE TurnNotForgotten'
  BY <1>13 DEF EndDrops
<1>14. ASSUME NEW k \in Kinds, EndUnregistered(k) PROVE TurnNotForgotten'
  BY <1>14 DEF EndUnregistered
<1> QED
  BY StepKinds, <1>1, <1>2, <1>3, <1>4, <1>5, <1>6, <1>7, <1>8, <1>9, <1>10, <1>11, <1>12,
     <1>13, <1>14 DEF ChainStep

-----------------------------------------------------------------------------
(* Before the set-up, and while the caller talks *)

\* Only queueProcessStart comes before the announcements are set up.
LEMMA BeforeEntryStep ==
  TypeOK /\ BeforeEntry /\ [Next]_vars => BeforeEntry'
<1> SUFFICES ASSUME TypeOK, BeforeEntry, [Next]_vars, entry' # "done" PROVE BeforeEntry'
  BY DEF BeforeEntry
<1> USE DEF BeforeEntry, turnVars, playVars, mohVars, callVars, worldVars, history
<1>1. CASE ScheduleActions
  BY <1>1 DEF ScheduleActions
<1>2. CASE EnterQueue \/ EnterMoh \/ EnterMohFails \/ EnterMohFlag
  <2>1. CASE EnterQueue     BY <2>1 DEF EnterQueue
  <2>2. CASE EnterMoh       BY <2>2 DEF EnterMoh
  <2>3. CASE EnterMohFlag   BY <2>3 DEF EnterMohFlag
  <2>4. CASE EnterMohFails  BY <2>4 DEF EnterMohFails
  <2> QED BY <1>2, <2>1, <2>2, <2>3, <2>4
<1>3. ASSUME entry = "done" PROVE FALSE
  <2>1. \A k \in Kinds : ~(ChainStep(k) \/ PlayCrashes(k))
    BY <1>3 DEF ChainStep, Setup, TaskFires, RunDropped, TakeTurn, Runs, WaitForTurn,
       SetActionProperties, Play, PlayEnds, EndPasses, EndFrees, EndDrops, EndUnregistered,
       PlayCrashes, Crash
  <2>2. ~(StartMoh \/ MohStarted \/ Entry)
    BY <1>3 DEF StartMoh, MohRequest, MohRequestFails, MohStarted, Entry, EnterQueue, EnterMoh,
       EnterMohFails, EnterMohFlag, ScheduleActions
  <2>3. ~(AgentJoins \/ JoinCrashes \/ ReturnToQueue \/ QueueChanges \/ TimeoutFires \/ CallerHangsUp)
    BY <1>3 DEF AgentJoins, JoinCrashes, Crash, ReturnToQueue, QueueChanges, TimeoutFires,
       CallerHangsUp, ChannelEnds
  <2>4. ~(Timeout \/ Ending)
    BY <1>3 DEF Timeout, TimeoutChecks, TimeoutCancels, TimeoutStops, TimeoutCrashes, TimeoutHangsUp,
       TimeoutHangupFails, Ending, Terminate, TerminateCancels, RemoveCall, LogCrashes, Crash, ChannelEnds
  <2>5. ~UNCHANGED vars
    BY <1>3 DEF vars
  <2> QED BY <2>1, <2>2, <2>3, <2>4, <2>5 DEF Next, Engine, World, Chain, EndAction, ChainStep
<1>4. ASSUME entry # "done", ~Entry PROVE BeforeEntry'
  <2>1. \A k \in Kinds : ~ChainStep(k)
    BY <1>4 DEF ChainStep, Setup, TaskFires, RunDropped, TakeTurn, Runs, WaitForTurn,
       SetActionProperties, Play, PlayEnds, EndPasses, EndFrees, EndDrops, EndUnregistered
  <2>2. ~(StartMoh \/ MohStarted \/ AgentJoins \/ ReturnToQueue \/ TimeoutFires \/ Timeout)
    BY <1>4 DEF StartMoh, MohRequest, MohRequestFails, MohStarted, AgentJoins, ReturnToQueue, TimeoutFires,
       Timeout, TimeoutChecks, TimeoutCancels, TimeoutStops, TimeoutCrashes, TimeoutHangsUp, TimeoutHangupFails
  <2>3. Crash => BeforeEntry'
    BY <1>4 DEF Crash
  <2>4. QueueChanges \/ RemoveCall => BeforeEntry'
    BY <1>4 DEF QueueChanges, RemoveCall
  <2>5. CallerHangsUp => BeforeEntry'
    BY <1>4 DEF CallerHangsUp
  <2>6. Terminate => BeforeEntry'
    BY <1>4 DEF Terminate
  <2>7. TerminateCancels => BeforeEntry'
    BY <1>4 DEF TerminateCancels, CancelByCallID, WithoutTasks, TypeOK
  <2>8. UNCHANGED vars => BeforeEntry'
    BY <1>4 DEF vars
  <2> HIDE DEF BeforeEntry
  <2> QED
    BY <1>4, <2>1, <2>2, <2>3, <2>4, <2>5, <2>6, <2>7, <2>8
       DEF Next, Engine, World, Chain, EndAction, ChainStep, Ending, PlayCrashes, JoinCrashes, LogCrashes
<1> HIDE DEF BeforeEntry
<1> QED BY <1>1, <1>2, <1>3, <1>4 DEF Entry

\* The answer of an agent cancels what plays; what it could not cancel is in escaped.
LEMMA QuietStep ==
  TypeOK /\ BeforeEntry /\ OneSession /\ QuietWhileTalking /\ [Next]_vars => QuietWhileTalking'
<1> SUFFICES ASSUME TypeOK, BeforeEntry, OneSession, QuietWhileTalking, [Next]_vars,
                    state' = "Bridged"
             PROVE  QuietWhileTalking'
  BY DEF QuietWhileTalking
<1> waiting \in Seq(Kinds) /\ pc \in [Kinds -> Places]
  BY DEF TypeOK
<1> USE DEF QuietWhileTalking, turnVars, callVars, history, Goto
<1>1. CASE AgentJoins
  <2>1. \A k \in Kinds : pc[k] \in {"play", "playing"} => k \in cancelled'
    BY <1>1, CancelType DEF OneSession, AgentJoins
  <2>2. /\ \A k \in Kinds : pc'[k] # "task" /\ (pc'[k] = pc[k] \/ pc'[k] = "none")
        /\ escaped' = {k \in Kinds : pc[k] \in {"setup", "run", "start"}}
    BY <1>1 DEF AgentJoins, CancelByCallID, WithoutTasks
  <2> QED BY <2>1, <2>2
<1>2. CASE Dismissal /\ ~AgentJoins
  BY <1>2 DEF Dismissal, WithoutTasks
<1>3. CASE ScheduleActions
  BY <1>3 DEF ScheduleActions, BeforeEntry
<1>4. ASSUME NEW k \in Kinds, ChainStep(k) PROVE QuietWhileTalking'
  <2>1. CASE Setup(k)                BY <2>1 DEF Setup
  <2>2. CASE TaskFires(k)            BY <2>2 DEF TaskFires
  <2>3. CASE RunDropped(k)           BY <2>3 DEF RunDropped
  <2>4. CASE TakeTurn(k)             BY <2>4 DEF TakeTurn, Runs
  <2>5. CASE WaitForTurn(k)          BY <2>5 DEF WaitForTurn
  <2>6. CASE SetActionProperties(k)  BY <2>6 DEF SetActionProperties
  <2>7. CASE Play(k)                 BY <2>7 DEF Play
  <2>8. CASE PlayEnds(k)             BY <2>8 DEF PlayEnds
  <2>9. CASE EndPasses(k) \/ EndFrees(k)
    BY <2>9 DEF EndPasses, EndFrees
  <2>10. CASE EndDrops(k)
    BY <2>10 DEF EndDrops, WithoutTasks, CancelSession
  <2>11. CASE EndUnregistered(k)     BY <2>11 DEF EndUnregistered
  <2> QED BY <1>4, <2>1, <2>2, <2>3, <2>4, <2>5, <2>6, <2>7, <2>8, <2>9, <2>10, <2>11 DEF ChainStep
<1> QED BY StepKinds, <1>1, <1>2, <1>3, <1>4

-----------------------------------------------------------------------------
(* Music *)

\* The steps that neither start nor stop the music nor ask for it.
MusicAlone ==
  /\ UNCHANGED <<mohVars, alive, entry, mohRaced, failed>>
  /\ state' = state \/ state' # "Bridged"

\* Which steps these are not.
LEMMA MusicSteps ==
  ASSUME [Next]_vars
  PROVE  \/ MusicAlone \/ Entry \/ MohRequest \/ MohRequestFails \/ MohStarted
         \/ AgentJoins \/ ReturnToQueue
         \/ TimeoutStops \/ TimeoutHangsUp \/ TimeoutHangupFails \/ CallerHangsUp
         \/ \E k \in Kinds : Play(k) \/ EndFrees(k)
<1> USE DEF MusicAlone, mohVars, callVars, history
<1>1. ASSUME NEW k \in Kinds, Chain(k) \/ TaskFires(k)
      PROVE  MusicAlone \/ Play(k) \/ EndFrees(k)
  <2>1. Setup(k) => MusicAlone                BY DEF Setup
  <2>2. TaskFires(k) => MusicAlone            BY DEF TaskFires
  <2>3. RunDropped(k) => MusicAlone           BY DEF RunDropped
  <2>4. TakeTurn(k) => MusicAlone             BY DEF TakeTurn
  <2>5. WaitForTurn(k) => MusicAlone          BY DEF WaitForTurn
  <2>6. SetActionProperties(k) => MusicAlone  BY DEF SetActionProperties
  <2>7. PlayCrashes(k) => MusicAlone          BY DEF PlayCrashes, Crash
  <2>8. PlayEnds(k) => MusicAlone             BY DEF PlayEnds
  <2>9. EndPasses(k) => MusicAlone            BY DEF EndPasses
  <2>10. EndDrops(k) => MusicAlone            BY DEF EndDrops
  <2>11. EndUnregistered(k) => MusicAlone     BY DEF EndUnregistered
  <2> HIDE DEF MusicAlone
  <2> QED
    BY <1>1, <2>1, <2>2, <2>3, <2>4, <2>5, <2>6, <2>7, <2>8, <2>9, <2>10, <2>11 DEF Chain, EndAction
<1>2. TimeoutChecks \/ TimeoutCancels \/ TimeoutCrashes \/ TimeoutFires => MusicAlone
  BY DEF TimeoutChecks, TimeoutCancels, TimeoutCrashes, TimeoutFires, Crash
<1>3. Ending => MusicAlone
  BY DEF Ending, Terminate, TerminateCancels, RemoveCall, LogCrashes, Crash
<1>4. JoinCrashes \/ QueueChanges => MusicAlone
  BY DEF JoinCrashes, Crash, QueueChanges
<1>5. UNCHANGED vars => MusicAlone
  BY DEF vars
<1> HIDE DEF MusicAlone
<1> QED BY <1>1, <1>2, <1>3, <1>4, <1>5 DEF Next, Engine, StartMoh, World, Timeout

\* What is left of the music: what the flag does not know of, or, if the request fails, all.
StopsOrFails ==
  /\ "startMoh" \in failed => "startMoh" \in failed'
  /\ music' => music /\ (~mohFlag \/ "stopMoh" \in failed')
  /\ mohFlag' => mohFlag
  /\ mohFlag /\ music' => mohFlag'
  /\ mohFlag' => ~alive \/ (music' <=> music)

\* stopMoh stops the music it knows of, or fails.
LEMMA StopMohWorks == StopMoh => StopsOrFails
<1>1. CASE mohFlag /\ Fails("stopMoh") /\ UNCHANGED <<mohFlag, music>>
  BY <1>1 DEF Fails, StopsOrFails
<1>2. CASE mohFlag' = (mohFlag /\ ~alive) /\ music' = (music /\ ~mohFlag) /\ Succeeds("stopMoh")
  <2>1. (mohFlag' => mohFlag /\ ~alive) /\ (music' => music /\ ~mohFlag)
    BY <1>2, Zenon
  <2>2. "startMoh" \in failed => "startMoh" \in failed'
    BY <1>2 DEF Succeeds
  <2> QED BY <2>1, <2>2, Zenon DEF StopsOrFails
<1> QED BY <1>1, <1>2 DEF StopMoh

\* startMoh and stopMoh: whoever leaves music on without the flag is counted in mohs.
LEMMA MusicStep ==
  /\ TypeOK /\ BeforeEntry /\ MusicKnown /\ NoMusicWhileTalking /\ [Next]_vars
  => MusicKnown' /\ NoMusicWhileTalking'
<1> SUFFICES ASSUME TypeOK, BeforeEntry, MusicKnown, NoMusicWhileTalking, [Next]_vars
             PROVE  MusicKnown' /\ NoMusicWhileTalking'
  OBVIOUS
<1> DEFINE Goal == MusicKnown' /\ NoMusicWhileTalking'
<1> mohs \in Mohs
  BY DEF TypeOK, Mohs
<1> USE DEF MusicKnown, NoMusicWhileTalking, mohVars, callVars, history
<1>1. CASE MusicAlone
  <2>1. MohUnderWay' <=> MohUnderWay
    BY <1>1 DEF MusicAlone, MohUnderWay
  <2> QED BY <1>1, <2>1, Zenon DEF MusicAlone
<1>2. CASE Entry
  <2>1. ~MohUnderWay' \/ entry = "done"
    BY <1>2 DEF BeforeEntry, Entry, EnterQueue, EnterMoh, EnterMohFails, EnterMohFlag, ScheduleActions,
       MohUnderWay
  <2>2. CASE EnterQueue
    <3>1. state' = "InQueue" /\ entry' = "moh" /\ entry = "start" /\ UNCHANGED <<mohVars, alive, mohRaced>>
      BY <2>2 DEF EnterQueue
    <3> QED BY <3>1
  <2>3. CASE EnterMoh
    <3>1. /\ entry = "moh" /\ entry' \in {"flag", "schedule"} /\ state # "Bridged"
          /\ UNCHANGED <<mohFlag, alive, mohRaced, state>>
      BY <2>3 DEF EnterMoh, BeforeEntry
    <3>2. entry' = "schedule" => ~alive
      BY <2>3 DEF EnterMoh
    <3>3. music' => alive
      BY <2>3, <3>1, Zenon DEF EnterMoh
    <3> QED BY <3>1, <3>2, <3>3
  <2>4. CASE EnterMohFlag
    <3>1. /\ entry' = "schedule" /\ state # "Bridged" /\ mohFlag'
          /\ UNCHANGED <<music, alive, mohRaced, state>>
      BY <2>4 DEF EnterMohFlag, BeforeEntry
    <3> QED BY <3>1
  <2>5. CASE ScheduleActions
    <3>1. /\ entry = "schedule" /\ entry' \in {"done", "failed"} /\ state # "Bridged"
          /\ UNCHANGED <<mohVars, alive, mohRaced, state>>
      BY <2>5 DEF ScheduleActions, BeforeEntry
    <3> QED BY <3>1
  <2>6. CASE EnterMohFails
    <3>1. /\ entry = "moh" /\ entry' = "schedule" /\ state # "Bridged"
          /\ UNCHANGED <<mohVars, alive, mohRaced, state>>
      BY <2>6 DEF EnterMohFails, BeforeEntry
    <3> QED BY <3>1
  <2> QED BY <1>2, <2>2, <2>3, <2>4, <2>5, <2>6 DEF Entry
<1>11. CASE MohRequestFails
  <2>1. /\ UNCHANGED <<mohFlag, music, alive, entry, state, mohRaced>> /\ entry = "done"
        /\ failed' = failed \cup {"startMoh"} /\ MohUnderWay
    BY <1>11 DEF MohRequestFails, BeforeEntry, Mohs, Fails, MohUnderWay
  <2> QED BY <2>1
<1>12. CASE TimeoutHangupFails
  <2>1. MohUnderWay' <=> MohUnderWay
    BY <1>12 DEF TimeoutHangupFails, MohUnderWay
  <2>2. /\ UNCHANGED <<mohFlag, music, alive, entry, state, mohRaced>>
        /\ failed' = failed \cup {"hangup"}
    BY <1>12 DEF TimeoutHangupFails, Fails
  <2> QED BY <2>1, <2>2
<1>3. CASE MohRequest
  <2>1. MohUnderWay
    BY <1>3 DEF MohRequest, MohUnderWay, Mohs
  <2>2. UNCHANGED <<mohFlag, alive, entry, state, mohRaced>> /\ entry = "done"
    BY <1>3 DEF MohRequest, BeforeEntry, Mohs
  <2>3. CASE ~mohFlag /\ alive
    <3>1. mohs' = [request |-> mohs.request - 1, flag |-> mohs.flag + 1]
      BY <1>3, <2>3 DEF MohRequest
    <3>2. MohUnderWay'
      BY <1>3, <3>1 DEF MohUnderWay, Mohs, MohRequest
    <3> QED BY <2>1, <2>2, <2>3, <3>2
  <2>4. CASE ~(~mohFlag /\ alive)
    <3>1. UNCHANGED <<music, failed>>
      BY <1>3, <2>4 DEF MohRequest
    <3> QED BY <2>1, <2>2, <2>4, <3>1
  <2> QED BY <2>3, <2>4
<1>4. CASE MohStarted
  <2>1. MohUnderWay /\ entry = "done"
    BY <1>4 DEF MohStarted, MohUnderWay, Mohs, BeforeEntry
  <2>2. UNCHANGED <<music, alive, entry, state, mohRaced>> /\ mohFlag'
    BY <1>4 DEF MohStarted
  <2> QED BY <2>1, <2>2
<1>5. CASE AgentJoins
  <2>1. MohUnderWay' <=> MohUnderWay
    BY <1>5 DEF AgentJoins, MohUnderWay
  <2>2. /\ UNCHANGED <<alive, entry>> /\ entry = "done"
        /\ mohRaced' <=> mohRaced \/ MohUnderWay
    BY <1>5, Zenon DEF AgentJoins
  <2>3. StopsOrFails
    BY <1>5, StopMohWorks DEF AgentJoins
  <2> QED BY <2>1, <2>2, <2>3, Zenon DEF StopsOrFails
<1>6. CASE ReturnToQueue
  <2>1. MohUnderWay' /\ state' = "InQueue" /\ UNCHANGED <<alive, music, entry>> /\ entry = "done"
    BY <1>6 DEF ReturnToQueue, MohUnderWay, Mohs
  <2> QED BY <2>1
<1>7. CASE TimeoutStops
  <2>1. MohUnderWay' <=> MohUnderWay
    BY <1>7 DEF TimeoutStops, MohUnderWay
  <2>2. UNCHANGED <<alive, entry, state, mohRaced>> /\ entry = "done"
    BY <1>7 DEF TimeoutStops, BeforeEntry
  <2>3. StopsOrFails
    BY <1>7, StopMohWorks DEF TimeoutStops
  <2> QED BY <2>1, <2>2, <2>3, Zenon DEF StopsOrFails
<1>8. CASE TimeoutHangsUp \/ CallerHangsUp
  <2>1. MohUnderWay' <=> MohUnderWay
    BY <1>8 DEF TimeoutHangsUp, CallerHangsUp, MohUnderWay
  <2>2. ~music' /\ UNCHANGED <<entry, state, mohRaced, failed>>
    BY <1>8 DEF TimeoutHangsUp, CallerHangsUp, ChannelEnds
  <2> QED BY <2>1, <2>2
<1>9. ASSUME NEW k \in Kinds, Play(k) PROVE Goal
  <2>1. MohUnderWay' <=> MohUnderWay
    BY <1>9 DEF Play, MohUnderWay
  <2>2. /\ UNCHANGED <<alive, entry, state, mohFlag, failed>>
        /\ music' => music
        /\ mohRaced => mohRaced'
    BY <1>9, Zenon DEF Play
  <2> QED BY <2>1, <2>2, Zenon
<1>10. ASSUME NEW k \in Kinds, EndFrees(k) PROVE Goal
  <2>1. MohUnderWay'
    BY <1>10 DEF EndFrees, MohUnderWay, Mohs
  <2>2. UNCHANGED <<alive, entry, state, music, mohRaced>> /\ state = "InQueue" /\ entry = "done"
    BY <1>10 DEF EndFrees, BeforeEntry
  <2> QED BY <2>1, <2>2
<1> HIDE DEF MusicKnown, NoMusicWhileTalking
<1> QED
  BY MusicSteps, <1>1, <1>2, <1>3, <1>4, <1>5, <1>6, <1>7, <1>8, <1>9, <1>10, <1>11, <1>12

-----------------------------------------------------------------------------
(* Music for a caller who waits *)

\* Somebody has the turn, or it is prepared for him.
Held == current # NoKind \/ preparing # NoKind

\* terminateCall comes after the channel, queueProcessStart before everything else.
Begun ==
  /\ ending # "no" \/ state = "Terminated" => ~alive
  /\ entry # "start" => state # "New"

\* A caller who waits hears music, or the turn is held, or a startMoh will find the flag
\* cleared.  Whoever is about to set the flag has the music on; an agent clears the flag,
\* or the music stays.
MusicComes ==
  alive /\ timeout # "hangup" /\ ~abandoned /\ ~mohRaced /\ failed \cap {"startMoh", "hangup"} = {} =>
    /\ mohs.flag > 0 => music
    /\ state = "Bridged" => music \/ Held \/ ~mohFlag
    /\ state = "InQueue" /\ entry # "moh" => music \/ Held \/ (mohs.request > 0 /\ ~mohFlag)

\* Only onEndAction gives the turn back.
LEMMA TurnGoesOn ==
  ASSUME TypeOK, [Next]_vars
  PROVE  /\ abandoned => abandoned'
         /\ Held => Held' \/ \E k \in Kinds : EndFrees(k)
<1> current \in Kinds \cup {NoKind} /\ preparing \in Kinds \cup {NoKind} /\ waiting \in Seq(Kinds)
  BY DEF TypeOK
<1> USE AnnounceAssumption DEF Held, turnVars, history
<1>1. CASE Dismissal
  BY <1>1 DEF Dismissal
<1>2. CASE ScheduleActions
  BY <1>2 DEF ScheduleActions
<1>3. ASSUME NEW k \in Kinds, ChainStep(k), ~EndFrees(k)
      PROVE  (abandoned => abandoned') /\ (Held => Held')
  <2>1. CASE Setup(k)                BY <2>1 DEF Setup
  <2>2. CASE TaskFires(k)            BY <2>2 DEF TaskFires
  <2>3. CASE RunDropped(k)           BY <2>3 DEF RunDropped
  <2>4. CASE TakeTurn(k)             BY <2>4 DEF TakeTurn
  <2>5. CASE WaitForTurn(k)          BY <2>5 DEF WaitForTurn
  <2>6. CASE SetActionProperties(k)  BY <2>6 DEF SetActionProperties
  <2>7. CASE Play(k)                 BY <2>7 DEF Play
  <2>8. CASE PlayEnds(k)             BY <2>8 DEF PlayEnds
  <2>9. CASE EndPasses(k)
    <3>1. Head(waiting) \in Kinds
      BY <2>9, TailLine DEF EndPasses
    <3> QED BY <2>9, <3>1 DEF EndPasses
  <2>10. CASE EndDrops(k)            BY <2>10 DEF EndDrops
  <2>11. CASE EndUnregistered(k)     BY <2>11 DEF EndUnregistered
  <2> QED BY <1>3, <2>1, <2>2, <2>3, <2>4, <2>5, <2>6, <2>7, <2>8, <2>9, <2>10, <2>11 DEF ChainStep
<1>4. ASSUME NEW k \in Kinds, EndFrees(k) PROVE abandoned => abandoned'
  BY <1>4 DEF EndFrees
<1> QED BY StepKinds, <1>1, <1>2, <1>3, <1>4

\* What the steps of the announcements leave of the call.
CallKept ==
  /\ UNCHANGED <<state, alive, ending, entry>>
  /\ timeout' = timeout \/ timeout = "armed"

\* What a step does to the call, its channel and its timeout.
LEMMA CallSteps ==
  ASSUME [Next]_vars
  PROVE  \/ CallKept \/ Entry \/ AgentJoins \/ ReturnToQueue \/ Ending \/ Timeout
         \/ TimeoutFires \/ CallerHangsUp
<1> USE DEF CallKept, callVars
<1>1. ASSUME NEW k \in Kinds, Chain(k) \/ TaskFires(k)
      PROVE  CallKept
  <2>1. Setup(k) \/ TaskFires(k) => CallKept           BY DEF Setup, TaskFires
  <2>2. RunDropped(k) \/ TakeTurn(k) => CallKept       BY DEF RunDropped, TakeTurn
  <2>3. WaitForTurn(k) => CallKept                     BY DEF WaitForTurn
  <2>4. SetActionProperties(k) => CallKept             BY DEF SetActionProperties
  <2>5. Play(k) \/ PlayCrashes(k) => CallKept          BY DEF Play, PlayCrashes, Crash
  <2>6. PlayEnds(k) => CallKept                        BY DEF PlayEnds
  <2>7. EndPasses(k) \/ EndFrees(k) => CallKept        BY DEF EndPasses, EndFrees
  <2>8. EndDrops(k) => CallKept                        BY DEF EndDrops
  <2>9. EndUnregistered(k) => CallKept                 BY DEF EndUnregistered
  <2> HIDE DEF CallKept
  <2> QED
    BY <1>1, <2>1, <2>2, <2>3, <2>4, <2>5, <2>6, <2>7, <2>8, <2>9 DEF Chain, EndAction
<1>2. StartMoh \/ MohStarted => CallKept
  BY DEF StartMoh, MohRequest, MohRequestFails, MohStarted
<1>3. JoinCrashes \/ QueueChanges => CallKept
  BY DEF JoinCrashes, Crash, QueueChanges
<1>4. UNCHANGED vars => CallKept
  BY DEF vars
<1> HIDE DEF CallKept
<1> QED BY <1>1, <1>2, <1>3, <1>4 DEF Next, Engine, World

\* A request to start the music that failed is made up for by the next one; a request to
\* hang up is made once.
LEMMA FailedStep ==
  ASSUME [Next]_vars
  PROVE  /\ "hangup" \in failed => "hangup" \in failed'
         /\ "startMoh" \in failed => "startMoh" \in failed' \/ (MohRequest /\ music')
<1>1. CASE MusicAlone                 BY <1>1 DEF MusicAlone
<1>2. CASE Entry
  <2>1. EnterMohFails \/ UNCHANGED failed
    BY <1>2 DEF Entry, EnterQueue, EnterMoh, EnterMohFlag, ScheduleActions, history
  <2> QED BY <2>1 DEF EnterMohFails, Fails
<1>3. CASE MohRequest                 BY <1>3 DEF MohRequest, Succeeds
<1>4. CASE MohRequestFails            BY <1>4 DEF MohRequestFails, Fails
<1>5. CASE AgentJoins \/ TimeoutStops BY <1>5 DEF AgentJoins, TimeoutStops, StopMoh, Fails, Succeeds
<1>6. CASE TimeoutHangupFails         BY <1>6 DEF TimeoutHangupFails, Fails
<1>7. CASE MohStarted \/ ReturnToQueue \/ TimeoutHangsUp \/ CallerHangsUp
  BY <1>7 DEF MohStarted, ReturnToQueue, TimeoutHangsUp, CallerHangsUp, history
<1>8. ASSUME NEW k \in Kinds, Play(k) \/ EndFrees(k)
      PROVE  UNCHANGED failed
  BY <1>8 DEF Play, EndFrees, history
<1> QED BY MusicSteps, <1>1, <1>2, <1>3, <1>4, <1>5, <1>6, <1>7, <1>8

\* A call that ends has lost its channel.
LEMMA BegunStep ==
  ASSUME Begun, BeforeEntry, [Next]_vars
  PROVE  /\ Begun'
         /\ alive' => alive
         /\ alive' => (timeout = "hangup" => timeout' = "hangup" \/ "hangup" \in failed')
         /\ alive' => state' = state \/ EnterQueue \/ AgentJoins \/ ReturnToQueue
<1> DEFINE Goal == /\ Begun'
                   /\ alive' => alive
                   /\ alive' => (timeout = "hangup" => timeout' = "hangup" \/ "hangup" \in failed')
                   /\ alive' => state' = state \/ EnterQueue \/ AgentJoins \/ ReturnToQueue
<1> USE DEF Begun, callVars
<1>1. CASE CallKept
  BY <1>1 DEF CallKept
<1>2. CASE Entry
  <2>1. CASE EnterQueue       BY <2>1 DEF EnterQueue
  <2>2. CASE EnterMoh         BY <2>2 DEF EnterMoh
  <2>3. CASE EnterMohFlag     BY <2>3 DEF EnterMohFlag
  <2>4. CASE ScheduleActions  BY <2>4 DEF ScheduleActions, BeforeEntry
  <2>5. CASE EnterMohFails    BY <2>5 DEF EnterMohFails
  <2> QED BY <1>2, <2>1, <2>2, <2>3, <2>4, <2>5 DEF Entry
<1>3. CASE AgentJoins
  BY <1>3 DEF AgentJoins, CancelByCallID
<1>4. CASE ReturnToQueue
  BY <1>4 DEF ReturnToQueue
<1>5. CASE Ending
  <2>1. CASE Terminate                 BY <2>1 DEF Terminate
  <2>2. CASE TerminateCancels          BY <2>2 DEF TerminateCancels, CancelByCallID
  <2>3. CASE RemoveCall \/ LogCrashes  BY <2>3 DEF RemoveCall, LogCrashes, Crash
  <2> QED BY <1>5, <2>1, <2>2, <2>3 DEF Ending
<1>6. CASE Timeout \/ TimeoutFires
  <2>1. CASE TimeoutChecks \/ TimeoutFires   BY <2>1 DEF TimeoutChecks, TimeoutFires
  <2>2. CASE TimeoutCancels                  BY <2>2 DEF TimeoutCancels
  <2>3. CASE TimeoutStops \/ TimeoutCrashes  BY <2>3 DEF TimeoutStops, TimeoutCrashes, Crash
  <2>4. CASE TimeoutHangsUp                  BY <2>4 DEF TimeoutHangsUp, ChannelEnds
  <2>5. CASE TimeoutHangupFails              BY <2>5 DEF TimeoutHangupFails, Fails
  <2> QED BY <1>6, <2>1, <2>2, <2>3, <2>4, <2>5 DEF Timeout
<1>7. CASE CallerHangsUp
  BY <1>7 DEF CallerHangsUp, ChannelEnds
<1> HIDE DEF Begun
<1> QED BY CallSteps, <1>1, <1>2, <1>3, <1>4, <1>5, <1>6, <1>7

\* The music comes back: an announcement that ends asks for it with the flag cleared, a
\* call that comes back from an agent as well.
LEMMA MusicComesStep ==
  /\ TypeOK /\ BeforeEntry /\ OneSession /\ MusicKnown /\ Begun /\ MusicComes /\ [Next]_vars
  => Begun' /\ MusicComes'
<1> SUFFICES ASSUME TypeOK, BeforeEntry, OneSession, MusicKnown, Begun, MusicComes, [Next]_vars
             PROVE  Begun' /\ MusicComes'
  OBVIOUS
<1>0. /\ Begun'
      /\ alive' => /\ alive
                   /\ timeout = "hangup" => timeout' = "hangup" \/ "hangup" \in failed'
                   /\ state' = state \/ EnterQueue \/ AgentJoins \/ ReturnToQueue
  BY BegunStep
<1> SUFFICES ASSUME alive', timeout' # "hangup", ~abandoned', ~mohRaced',
                    "startMoh" \notin failed', "hangup" \notin failed'
             PROVE  /\ mohs'.flag > 0 => music'
                    /\ state' = "Bridged" => music' \/ Held' \/ ~mohFlag'
                    /\ state' = "InQueue" /\ entry' # "moh" =>
                         music' \/ Held' \/ (mohs'.request > 0 /\ ~mohFlag')
  BY <1>0 DEF MusicComes
<1> DEFINE Goal == /\ mohs'.flag > 0 => music'
                   /\ state' = "Bridged" => music' \/ Held' \/ ~mohFlag'
                   /\ state' = "InQueue" /\ entry' # "moh" =>
                        music' \/ Held' \/ (mohs'.request > 0 /\ ~mohFlag')
<1>1. /\ alive /\ timeout # "hangup" /\ ~abandoned /\ (Held => Held' \/ \E k \in Kinds : EndFrees(k))
      /\ "hangup" \notin failed /\ ("startMoh" \in failed => MohRequest /\ music')
  BY <1>0, TurnGoesOn, FailedStep
<1> mohs \in Mohs
  BY DEF TypeOK, Mohs
<1> USE DEF mohVars, callVars, history
<1>2. ASSUME ~mohRaced, "startMoh" \notin failed
      PROVE  /\ mohs.flag > 0 => music
             /\ state = "Bridged" => music \/ Held \/ ~mohFlag
             /\ state = "InQueue" /\ entry # "moh" => music \/ Held \/ (mohs.request > 0 /\ ~mohFlag)
  BY <1>1, <1>2 DEF MusicComes
<1>3. ASSUME ~\E k \in Kinds : EndFrees(k), ~mohRaced, "startMoh" \notin failed,
             UNCHANGED <<mohVars, entry>>, state' = state
      PROVE  Goal
  BY <1>1, <1>2, <1>3
<1>4. ASSUME NEW k \in Kinds, EndFrees(k) PROVE Goal
  <2>1. /\ ~mohRaced /\ "startMoh" \notin failed
        /\ ~mohFlag' /\ mohs' = [mohs EXCEPT !.request = @ + 1]
        /\ UNCHANGED <<music, state>> /\ state = "InQueue"
    BY <1>4 DEF EndFrees
  <2>2. mohs'.request > 0 /\ mohs'.flag = mohs.flag
    BY <2>1 DEF Mohs
  <2> QED BY <1>2, <2>1, <2>2
<1>5. CASE MusicAlone
  <2>1. ~mohRaced /\ "startMoh" \notin failed /\ UNCHANGED <<mohVars, entry>> /\ (state' = state \/ state' # "Bridged")
    BY <1>5 DEF MusicAlone
  <2>2. CASE state' = state
    BY <1>3, <1>4, <2>1, <2>2
  <2>3. CASE state' # state
    <3>1. EnterQueue \/ AgentJoins \/ ReturnToQueue
      BY <1>0, <2>3
    <3>2. ~EnterQueue
      BY <2>1 DEF EnterQueue
    <3>3. ~AgentJoins
      BY <2>1, <2>3 DEF AgentJoins
    <3>4. ~ReturnToQueue
      <4>1. ReturnToQueue => mohs'.request = mohs.request + 1
        BY DEF ReturnToQueue, Mohs
      <4>2. mohs'.request = mohs.request /\ mohs.request \in Nat
        BY <2>1 DEF Mohs
      <4> QED BY <4>1, <4>2
    <3> QED BY <3>1, <3>2, <3>3, <3>4
  <2> QED BY <2>2, <2>3
<1>6. CASE Entry
  <2>1. mohs'.flag = 0 /\ state' # "Bridged"
    <3>1. mohs.flag = 0 /\ state # "Bridged" /\ entry # "done"
      BY <1>6 DEF BeforeEntry, Entry, EnterQueue, EnterMoh, EnterMohFails, EnterMohFlag, ScheduleActions
    <3> QED
      BY <1>6, <3>1 DEF Entry, EnterQueue, EnterMoh, EnterMohFails, EnterMohFlag, ScheduleActions
  <2>2. CASE EnterQueue
    BY <2>1, <2>2 DEF EnterQueue
  <2>3. CASE EnterMoh
    <3>1. music'
      BY <1>1, <2>3 DEF EnterMoh
    <3> QED BY <2>1, <3>1
  <2>4. CASE EnterMohFlag
    <3>1. UNCHANGED <<music, state, mohs, failed>> /\ ~mohRaced /\ entry = "flag" /\ mohs.request = 0
      BY <2>4 DEF EnterMohFlag, BeforeEntry
    <3>2. ~\E k \in Kinds : EndFrees(k)
      BY <2>4 DEF EnterMohFlag, EndFrees
    <3> QED BY <1>1, <1>2, <2>1, <3>1, <3>2
  <2>5. CASE ScheduleActions
    <3>1. UNCHANGED <<mohVars, state, failed>> /\ ~mohRaced /\ entry = "schedule" /\ mohs.request = 0
      BY <2>5 DEF ScheduleActions, BeforeEntry
    <3>2. ~\E k \in Kinds : EndFrees(k)
      BY <2>5 DEF ScheduleActions, EndFrees
    <3> QED BY <1>1, <1>2, <2>1, <3>1, <3>2
  <2>6. ~EnterMohFails
    BY DEF EnterMohFails, Fails
  <2> QED BY <1>6, <2>2, <2>3, <2>4, <2>5, <2>6 DEF Entry
<1>7. CASE MohRequest
  <2>1. ~mohRaced /\ UNCHANGED <<mohFlag, state, entry>> /\ ~\E k \in Kinds : EndFrees(k)
    <3>1. mohs'.request = mohs.request - 1 /\ mohs.request \in Nat
      BY <1>7 DEF MohRequest, Mohs
    <3>2. \A k \in Kinds : EndFrees(k) => mohs'.request = mohs.request + 1
      BY DEF EndFrees, Mohs
    <3> QED BY <1>7, <3>1, <3>2 DEF MohRequest
  <2>2. CASE ~mohFlag
    <3>1. music'
      BY <1>1, <1>7, <2>2 DEF MohRequest
    <3> QED BY <3>1
  <2>3. CASE mohFlag
    <3>1. UNCHANGED <<music, failed>> /\ mohs'.flag = mohs.flag
      BY <1>7, <2>3 DEF MohRequest, Mohs
    <3> QED BY <1>1, <1>2, <2>1, <2>3, <3>1
  <2> QED BY <2>2, <2>3
<1>8. CASE MohStarted
  <2>1. ~mohRaced /\ UNCHANGED <<music, state, entry, failed>> /\ mohs.flag > 0
    BY <1>8 DEF MohStarted
  <2>2. MohUnderWay
    BY <2>1 DEF MohUnderWay, Mohs
  <2>3. state # "Bridged"
    BY <2>1, <2>2 DEF MusicKnown
  <2> QED BY <1>2, <2>1, <2>3
<1>9. CASE AgentJoins
  <2>1. /\ state' = "Bridged" /\ ~mohRaced /\ ~MohUnderWay /\ mohs' = mohs
        /\ entry = "done" /\ UNCHANGED <<current, preparing>>
    BY <1>9 DEF AgentJoins
  <2>2. ~(mohs.flag > 0)
    BY <2>1 DEF MohUnderWay, Mohs
  <2>3. StopsOrFails
    BY <1>9, StopMohWorks DEF AgentJoins
  <2>4. "startMoh" \notin failed /\ state \in {"InQueue", "Bridged"}
    BY <1>1, <2>1, <2>3 DEF StopsOrFails, Begun, TypeOK
  <2>5. mohFlag => music \/ Held
    BY <1>2, <2>1, <2>4
  <2>6. (mohFlag' => mohFlag) /\ (mohFlag' => (music' <=> music)) /\ Held' = Held
    BY <1>1, <2>1, <2>3, Zenon DEF StopsOrFails, Held
  <2> QED BY <2>1, <2>2, <2>5, <2>6
<1>10. CASE ReturnToQueue
  <2>1. /\ ~mohRaced /\ UNCHANGED <<mohFlag, music, entry, failed, turnVars>> /\ state' = "InQueue"
        /\ mohs' = [mohs EXCEPT !.request = @ + 1] /\ entry = "done"
    BY <1>10 DEF ReturnToQueue
  <2>2. mohs'.request > 0 /\ mohs'.flag = mohs.flag
    BY <2>1 DEF Mohs
  <2>3. Held' = Held
    BY <2>1 DEF turnVars, Held
  <2>4. state \in {"InQueue", "Bridged"}
    BY <1>1, <2>1 DEF Begun, TypeOK
  <2> QED BY <1>2, <2>1, <2>2, <2>3, <2>4
<1>11. /\ ~TimeoutStops /\ ~TimeoutHangsUp /\ ~TimeoutHangupFails /\ ~CallerHangsUp
       /\ ~MohRequestFails
  BY DEF TimeoutStops, TimeoutHangsUp, TimeoutHangupFails, CallerHangsUp, ChannelEnds,
     MohRequestFails, Fails
<1>12. ASSUME NEW k \in Kinds, Play(k) PROVE Goal
  <2>1. ~mohRaced /\ UNCHANGED <<mohFlag, state, entry, mohs, failed, turnVars>> /\ ~MohUnderWay /\ pc[k] = "play"
    BY <1>12 DEF Play
  <2>2. ~(mohs.flag > 0)
    BY <2>1 DEF MohUnderWay, Mohs
  <2>3. Held'
    BY <2>1, AnnounceAssumption DEF OneSession, Sessions, Held, turnVars
  <2> QED BY <1>2, <2>1, <2>2, <2>3
<1> QED
  BY MusicSteps, <1>4, <1>5, <1>6, <1>7, <1>8, <1>9, <1>10, <1>11, <1>12

-----------------------------------------------------------------------------
(* Theorems *)

\* The inductive invariant: the properties and what they rest on.
IInv ==
  /\ TypeOK /\ PlaysLeft /\ BeforeEntry /\ OnePlace /\ OneSession /\ MusicKnown
  /\ TurnNotForgotten /\ QuietWhileTalking /\ NoMusicWhileTalking
  /\ Begun /\ MusicComes

\* It holds in every state of the announcements.
LEMMA Invariance == Spec => []IInv
<1>1. Init => IInv
  <2>1. Init => Begun /\ MusicComes
    BY DEF Init, Begun, MusicComes
  <2> QED BY <2>1, InitHolds DEF IInv
<1>2. IInv /\ [Next]_vars => IInv'
  BY TypeStep, PlaysLeftStep, BeforeEntryStep, OnePlaceStep, OneSessionStep, MusicStep,
     TurnHeldStep, QuietStep, MusicComesStep DEF IInv
<1> QED BY <1>1, <1>2, PTL DEF Spec

\* The state of a call keeps its types; the play counters of setActionProperties never
\* pass the limit that the set-ups look at, however runs and waits interleave.
THEOREM AnnounceTypeCorrect == Spec => []TypeOK
<1>1. IInv => TypeOK
  BY DEF IInv
<1> QED BY <1>1, Invariance, PTL

\* reScheduleAction and the line: of every kind there is one chain.
THEOREM AnnouncementsAreSingle == Spec => []OneChainPerKind
<1>1. IInv => OneChainPerKind
  BY LineOf DEF IInv, OnePlace, Distinct, OneChainPerKind
<1> QED BY <1>1, Invariance, PTL

\* onEndAction: the turn is forgotten only where a chain ends early.
THEOREM TurnIsHeld == Spec => []TurnNotForgotten
<1>1. IInv => TurnNotForgotten
  BY DEF IInv
<1> QED BY <1>1, Invariance, PTL

\* cancelCallActions: nothing is announced to a caller who talks but what was between
\* two sections when the agent answered.
THEOREM TalkingIsQuiet == Spec => []QuietWhileTalking
<1>1. IInv => QuietWhileTalking
  BY DEF IInv
<1> QED BY <1>1, Invariance, PTL

\* stopMoh: no music for a caller who talks, unless a startMoh was under way, or the last
\* request to stop or to start the music failed.
THEOREM TalkingWithoutMusic == Spec => []NoMusicWhileTalking
<1>1. IInv => NoMusicWhileTalking
  BY DEF IInv
<1> QED BY <1>1, Invariance, PTL

\* onEndAction, reSetupCallForQueue, startMoh: a caller who waits while nothing is under
\* way hears music, unless a turn was abandoned, a startMoh was overtaken, the last request
\* to start the music failed, or the timeout stopped it and could not hang up.
THEOREM WaitingWithMusic == Spec => []MusicWhileWaiting
<1>1. IInv => MusicWhileWaiting
  <2> SUFFICES ASSUME IInv, Settled, ~abandoned, ~mohRaced, failed \cap {"startMoh", "hangup"} = {}
               PROVE  music
    BY DEF MusicWhileWaiting
  <2>1. ~(mohs.request > 0)
    BY DEF Settled, MohUnderWay, IInv, TypeOK
  <2>2. music \/ Held
    BY <2>1 DEF Settled, IInv, MusicComes
  <2>3. ~Held
    BY AnnounceAssumption DEF Settled, Held, IInv, TurnNotForgotten, InSession, TypeOK
  <2> QED BY <2>2, <2>3
<1> QED BY <1>1, Invariance, PTL

-----------------------------------------------------------------------------
(* The promise of AnnounceTurn *)

\* Who has the turn, and the session that is open.
Holder == IF preparing # NoKind THEN preparing ELSE current

\* There is no session, or it is that of the holder.
LEMMA SessionOf ==
  ASSUME TypeOK, OneSession
  PROVE  /\ \A k \in Kinds : pc[k] \in Sessions => InSession = {k} /\ Holder = k
         /\ preparing # NoKind \/ current = NoKind => InSession = {}
<1>1. ASSUME NEW k \in Kinds, pc[k] \in Sessions PROVE InSession = {k} /\ Holder = k
  BY <1>1 DEF OneSession, InSession, Sessions, Holder
<1>2. ASSUME preparing # NoKind \/ current = NoKind PROVE InSession = {}
  BY <1>2, AnnounceAssumption DEF OneSession, InSession, Sessions
<1> QED BY <1>1, <1>2

\* Whatever happens to the call, an announcement speaks only in its turn, and the turn
\* goes to the first in line, is freed when nobody waits, or is kept by its last holder.
LEMMA TurnStep ==
  IInv /\ [Next]_vars => [Turn!Next]_(Turn!vars)
<1> SUFFICES ASSUME IInv, [Next]_vars PROVE [Turn!Next]_(Turn!vars)
  OBVIOUS
<1> DEFINE Same == UNCHANGED <<current, preparing, waiting>> /\ InSession' = InSession
<1> TypeOK /\ OneSession /\ BeforeEntry
  BY DEF IInv
<1> waiting \in Seq(Kinds) /\ pc \in [Kinds -> Places]
    /\ preparing \in Kinds \cup {NoKind} /\ current \in Kinds \cup {NoKind}
  BY DEF TypeOK
<1> USE AnnounceAssumption DEF turnVars, Goto
<1>1. Same => UNCHANGED Turn!vars
  BY DEF Turn!vars
<1>2. CASE Dismissal
  <2>1. InSession' = InSession /\ UNCHANGED <<current, preparing>>
    BY <1>2 DEF Dismissal, WithoutTasks, InSession
  <2>2. CASE waiting' = waiting
    BY <1>1, <2>1, <2>2
  <2>3. CASE waiting' = <<>>
    BY <2>1, <2>3 DEF Turn!Next, Turn!Dismiss
  <2> QED BY <1>2, <2>2, <2>3 DEF Dismissal
<1>3. CASE ScheduleActions
  BY <1>1, <1>3 DEF ScheduleActions, BeforeEntry, InSession
<1>4. ASSUME NEW k \in Kinds,
             Setup(k) \/ TaskFires(k) \/ RunDropped(k) \/ SetActionProperties(k) \/ Play(k)
      PROVE  Same
  <2>1. CASE Setup(k)                BY <2>1 DEF Setup, InSession
  <2>2. CASE TaskFires(k)            BY <2>2 DEF TaskFires, InSession
  <2>3. CASE RunDropped(k)           BY <2>3 DEF RunDropped, InSession
  <2>4. CASE SetActionProperties(k)  BY <2>4 DEF SetActionProperties, InSession
  <2>5. CASE Play(k)                 BY <2>5 DEF Play, InSession
  <2> QED BY <1>4, <2>1, <2>2, <2>3, <2>4, <2>5
<1>5. ASSUME NEW k \in Kinds, TakeTurn(k) PROVE Turn!Next
  <2>1. InSession = {}
    BY <1>5, SessionOf DEF TakeTurn
  <2>2. InSession' = {k} /\ waiting' = waiting /\ current' = k /\ preparing' = NoKind
    BY <1>5, <2>1 DEF TakeTurn, InSession
  <2>3. Holder' = k /\ (Holder = k \/ Holder = NoKind)
    BY <1>5, <2>2 DEF TakeTurn, Holder
  <2>4. CASE Holder = k
    BY <2>1, <2>2, <2>3, <2>4 DEF Turn!Next, Turn!Open, Holder
  <2>5. CASE Holder = NoKind
    BY <2>1, <2>2, <2>3, <2>5 DEF Turn!Next, Turn!Take, Holder
  <2> QED BY <2>3, <2>4, <2>5
<1>6. ASSUME NEW k \in Kinds, WaitForTurn(k) PROVE Turn!Next
  <2>1. /\ waiting' = Append(waiting, k) /\ UNCHANGED <<current, preparing>>
        /\ InSession' = InSession /\ Holder # NoKind
    BY <1>6 DEF WaitForTurn, Runs, InSession, Holder
  <2> QED BY <2>1 DEF Turn!Next, Turn!Wait, Holder
<1>7. ASSUME NEW k \in Kinds, pc[k] \in Sessions, pc'[k] \notin Sessions,
             \A j \in Kinds : pc[j] \notin Sessions /\ j # k => pc'[j] \notin Sessions
      PROVE  InSession = {k} /\ InSession' = {}
  BY <1>7 DEF InSession, Sessions, OneSession
<1>8. ASSUME NEW k \in Kinds, PlayEnds(k) PROVE Turn!Next \/ Same
  <2> DEFINE over == ~Registered \/ state = "Terminated"
  <2>1. CASE over
    <3>1. InSession = {k} /\ InSession' = {}
      BY <1>7, <1>8, <2>1 DEF PlayEnds, Sessions
    <3>2. UNCHANGED <<current, preparing, waiting>>
      BY <1>8 DEF PlayEnds
    <3> QED BY <3>1, <3>2 DEF Turn!Next, Turn!Keep
  <2>2. CASE ~over
    BY <1>8, <2>2 DEF PlayEnds, InSession
  <2> QED BY <2>1, <2>2
<1>9. ASSUME NEW k \in Kinds, EndPasses(k) PROVE Turn!Next
  <2>1. Head(waiting) \in Kinds
    BY <1>9, TailLine DEF EndPasses
  <2>2. InSession = {k} /\ InSession' = {}
    BY <1>7, <1>9, <2>1 DEF EndPasses, Rescheduled, Sessions
  <2>3. /\ waiting # <<>> /\ waiting' = Tail(waiting)
        /\ preparing' = Head(waiting)
    BY <1>9 DEF EndPasses
  <2>4. Holder' = Head(waiting)
    BY <2>1, <2>3 DEF Holder
  <2> QED BY <2>2, <2>3, <2>4 DEF Turn!Next, Turn!Pass, Holder
<1>10. ASSUME NEW k \in Kinds, EndFrees(k) PROVE Turn!Next
  <2>1. InSession = {k} /\ InSession' = {}
    BY <1>7, <1>10 DEF EndFrees, Rescheduled, Sessions
  <2>2. /\ waiting = <<>> /\ waiting' = waiting
        /\ current' = NoKind /\ preparing' = NoKind
    BY <1>10 DEF EndFrees
  <2> QED BY <2>1, <2>2 DEF Turn!Next, Turn!Pass
<1>11. ASSUME NEW k \in Kinds, EndDrops(k) PROVE Turn!Next
  <2>1. InSession = {k} /\ InSession' = {}
    BY <1>7, <1>11 DEF EndDrops, WithoutTasks, Sessions
  <2>2. waiting' = <<>> /\ UNCHANGED <<current, preparing>>
    BY <1>11 DEF EndDrops
  <2> QED BY <2>1, <2>2 DEF Turn!Next, Turn!Keep
<1>12. ASSUME NEW k \in Kinds, EndUnregistered(k) PROVE Turn!Next
  <2>1. InSession = {k} /\ InSession' = {}
    BY <1>7, <1>12 DEF EndUnregistered, Sessions
  <2>2. UNCHANGED <<current, preparing, waiting>>
    BY <1>12 DEF EndUnregistered
  <2> QED BY <2>1, <2>2 DEF Turn!Next, Turn!Keep
<1> HIDE DEF Same
<1> QED
  BY StepKinds, <1>1, <1>2, <1>3, <1>4, <1>5, <1>6, <1>8, <1>9, <1>10, <1>11, <1>12 DEF ChainStep

\* isCallAvailForNextAction and onEndAction: whatever agents, the timeout, the end of the
\* call and edits of the queue do, the announcements of a call keep what AnnounceTurn
\* promises: one at a time, in the order of asking.
THEOREM AnnouncementsTakeTurns == Spec => ImplementsAnnounceTurn
<1>1. Init => Turn!Init
  BY DEF Init, Turn!Init, InSession
<1>2. IInv /\ [Next]_vars => [Turn!Next]_(Turn!vars)
  BY TurnStep
<1> QED BY <1>1, <1>2, Invariance, PTL DEF Spec, ImplementsAnnounceTurn, Turn!Spec

-----------------------------------------------------------------------------
(* The promise of CallFate *)

\* A call is queued before its timeout is scheduled and its agents come, and it is
\* terminated only for a caller who has left.
Course ==
  /\ entry # "start" => state # "New"
  /\ entry \in {"moh", "flag", "schedule"} => state \in {"InQueue", "Terminated"}
  /\ state = "Terminated" => ending \notin {"no", "terminate"}

\* The timeout and the caller as CallFate sees them.
Timer == IF timeout = "armed" THEN "pending"
         ELSE IF entry \in {"done", "failed"} THEN "off" ELSE "undecided"
Caller == IF ending = "no" THEN "here" ELSE IF ending = "terminate" THEN "left" ELSE "over"

\* Values of the one call make up the functions of CallFate.
LEMMA FateOf ==
  /\ \A x, y : [[c \in {1} |-> x] EXCEPT ![1] = y] = [c \in {1} |-> y]
  /\ \A x : [c \in {1} |-> x][1] = x
OBVIOUS

\* Every step of the call, its timeout and its caller is one that CallFate allows.
LEMMA CourseStep ==
  ASSUME TypeOK, Course, BeforeEntry, [Next]_vars
  PROVE  Course' /\ [Fate!Next]_(Fate!vars)
<1> USE DEF Course, callVars
<1>0. ASSUME UNCHANGED <<state, Timer, Caller>> PROVE [Fate!Next]_(Fate!vars)
  BY <1>0 DEF Fate!vars, Timer, Caller
<1>1. ASSUME Timer = "pending", Timer' = "off", UNCHANGED <<state, Caller>>
      PROVE  Fate!Next
  BY <1>1, FateOf DEF Fate!Next, Fate!Spend, Timer, Caller
<1>2. CASE CallKept
  <2>1. UNCHANGED <<state, Caller>> /\ (Timer' = Timer \/ (Timer = "pending" /\ Timer' = "off"))
    BY <1>2 DEF CallKept, Timer, Caller, BeforeEntry
  <2> QED BY <1>0, <1>1, <1>2, <2>1 DEF CallKept
<1>3. CASE EnterQueue \/ ReturnToQueue
  <2>1. state' = "InQueue" /\ UNCHANGED <<Timer, Caller>>
    BY <1>3 DEF EnterQueue, ReturnToQueue, Timer, Caller
  <2>2. Fate!Next
    BY <2>1, FateOf DEF Fate!Next, Fate!Wait, Timer, Caller
  <2> QED BY <1>3, <2>2 DEF EnterQueue, ReturnToQueue
<1>4. CASE EnterMoh \/ EnterMohFails \/ EnterMohFlag
  <2>1. UNCHANGED <<state, Timer, Caller>>
    BY <1>4 DEF EnterMoh, EnterMohFails, EnterMohFlag, Timer, Caller
  <2> QED BY <1>0, <1>4, <2>1 DEF EnterMoh, EnterMohFails, EnterMohFlag
<1>5. CASE ScheduleActions
  <2>1. Timer = "undecided" /\ Timer' \in {"pending", "off"} /\ UNCHANGED <<state, Caller>>
    BY <1>5 DEF ScheduleActions, Timer, Caller, BeforeEntry
  <2>2. state \in {"InQueue", "Terminated"}
    BY <1>5 DEF ScheduleActions
  <2>3. Fate!Next
    BY <2>1, <2>2, FateOf DEF Fate!Next, Fate!Schedule, Fate!Waive, Timer, Caller
  <2> QED BY <1>5, <2>3 DEF ScheduleActions
<1>6. CASE AgentJoins
  <2>1. Timer # "undecided" /\ Timer' = "off" /\ state' = "Bridged" /\ UNCHANGED Caller
    BY <1>6 DEF AgentJoins, CancelByCallID, Timer, Caller
  <2>2. state # "New"
    BY <1>6 DEF AgentJoins
  <2>3. Fate!Next
    BY <2>1, <2>2, FateOf DEF Fate!Next, Fate!Answer, Timer, Caller
  <2> QED BY <1>6, <2>3 DEF AgentJoins
<1>7. CASE Timeout \/ TimeoutFires
  <2>1. ASSUME TimeoutChecks \/ TimeoutCancels \/ TimeoutStops \/ TimeoutCrashes \/ TimeoutHangupFails
        PROVE  UNCHANGED <<state, Timer, Caller, entry, ending>>
    BY <2>1 DEF TimeoutChecks, TimeoutCancels, TimeoutStops, TimeoutCrashes, TimeoutHangupFails, Crash,
       Timer, Caller
  <2>2. CASE TimeoutFires
    <3>1. Timer = "pending" /\ Timer' = "off" /\ UNCHANGED <<state, Caller, entry, ending>>
      BY <2>2 DEF TimeoutFires, Timer, Caller, BeforeEntry
    <3> QED BY <1>1, <3>1
  <2>3. CASE TimeoutHangsUp
    <3>1. UNCHANGED <<state, Timer, entry>> /\ (UNCHANGED <<Caller, ending>> \/
            (Caller = "here" /\ Caller' = "left" /\ ending' = "terminate" /\ ending = "no"))
      BY <2>3 DEF TimeoutHangsUp, ChannelEnds, Timer, Caller
    <3>2. CASE UNCHANGED <<Caller, ending>>
      BY <1>0, <3>1, <3>2
    <3>3. CASE Caller = "here" /\ Caller' = "left"
      BY <3>1, <3>3, FateOf DEF Fate!Next, Fate!Leave, Timer, Caller
    <3> QED BY <3>1, <3>2, <3>3
  <2> QED BY <1>0, <1>7, <2>1, <2>2, <2>3 DEF Timeout
<1>8. CASE CallerHangsUp
  <2>1. UNCHANGED <<state, Timer, entry>> /\ (UNCHANGED <<Caller, ending>> \/
          (Caller = "here" /\ Caller' = "left" /\ ending' = "terminate" /\ ending = "no"))
    BY <1>8 DEF CallerHangsUp, ChannelEnds, Timer, Caller
  <2>2. CASE UNCHANGED <<Caller, ending>>
    BY <1>0, <2>1, <2>2
  <2>3. CASE Caller = "here" /\ Caller' = "left"
    BY <2>1, <2>3, FateOf DEF Fate!Next, Fate!Leave, Timer, Caller
  <2> QED BY <2>1, <2>2, <2>3
<1>9. CASE Terminate
  <2>1. /\ Caller = "left" /\ Caller' = "over" /\ UNCHANGED Timer
        /\ state # "Terminated" /\ state' = "Terminated"
    BY <1>9 DEF Terminate, Timer, Caller
  <2>2. Fate!Next
    BY <2>1, FateOf DEF Fate!Next, Fate!End, Timer, Caller
  <2> QED BY <1>9, <2>2 DEF Terminate
<1>10. CASE TerminateCancels
  <2>1. UNCHANGED <<state, Caller>> /\ (Timer' = Timer \/ (Timer = "pending" /\ Timer' = "off"))
    BY <1>10 DEF TerminateCancels, CancelByCallID, Timer, Caller, BeforeEntry
  <2> QED BY <1>0, <1>1, <1>10, <2>1 DEF TerminateCancels
<1>11. CASE RemoveCall \/ LogCrashes
  <2>1. UNCHANGED <<state, Timer, Caller>>
    BY <1>11 DEF RemoveCall, LogCrashes, Crash, Timer, Caller
  <2> QED BY <1>0, <1>11, <2>1 DEF RemoveCall, LogCrashes, Crash
<1> QED
  BY CallSteps, <1>2, <1>3, <1>4, <1>5, <1>6, <1>7, <1>8, <1>9, <1>10, <1>11 DEF Entry, Ending

\* queueProcessStart, cancelCallActions, terminateCall: with all its announcements the
\* call of this module takes the course of CallFate, as the calls of CallLifecycle do.
THEOREM AnnouncedCallKeepsCourse == Spec => ImplementsCallFate
<1>1. Init => Fate!Init /\ Course
  BY DEF Init, Fate!Init, Course
<1>2. IInv /\ Course /\ [Next]_vars => Course' /\ [Fate!Next]_(Fate!vars)
  BY CourseStep DEF IInv
<1> QED BY <1>1, <1>2, Invariance, PTL DEF Spec, ImplementsCallFate, Fate!Spec
=============================================================================

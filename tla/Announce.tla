------------------------------- MODULE Announce -------------------------------
(***************************************************************************)
(* The announcements and the music of one call (main.manager.announce.go,  *)
(* with the handlers that start, cancel and end them).  Calls share        *)
(* nothing here, so one call shows every interleaving.                     *)
(*                                                                         *)
(* An announcement of kind k is a chain of steps: its set-up schedules a   *)
(* task, the task runs, it takes the turn or waits for it, a session       *)
(* plays, its end hands the turn on and sets the announcement up again.    *)
(* pc[k] is where the chain is; while k waits in WaitingActions the chain  *)
(* has no goroutine.  A second chain of the same kind would be visible in  *)
(* doubled.                                                                *)
(***************************************************************************)
EXTENDS Naturals, Sequences

CONSTANTS
  Kinds,      \* the kinds of announcement, of those the code knows
  NoKind,     \* CALL_SCHEDULED_ACTION_Empty
  MaxPlays,   \* plays of a kind: the queue's limit, 1000 for "Position"
  Timed,      \* the queue has WaitTimeout > 0
  MaxJoins,   \* bound: agent legs that answer
  MaxReturns, \* bound: failed attempts and bridges that return the call to the queue
  MaxEdits    \* bound: changes of the queue's definition

ASSUME AnnounceAssumption ==
  /\ Kinds \subseteq {"Periodic", "Action", "Position", "Client"}
  /\ NoKind \notin Kinds
  /\ MaxPlays \in Nat /\ MaxJoins \in Nat /\ MaxReturns \in Nat /\ MaxEdits \in Nat
  /\ Timed \in BOOLEAN

VARIABLES
  state,      \* Call.State
  current,    \* CurrentCallScheduleAction
  preparing,  \* PreparingCallScheduleAction
  waiting,    \* WaitingActions
  cancelFunc, \* the kind whose session ActiveActionCancelFunc cancels
  plays,      \* the play counters
  mohFlag,    \* IsExistsActiveMOH
  pc,         \* the chain of each kind: its task, its goroutine or its session
  cancelled,  \* sessions whose context is cancelled
  mohs,       \* startMoh goroutines before the request, and before they set the flag
  entry,      \* queueProcessStart
  timeout,    \* the QueueTimeout task and runActionQueueTimeOut
  ending,     \* onClientChannelLeave and terminateCall
  alive,      \* Asterisk: the caller's channel is in Stasis
  music,      \* Asterisk: it plays music to the caller
  queue,      \* what GetQueueByName returns
  joins, returns, edits,  \* bounds
  down,       \* the process has panicked
  doubled,    \* history: a chain was started while another of its kind was on its way
  escaped,    \* history: chains that the last answer of an agent could not cancel
  abandoned,  \* history: the turn was kept by a chain that is over
  mohRaced,   \* history: a startMoh was under way when an agent answered or an
              \* announcement began
  failed      \* history: requests of which the last one failed, for a channel that was there

turnVars == <<current, preparing, waiting>>
playVars == <<pc, cancelFunc, cancelled, plays>>
mohVars == <<mohFlag, mohs, music>>
callVars == <<state, entry, timeout, ending, alive>>
worldVars == <<queue, joins, returns, edits, down>>
history == <<doubled, escaped, abandoned, mohRaced, failed>>
vars == <<turnVars, playVars, mohVars, callVars, worldVars, history>>

(***************************************************************************)
(* A queue definition, as far as announcements go: the kinds that their    *)
(* set-up schedules and those that their run plays.  "Position" is set up  *)
(* for ReportPosition or ReportHoldTime and played for AnnouncePosition =  *)
(* "yes"; "Client" is scheduled if MinEstimationTime > 0 as well; "Action" *)
(* is set up, and processQueueAction does not know it.                     *)
(***************************************************************************)
QueueDefs ==
  {q \in [known: BOOLEAN, scheduled: SUBSET Kinds, played: SUBSET (Kinds \ {"Action"})] :
     /\ ~q.known => q.scheduled = {} /\ q.played = {}
     /\ "Periodic" \in q.scheduled <=> "Periodic" \in q.played
     /\ "Client" \in q.scheduled => "Client" \in q.played}

\* Requests to Asterisk whose error is logged or dropped: what was asked for is not done, and
\* the engine goes on.  That the channel is gone is one error among others.
Requests == {"startMoh", "stopMoh", "hangup"}

Places == {"none", "setup", "task", "run", "start", "play", "playing", "ending"}

TypeOK ==
  /\ state \in {"New", "InQueue", "Bridged", "Terminated"}
  /\ current \in Kinds \cup {NoKind}
  /\ preparing \in Kinds \cup {NoKind}
  /\ waiting \in Seq(Kinds)
  /\ cancelFunc \in Kinds \cup {NoKind}
  /\ plays \in [Kinds -> 0 .. MaxPlays]
  /\ mohFlag \in BOOLEAN
  /\ pc \in [Kinds -> Places]
  /\ cancelled \subseteq Kinds
  /\ mohs \in [request: Nat, flag: Nat]
  /\ entry \in {"start", "moh", "flag", "schedule", "done", "failed"}
  /\ timeout \in {"none", "armed", "fired", "cancel", "stop", "hangup"}
  /\ ending \in {"no", "terminate", "cancel", "log", "gone"}
  /\ alive \in BOOLEAN /\ music \in BOOLEAN
  /\ queue \in QueueDefs
  /\ joins \in 0 .. MaxJoins /\ returns \in 0 .. MaxReturns /\ edits \in 0 .. MaxEdits
  /\ down \in BOOLEAN
  /\ doubled \in BOOLEAN /\ escaped \subseteq Kinds /\ abandoned \in BOOLEAN /\ mohRaced \in BOOLEAN
  /\ failed \subseteq Requests

Init ==
  /\ state = "New" /\ entry = "start" /\ timeout = "none" /\ ending = "no" /\ alive = TRUE
  /\ current = NoKind /\ preparing = NoKind /\ waiting = <<>>
  /\ pc = [k \in Kinds |-> "none"] /\ plays = [k \in Kinds |-> 0]
  /\ cancelFunc = NoKind /\ cancelled = {}
  /\ mohFlag = FALSE /\ music = FALSE /\ mohs = [request |-> 0, flag |-> 0]
  /\ queue \in QueueDefs
  /\ joins = 0 /\ returns = 0 /\ edits = 0 /\ down = FALSE
  /\ doubled = FALSE /\ escaped = {} /\ abandoned = FALSE /\ mohRaced = FALSE
  /\ failed = {}

-----------------------------------------------------------------------------
Goto(k, place) == pc' = [pc EXCEPT ![k] = place]

\* CancelByCallID: the pending tasks of the call.
WithoutTasks == [k \in Kinds |-> IF pc[k] = "task" THEN "none" ELSE pc[k]]
CancelByCallID ==
  /\ pc' = WithoutTasks
  /\ timeout' = IF timeout = "armed" THEN "none" ELSE timeout

\* ActiveActionCancelFunc(), if it is set.
CancelSession == cancelled' = cancelled \cup ({cancelFunc} \ {NoKind})

\* GetCall finds the call until terminateCall has removed it.
Registered == ending # "gone"

Fails(request) == alive /\ failed' = failed \cup {request}
Succeeds(request) == failed' = failed \ {request}

\* stopMoh, with the call locked.  Of a queue that is gone it dereferences the nil
\* result of GetQueueByName before it looks at the error; if Asterisk reports an error,
\* flag and music stay, and cancelCallActions goes on.
StopMohPanics == mohFlag /\ ~queue.known
StopMoh ==
  \/ /\ mohFlag' = (mohFlag /\ ~alive)
     /\ music' = (music /\ ~mohFlag)
     /\ Succeeds("stopMoh")
  \/ /\ mohFlag /\ Fails("stopMoh")
     /\ UNCHANGED <<mohFlag, music>>

MohUnderWay == mohs.request + mohs.flag > 0

-----------------------------------------------------------------------------
(* queueProcessStart *)

EnterQueue ==
  /\ entry = "start"
  /\ state' = "InQueue" /\ entry' = "moh"
  /\ UNCHANGED <<turnVars, playVars, mohVars, timeout, ending, alive, worldVars, history>>

\* startMoh of queueProcessStart: the request and, if it succeeds, the flag.  The error is
\* logged and the call goes on without music.
EnterMoh ==
  /\ entry = "moh"
  /\ entry' = IF alive THEN "flag" ELSE "schedule"
  /\ music' = (music \/ alive)
  /\ UNCHANGED <<turnVars, playVars, mohFlag, mohs, state, timeout, ending, alive, worldVars, history>>

EnterMohFails ==
  /\ entry = "moh" /\ Fails("startMoh")
  /\ entry' = "schedule"
  /\ UNCHANGED <<turnVars, playVars, mohVars, state, timeout, ending, alive, worldVars,
                 doubled, escaped, abandoned, mohRaced>>

EnterMohFlag ==
  /\ entry = "flag"
  /\ entry' = "schedule" /\ mohFlag' = TRUE
  /\ UNCHANGED <<turnVars, playVars, music, mohs, state, timeout, ending, alive, worldVars, history>>

\* The queue timeout, the set-up of three kinds, each in a goroutine of its own, and
\* the announcement for the client, which is scheduled at once.  Only then is the call
\* published, and only then do agents come.  If the queue is not found, nothing is done.
ScheduleActions ==
  /\ entry = "schedule"
  /\ entry' = IF queue.known THEN "done" ELSE "failed"
  /\ IF queue.known
     THEN /\ pc' = [k \in Kinds |-> IF k # "Client" THEN "setup"
                                    ELSE IF k \in queue.scheduled THEN "task" ELSE "none"]
          /\ timeout' = IF Timed THEN "armed" ELSE "none"
     ELSE UNCHANGED <<pc, timeout>>
  /\ UNCHANGED <<turnVars, cancelFunc, cancelled, plays, mohVars, state, ending, alive, worldVars, history>>

Entry == EnterQueue \/ EnterMoh \/ EnterMohFails \/ EnterMohFlag \/ ScheduleActions

-----------------------------------------------------------------------------
(* setupPeriodicAnnounce, setupActionAnnounce, setupPositionAnnounce.  None of   *)
(* them looks at the state of the call.                                          *)

\* Mutant: the limit of plays is passed by one.
Setup_OneMore(k) ==
  /\ pc[k] = "setup"
  /\ Goto(k, IF Registered /\ k \in queue.scheduled /\ plays[k] <= MaxPlays THEN "task" ELSE "none")
  /\ UNCHANGED <<turnVars, cancelFunc, cancelled, plays, mohVars, callVars, worldVars, history>>

Setup(k) ==
  /\ pc[k] = "setup"
  /\ Goto(k, IF Registered /\ k \in queue.scheduled /\ plays[k] < MaxPlays THEN "task" ELSE "none")
  /\ UNCHANGED <<turnVars, cancelFunc, cancelled, plays, mohVars, callVars, worldVars, history>>

\* ScheduleManager releases the task: processQueueAction.
TaskFires(k) ==
  /\ pc[k] = "task"
  /\ Goto(k, "run")
  /\ UNCHANGED <<turnVars, cancelFunc, cancelled, plays, mohVars, callVars, worldVars, history>>

\* The run of an announcement returns before isCallAvailForNextAction: the call or
\* the queue is gone, the queue does not play it any more, or has played it enough.
\* If the turn had been prepared for it, nobody gives the turn back.
RunDropped(k) ==
  /\ pc[k] = "run"
  /\ ~Registered \/ k \notin queue.played \/ (k = "Periodic" /\ plays[k] >= MaxPlays)
  /\ Goto(k, "none")
  /\ abandoned' = (abandoned \/ preparing = k)
  /\ UNCHANGED <<turnVars, cancelFunc, cancelled, plays, mohVars, callVars, worldVars,
                 doubled, escaped, mohRaced, failed>>

Runs(k) ==
  /\ pc[k] = "run"
  /\ Registered /\ k \in queue.played /\ (k = "Periodic" => plays[k] < MaxPlays)

\* Mutant: a turn that is prepared for another announcement counts as free.
TakeTurn_Jumps(k) ==
  /\ Runs(k)
  /\ preparing = k \/ current = NoKind
  /\ current' = k
  /\ preparing' = IF preparing = k THEN NoKind ELSE preparing
  /\ Goto(k, "start")
  /\ UNCHANGED <<waiting, cancelFunc, cancelled, plays, mohVars, callVars, worldVars, history>>

\* isCallAvailForNextAction and, if the turn is free or prepared for k, go startAnnounce.
TakeTurn(k) ==
  /\ Runs(k)
  /\ preparing = k \/ (current = NoKind /\ preparing = NoKind)
  /\ current' = k
  /\ preparing' = IF preparing = k THEN NoKind ELSE preparing
  /\ Goto(k, "start")
  /\ UNCHANGED <<waiting, cancelFunc, cancelled, plays, mohVars, callVars, worldVars, history>>

WaitForTurn(k) ==
  /\ Runs(k)
  /\ preparing # k /\ ~(current = NoKind /\ preparing = NoKind)
  /\ waiting' = Append(waiting, k)
  /\ Goto(k, "none")
  /\ UNCHANGED <<current, preparing, cancelFunc, cancelled, plays, mohVars, callVars, worldVars, history>>

-----------------------------------------------------------------------------
(* startAnnounce and onEndAction *)

\* setActionProperties
SetActionProperties(k) ==
  /\ pc[k] = "start"
  /\ cancelFunc' = k
  /\ cancelled' = cancelled \ {k}
  /\ plays' = IF k = "Client" THEN plays ELSE [plays EXCEPT ![k] = @ + 1]
  /\ Goto(k, "play")
  /\ UNCHANGED <<turnVars, mohVars, callVars, worldVars, history>>

\* The position announcement has several files and looks at the state before each of
\* them: of a call that is terminated before the first it has no session, and the
\* goroutine that waits for its result panics.
NoSession(k) == k = "Position" /\ state = "Terminated"

\* An announcement replaces the music, unless its context is cancelled already or the
\* request to play it fails: then the session has its result at once.
Play(k) ==
  /\ pc[k] = "play" /\ ~NoSession(k)
  /\ Goto(k, "playing")
  /\ music' \in {music, music /\ k \in cancelled}
  /\ mohRaced' = (mohRaced \/ MohUnderWay)
  /\ UNCHANGED <<turnVars, cancelFunc, cancelled, plays, mohFlag, mohs, callVars, worldVars,
                 doubled, escaped, abandoned, failed>>

\* Asterisk has played it or refused to, the context was cancelled, or the channel is
\* gone.  The goroutine that waited for the result starts onEndAction, if the call is not over.
PlayEnds(k) ==
  LET over == ~Registered \/ state = "Terminated" IN
  /\ pc[k] = "playing"
  /\ Goto(k, IF over THEN "none" ELSE "ending")
  /\ abandoned' = (abandoned \/ over)
  /\ UNCHANGED <<turnVars, cancelFunc, cancelled, plays, mohVars, callVars, worldVars,
                 doubled, escaped, mohRaced, failed>>

\* reScheduleAction sets the announcement up again, except the one for the client.
Rescheduled(k) == IF k = "Client" THEN "none" ELSE "setup"

\* Mutant: the first in line is not taken out of the line.
EndPasses_HeadKept(k) ==
  LET next == Head(waiting) IN
  /\ pc[k] = "ending" /\ Registered /\ state = "InQueue" /\ waiting # <<>>
  /\ CancelSession /\ cancelFunc' = NoKind
  /\ current' = NoKind /\ preparing' = next
  /\ pc' = [pc EXCEPT ![k] = Rescheduled(k), ![next] = "run"]
  /\ doubled' = (doubled \/ pc[next] # "none")
  /\ UNCHANGED <<waiting, plays, mohVars, callVars, worldVars, escaped, abandoned, mohRaced, failed>>

\* Mutant: the turn is prepared and processQueueAction is not called.
EndPasses_NotRun(k) ==
  /\ pc[k] = "ending" /\ Registered /\ state = "InQueue" /\ waiting # <<>>
  /\ CancelSession /\ cancelFunc' = NoKind
  /\ waiting' = Tail(waiting) /\ current' = NoKind /\ preparing' = Head(waiting)
  /\ Goto(k, Rescheduled(k))
  /\ UNCHANGED <<plays, mohVars, callVars, worldVars, history>>

\* The call is in the queue and others wait: the turn is prepared for the first.
EndPasses(k) ==
  LET next == Head(waiting) IN
  /\ pc[k] = "ending" /\ Registered /\ state = "InQueue" /\ waiting # <<>>
  /\ CancelSession /\ cancelFunc' = NoKind
  /\ waiting' = Tail(waiting) /\ current' = NoKind /\ preparing' = next
  /\ pc' = [pc EXCEPT ![k] = Rescheduled(k), ![next] = "run"]
  /\ doubled' = (doubled \/ pc[next] # "none")
  /\ UNCHANGED <<plays, mohVars, callVars, worldVars, escaped, abandoned, mohRaced, failed>>

\* Mutant: the flag of the music that the announcement replaced is left set.
EndFrees_FlagKept(k) ==
  /\ pc[k] = "ending" /\ Registered /\ state = "InQueue" /\ waiting = <<>>
  /\ CancelSession /\ cancelFunc' = NoKind
  /\ current' = NoKind /\ preparing' = NoKind
  /\ Goto(k, Rescheduled(k))
  /\ mohs' = [mohs EXCEPT !.request = @ + 1]
  /\ UNCHANGED <<waiting, plays, mohFlag, music, callVars, worldVars, history>>

\* Mutant: the action that has ended stays the current one.
EndFrees_TurnKept(k) ==
  /\ pc[k] = "ending" /\ Registered /\ state = "InQueue" /\ waiting = <<>>
  /\ CancelSession /\ cancelFunc' = NoKind
  /\ preparing' = NoKind
  /\ Goto(k, Rescheduled(k))
  /\ mohFlag' = FALSE /\ mohs' = [mohs EXCEPT !.request = @ + 1]
  /\ UNCHANGED <<current, waiting, plays, music, callVars, worldVars, history>>

\* Nobody waits: music again.
EndFrees(k) ==
  /\ pc[k] = "ending" /\ Registered /\ state = "InQueue" /\ waiting = <<>>
  /\ CancelSession /\ cancelFunc' = NoKind
  /\ current' = NoKind /\ preparing' = NoKind
  /\ Goto(k, Rescheduled(k))
  /\ mohFlag' = FALSE /\ mohs' = [mohs EXCEPT !.request = @ + 1]
  /\ UNCHANGED <<waiting, plays, music, callVars, worldVars, history>>

\* The call is not in the queue: its tasks and its line are dropped, and the turn is kept.
EndDrops(k) ==
  /\ pc[k] = "ending" /\ Registered /\ state # "InQueue"
  /\ CancelSession /\ cancelFunc' = NoKind
  /\ waiting' = <<>>
  /\ pc' = [WithoutTasks EXCEPT ![k] = "none"]
  /\ timeout' = IF timeout = "armed" THEN "none" ELSE timeout
  /\ abandoned' = TRUE
  /\ UNCHANGED <<current, preparing, plays, mohVars, state, entry, ending, alive, worldVars,
                 doubled, escaped, mohRaced, failed>>

\* GetCall does not find the call any more.
EndUnregistered(k) ==
  /\ pc[k] = "ending" /\ ~Registered
  /\ Goto(k, "none")
  /\ abandoned' = TRUE
  /\ UNCHANGED <<turnVars, cancelFunc, cancelled, plays, mohVars, callVars, worldVars,
                 doubled, escaped, mohRaced, failed>>

EndAction(k) == EndPasses(k) \/ EndFrees(k) \/ EndDrops(k) \/ EndUnregistered(k)

-----------------------------------------------------------------------------
(* startMoh of onEndAction and of reSetupCallForQueue *)

MohRequest ==
  /\ mohs.request > 0
  /\ IF ~mohFlag /\ alive
     THEN /\ music' = TRUE /\ mohs' = [request |-> mohs.request - 1, flag |-> mohs.flag + 1]
          /\ Succeeds("startMoh")
     ELSE mohs' = [mohs EXCEPT !.request = @ - 1] /\ UNCHANGED <<music, failed>>
  /\ UNCHANGED <<turnVars, playVars, mohFlag, callVars, worldVars,
                 doubled, escaped, abandoned, mohRaced>>

\* The error is dropped: no music and no flag.
MohRequestFails ==
  /\ mohs.request > 0 /\ ~mohFlag /\ Fails("startMoh")
  /\ mohs' = [mohs EXCEPT !.request = @ - 1]
  /\ UNCHANGED <<turnVars, playVars, mohFlag, music, callVars, worldVars,
                 doubled, escaped, abandoned, mohRaced>>

MohStarted ==
  /\ mohs.flag > 0
  /\ mohs' = [mohs EXCEPT !.flag = @ - 1]
  /\ mohFlag' = TRUE
  /\ UNCHANGED <<turnVars, playVars, music, callVars, worldVars, history>>

-----------------------------------------------------------------------------
(* What interferes: agents, the queue timeout, the end of the call. *)

\* Mutant: the session that plays is not cancelled.
AgentJoins_SessionKept ==
  /\ joins < MaxJoins /\ entry = "done" /\ ~StopMohPanics
  /\ joins' = joins + 1
  /\ state' = "Bridged"
  /\ CancelByCallID /\ waiting' = <<>> /\ StopMoh
  /\ escaped' = {k \in Kinds : pc[k] \in {"setup", "run", "start"}}
  /\ mohRaced' = (mohRaced \/ MohUnderWay)
  /\ UNCHANGED <<current, preparing, cancelFunc, cancelled, plays, mohs, entry, ending, alive,
                 queue, returns, edits, down, doubled, abandoned>>

\* Mutant: the music is not stopped.
AgentJoins_MusicKept ==
  /\ joins < MaxJoins /\ entry = "done"
  /\ joins' = joins + 1
  /\ state' = "Bridged"
  /\ CancelByCallID /\ waiting' = <<>> /\ CancelSession
  /\ escaped' = {k \in Kinds : pc[k] \in {"setup", "run", "start"}}
  /\ mohRaced' = (mohRaced \/ MohUnderWay)
  /\ UNCHANGED <<current, preparing, cancelFunc, plays, mohVars, entry, ending, alive,
                 queue, returns, edits, down, doubled, abandoned, failed>>

\* Mutant: the queue timeout is not cancelled.
AgentJoins_TimeoutKept ==
  /\ joins < MaxJoins /\ entry = "done" /\ ~StopMohPanics
  /\ joins' = joins + 1
  /\ state' = "Bridged"
  /\ pc' = WithoutTasks /\ waiting' = <<>> /\ StopMoh /\ CancelSession
  /\ escaped' = {k \in Kinds : pc[k] \in {"setup", "run", "start"}}
  /\ mohRaced' = (mohRaced \/ MohUnderWay)
  /\ UNCHANGED <<current, preparing, cancelFunc, plays, mohs, entry, timeout, ending, alive,
                 queue, returns, edits, down, doubled, abandoned>>

\* onOutboundChannelEnter, one section: the call is bridged, cancelCallActions.  The
\* call was looked up before it was locked, and may have been removed since.
AgentJoins ==
  /\ joins < MaxJoins /\ entry = "done" /\ ~StopMohPanics
  /\ joins' = joins + 1
  /\ state' = "Bridged"
  /\ CancelByCallID /\ waiting' = <<>> /\ StopMoh /\ CancelSession
  /\ escaped' = {k \in Kinds : pc[k] \in {"setup", "run", "start"}}
  /\ mohRaced' = (mohRaced \/ MohUnderWay)
  /\ UNCHANGED <<current, preparing, cancelFunc, plays, mohs, entry, ending, alive,
                 queue, returns, edits, down, doubled, abandoned>>

\* reSetupCallForQueue, after a failed attempt or bridge, from whatever state and of
\* a call that may have been removed since it was looked up.
ReturnToQueue ==
  /\ returns < MaxReturns /\ entry = "done"
  /\ returns' = returns + 1
  /\ state' = "InQueue"
  /\ mohs' = [mohs EXCEPT !.request = @ + 1]
  /\ UNCHANGED <<turnVars, playVars, mohFlag, music, entry, timeout, ending, alive,
                 queue, joins, edits, down, history>>

\* A queue entity message has changed or removed the definition.
QueueChanges ==
  /\ edits < MaxEdits
  /\ edits' = edits + 1
  /\ queue' \in QueueDefs
  /\ UNCHANGED <<turnVars, playVars, mohVars, callVars, joins, returns, down, history>>

TimeoutFires ==
  /\ timeout = "armed"
  /\ timeout' = "fired"
  /\ UNCHANGED <<turnVars, playVars, mohVars, state, entry, ending, alive, worldVars, history>>

\* runActionQueueTimeOut: the check, then cancelCallActions with the call unlocked, and
\* the hangup of the caller.
TimeoutChecks ==
  /\ timeout = "fired"
  /\ timeout' = IF Registered /\ state = "InQueue" THEN "cancel" ELSE "none"
  /\ UNCHANGED <<turnVars, playVars, mohVars, state, entry, ending, alive, worldVars, history>>

TimeoutCancels ==
  /\ timeout = "cancel"
  /\ timeout' = "stop" /\ pc' = WithoutTasks
  /\ UNCHANGED <<turnVars, cancelFunc, cancelled, plays, mohVars, state, entry, ending, alive,
                 worldVars, history>>

TimeoutStops ==
  /\ timeout = "stop" /\ ~StopMohPanics
  /\ timeout' = "hangup"
  /\ waiting' = <<>> /\ StopMoh /\ CancelSession
  /\ UNCHANGED <<current, preparing, pc, cancelFunc, plays, mohs, state, entry, ending, alive,
                 worldVars, doubled, escaped, abandoned, mohRaced>>

\* The caller's channel leaves Stasis and raises a StasisEnd.
ChannelEnds ==
  /\ alive' = FALSE /\ music' = FALSE
  /\ ending' = IF ending = "no" THEN "terminate" ELSE ending

TimeoutHangsUp ==
  /\ timeout = "hangup"
  /\ timeout' = "none" /\ ChannelEnds
  /\ UNCHANGED <<turnVars, playVars, mohFlag, mohs, state, entry, worldVars, history>>

\* The error is logged: the call waits on, without its timeout, its tasks and its music.
TimeoutHangupFails ==
  /\ timeout = "hangup" /\ Fails("hangup")
  /\ timeout' = "none"
  /\ UNCHANGED <<turnVars, playVars, mohVars, state, entry, ending, alive, worldVars,
                 doubled, escaped, abandoned, mohRaced>>

CallerHangsUp ==
  /\ alive /\ ChannelEnds
  /\ UNCHANGED <<turnVars, playVars, mohFlag, mohs, state, entry, timeout, worldVars, history>>

\* terminateCall
Terminate ==
  /\ ending = "terminate"
  /\ ending' = "cancel" /\ state' = "Terminated"
  /\ waiting' = <<>> /\ CancelSession
  /\ UNCHANGED <<current, preparing, pc, cancelFunc, plays, mohVars, entry, timeout, alive,
                 worldVars, history>>

TerminateCancels ==
  /\ ending = "cancel"
  /\ ending' = "log" /\ CancelByCallID
  /\ UNCHANGED <<turnVars, cancelFunc, cancelled, plays, mohVars, state, entry, alive, worldVars, history>>

\* LogOnTerminate panics if the queue is gone; else RemoveCall.
RemoveCall ==
  /\ ending = "log" /\ queue.known
  /\ ending' = "gone"
  /\ UNCHANGED <<turnVars, playVars, mohVars, state, entry, timeout, alive, worldVars, history>>

\* The nil dereferences: they end the process.
Crash ==
  /\ down' = TRUE
  /\ UNCHANGED <<turnVars, playVars, mohVars, callVars, queue, joins, returns, edits, history>>

PlayCrashes(k) == pc[k] = "play" /\ NoSession(k) /\ Crash
JoinCrashes == joins < MaxJoins /\ entry = "done" /\ StopMohPanics /\ Crash
TimeoutCrashes == timeout = "stop" /\ StopMohPanics /\ Crash
LogCrashes == ending = "log" /\ ~queue.known /\ Crash

Chain(k) ==
  \/ Setup(k) \/ RunDropped(k) \/ TakeTurn(k) \/ WaitForTurn(k)
  \/ SetActionProperties(k) \/ Play(k) \/ PlayCrashes(k) \/ PlayEnds(k) \/ EndAction(k)

Timeout ==
  \/ TimeoutChecks \/ TimeoutCancels \/ TimeoutStops \/ TimeoutCrashes
  \/ TimeoutHangsUp \/ TimeoutHangupFails
Ending == Terminate \/ TerminateCancels \/ RemoveCall \/ LogCrashes

StartMoh == MohRequest \/ MohRequestFails

Engine == Entry \/ (\E k \in Kinds : Chain(k)) \/ StartMoh \/ MohStarted \/ Timeout \/ Ending

World ==
  \/ \E k \in Kinds : TaskFires(k)
  \/ AgentJoins \/ JoinCrashes \/ ReturnToQueue \/ QueueChanges \/ TimeoutFires \/ CallerHangsUp

Next == ~down /\ (Engine \/ World)

Spec == Init /\ [][Next]_vars

\* Goroutines are eventually scheduled, and no playback lasts for ever.
FairSpec ==
  /\ Spec
  /\ WF_vars(~down /\ Entry) /\ WF_vars(~down /\ StartMoh) /\ WF_vars(~down /\ MohStarted)
  /\ WF_vars(~down /\ Timeout) /\ WF_vars(~down /\ Ending)
  /\ \A k \in Kinds : WF_vars(~down /\ Chain(k))

-----------------------------------------------------------------------------
(* Properties *)

InLine == {waiting[i] : i \in DOMAIN waiting}
InSession == {k \in Kinds : pc[k] \in {"start", "play", "playing", "ending"}}

\* Every kind is in one place only: in the line once, or pending, or running.  A
\* re-scheduled announcement never meets an earlier one of its kind.
OneChainPerKind ==
  /\ ~doubled
  /\ \A i, j \in DOMAIN waiting : waiting[i] = waiting[j] => i = j
  /\ \A k \in InLine : pc[k] = "none"

\* One session at a time, in the order of asking.
Turn == INSTANCE AnnounceTurn WITH
  turn <- IF preparing # NoKind THEN preparing ELSE current,
  line <- waiting, speaking <- InSession
ImplementsAnnounceTurn == Turn!Spec

\* The turn is held by a session, or by the run it was prepared for; it is left with
\* nobody only after a prepared run returned early, or a session ended out of the queue.
TurnNotForgotten ==
  current # NoKind \/ preparing # NoKind =>
    \/ \E k \in InSession : k = current
    \/ preparing # NoKind /\ pc[preparing] = "run"
    \/ abandoned

\* Once an agent has answered, nothing is announced to the caller but what was between
\* two sections at that moment: a set-up, a run, or a session whose cancel function was
\* not set yet.
QuietWhileTalking ==
  state = "Bridged" =>
    \A k \in Kinds :
      pc[k] \in {"setup", "task", "run", "start"} \/ (pc[k] \in {"play", "playing"} /\ k \notin cancelled)
        => k \in escaped

\* No music for a caller who talks, unless a startMoh was under way, or the last request to
\* stop it failed, or the last one to start it: then music may play that onEndAction took
\* for replaced, and that stopMoh does not stop, because the flag is not set.
NoMusicWhileTalking ==
  state = "Bridged" /\ music => mohRaced \/ failed \cap {"startMoh", "stopMoh"} # {}

\* A caller who waits, with nothing under way, hears music, unless the last request to start
\* it failed, or the queue timeout stopped it and its request to hang up failed.
Settled ==
  /\ state = "InQueue" /\ alive /\ entry \in {"done", "failed"} /\ timeout \in {"none", "armed"}
  /\ ~MohUnderWay /\ ~down
  /\ \A k \in Kinds : pc[k] \in {"none", "task"}
MusicWhileWaiting ==
  Settled => music \/ abandoned \/ mohRaced \/ failed \cap {"startMoh", "hangup"} # {}

\* The course of the call that this module plays to is the one of CallFate, which
\* CallLifecycle implements as well: nothing is assumed here of agents, the queue timeout
\* and the end of the call that the call handlers do not keep (call.go:58-69 and 122-176,
\* handlers.ari.go:60-118).
Fate ==
  INSTANCE CallFate WITH
    Calls <- {1},
    phase <- [c \in {1} |-> state],
    timer <- [c \in {1} |-> IF timeout = "armed" THEN "pending"
                            ELSE IF entry \in {"done", "failed"} THEN "off" ELSE "undecided"],
    caller <- [c \in {1} |-> IF ending = "no" THEN "here"
                             ELSE IF ending = "terminate" THEN "left" ELSE "over"]
ImplementsCallFate == Fate!Spec

\* An announcement that waits eventually gets the turn and runs, unless the line is
\* dismissed because the call does not wait any more.
EveryWaiterServed ==
  LET dismissed(k) == k \notin InLine /\ (state # "InQueue" \/ timeout = "hangup") IN
  \A k \in Kinds : k \in InLine ~> (pc[k] = "run" \/ dismissed(k) \/ abandoned \/ down)
=============================================================================

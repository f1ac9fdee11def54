# TLA+ models of QueueEngineGO

QueueEngineGO is a call-queue engine. Asterisk sends it callers (ARI WebSocket
events), it keeps them in a queue with music and announcements, publishes them
to the AID service over Redis, dials the agents AID names, bridges caller and
agent, and writes one queue-log row per call. This directory models its core,
states what makes it correct, checks it with TLC on small instances and proves
the safety properties and the refinements with TLAPS for all instances.

## Components

| Component (file) | State | Operations | Called by / calls |
|---|---|---|---|
| ScheduleManager (`main.schedular.go`) | heap of tasks, `cancellationMap`, one-slot `wakeUp` channel, timer | `ScheduleTask`, `CancelByCallID`, `run`, `executeNextTask` | called from every goroutine that handles a call; starts actions in goroutines of their own |
| ARI handlers (`main.handlers.ari.go`) | the `Call` objects | caller enters/leaves, agent leg enters/leaves, failed dial, `bridgeCall`, `reSetupCallForQueue` | one goroutine per ARI event; calls CallManager, ScheduleManager, Asterisk |
| CallManager (`main.manager.call.go`, `main.manager.callmanager.go`, `main.types.call.go`) | maps `calls`, `agentCalltoCall`, `outChannels`, each behind its own mutex | `queueProcessStart`, `onAidDistributionMessage`, `terminateCall`, `sendInteractionStateMessage`, queue-log fields | calls Asterisk, publishes to Redis |
| Announcements and music (`main.manager.announce.go`) | waiting actions, active action, play counts, music flag | set-up, run and end of four kinds of announcements, queue timeout, `startMoh`/`stopMoh` | scheduled through ScheduleManager |
| Hold-time texts (`main.manager.announce.go:657-894`) | none | numbers to sound files | pure |
| Queue cache (`main.manager.queueu.go`) | map name -> queue | `GetQueueByName`, `LoadQueue`, `RemoveQueue`, `InsertQueueLog` | database; Redis entity messages |
| ARI connections (`main.manager.ari.go`, `main.manager.server.go`) | clients and applications per media server | `addServer`, `deleteServer`, `GetClient`, `listenApp` | Redis entity messages |
| Redis (`main.handlers.redis.go`) | none | one goroutine per message | dispatches to the above |
| Logger (`main.logger.go`) | channel of 1000 lines | enqueue or drop | everything |
| HTTP, configuration, database wrapper, utilities, generated gRPC | - | I/O and start-up | - |

What makes each correct:

* ScheduleManager: no task is lost, run twice, or run after its call was
  cancelled; no wakeup is lost; tasks run when they are due.
* Call lifecycle: a waiting call can always be offered again; at most one agent
  per call; a bridged caller has an agent; a call that ends leaves no bridge, no
  agent channel and no map entry, and has its row; a timed call does not wait for
  ever and is not cut off while it talks; and where the code does not repair a request
  that failed, nothing but what that request was for goes wrong.
* Announcements: one session per call, in the order of asking; a waiting action is
  eventually run or dropped; a caller who talks hears neither announcement nor
  music, one who waits hears one or the other.
* Hold-time texts: what is said is what is meant, rounded and limited truthfully.
* Queue cache: what is removed stays removed; what is updated is seen.
* ARI connections: a registered client is listened to, and nobody else listens.

The hard behaviours are interleavings: every event and message is handled by its
own goroutine, the lock of a call is released before requests to Asterisk are
made, most of these requests have their error logged and nothing else, messages to AID are sent by goroutines of their own, and `Call.Lock` and
`Call.RLock` are different mutexes (`main.types.call.go:132-140`), so that readers
do not exclude writers. Nothing is persisted except the row: there is no crash
recovery. There are no tests and no `recover()`: a panic ends the process.

## Modules

| Module | Role |
|---|---|
| `TimerService` | what callers of ScheduleManager may rely on |
| `Scheduler` | ScheduleManager, one action per critical section |
| `Scheduler_proofs` | theorems about `Scheduler` |
| `CallBase` | the Call record, CallManager's maps, goroutines, channels and bridges |
| `CallOffer` | what distribution is promised: one attempt at a time, counted, answered before connected |
| `CallFate` | what the handlers promise about the course of a call, and its announcements rely on: when the timeout is pending, and how the call ends |
| `CallLifecycle` | the handlers, composed over `CallBase`, and their properties |
| `CallLifecycle_proofs` | types of `CallLifecycle`; a call is not removed before its row is written; the queue timeout is there when it should be, and only then |
| `CallAttempt_proofs` | one attempt at a time: one agent, one bridged channel, the right name |
| `CallBridge_proofs` | what an attempt leaves behind: no bridge, no stale mark, no forgotten caller, no caller alone in a bridge; that `CallLifecycle` implements `CallOffer` and `CallFate` |
| `MCCallLifecycle` | instances for TLC, `Call_*.cfg` |
| `AnnounceTurn` | what the announcements of a call are promised: one at a time, in order |
| `Announce` | announcements, music, queue timeout and end of one call |
| `Announce_proofs` | theorems about `Announce`, and that it implements `AnnounceTurn` and `CallFate` |
| `MCAnnounce` | instances for TLC, `Announce_*.cfg` |
| `HoldTime` | the position and hold-time announcement, and what a listener makes of it |
| `HoldTime_proofs` | rounding, limits and what is heard, for every setting |
| `MCHoldTime` | the settings and numbers for TLC, `HoldTime.cfg` |
| `QueueCache` | the cache of queue definitions and the messages that refresh it |
| `QueueCache_proofs` | theorems about `QueueCache` |
| `AriConnections` | clients and listeners of a media server |
| `AriConnections_proofs` | theorems about `AriConnections` |

The components meet at narrow places, and each model contains what it needs of the
others: `CallLifecycle` sees ScheduleManager as the set `timers` with the promise of
`TimerService` (a timer may fire at any moment; cancelling removes it only before it
has fired); `Announce` sees the handlers of `CallLifecycle` as the actions that change
the state of the call (`AgentJoins`, `ReturnToQueue`, `Terminate`), and its tasks
again as `TimerService` promises them; `CallFate` is the course of a call as both
modules see it, and both implement it, so that neither assumes of the other what is
not kept; both see the queue cache as the answer of `GetQueueByName` at that moment,
which `QueueCache` shows may be out of date or gone.

Definitions whose name has the form `Action_Variant`, commented "Mutant", are
plausible bugs of an action. They occur in no specification; each property is
known to fail for at least one of them.

### Scheduler

The heap is a set; its possible heads are the tasks with the least `ExecuteAt`
(a binary heap breaks ties arbitrarily). `run()` is a program counter with the
places `look` (top of the loop, under the lock), `idle` (waits for `wakeUp`),
`armed` (select on timer and `wakeUp`), `pop` and `forget` (the two critical
sections of `executeNextTask`). The mutex is free between all of them, and
`ScheduleTask` and `CancelByCallID` happen there. Removing a task whose index is
-1, and popping an empty heap, are panics: `down` is set and nothing happens any
more. `revoked` and `raced` are history variables; no guard reads them.

`statusOf` maps a state to `TimerService`; a task in no place at all has the
status `"lost"`, which the abstract service does not have, so that the refinement
also says that no task is forgotten. `TimerService` does not say *when* a task is
released, because the code can release one early.

### CallLifecycle

A handler is a goroutine record `[f, at, c, leg, user, arg, n, copy]`: the handler,
its next step, the call, the agent leg, and what the code copied under the lock to
use after the unlock. `gos` is the set of goroutines in flight. One step is one
critical section of the call's mutex, one operation of a CallManager map, or one
request to Asterisk. Requests that the code makes while it holds the lock are part
of the section (`AgentJoins` cancels the timeout; `AgentLeft` hangs up the caller).
The requests of one teardown (bridge, two legs) are one step: each of them is about
an object the copy names. The music, which no other step waits for or looks at, is
left to `Announce`.

Every request may fail. `bridgeCall` and Originate react to an error, and the failing
branch of the action does what they do. Of the others the code logs the error and goes
on, and each has an action that does so:

| Request | Fails in | Left behind |
|---|---|---|
| hangup of the caller (`main.manager.call.go:399-407`) | `RejectSetupFails`, `HangupClientFails`, `AgentLeftFails` | the caller's channel |
| hangup of a leg (same place) | `TearDown`, `LateAgentGone` | the leg |
| deletion of the bridge (`main.manager.call.go:416-419`) | `TearDown` | the bridge |
| Redis publish (`main.handlers.redis.go:193-196`) | `PublishNewFails`, `SendFails` | AID not told |
| lookup of the queue (`main.manager.call.go:62-66`, `258-263`) | `NoQueueToEnter`, `NoQueueForOffer` | no timeout, no `New`; no attempt, no answer to AID |
| insert of the row (`main.manager.call.go:627-629`) | `LogOnTerminateFails` | no row |

A request that failed was not carried out (Originate excepted, see
`OriginateMayBeLost`), and an ARI client that is not connected fails all of them. The
history variables `failed` (which kind of request failed for a call) and `kept` (legs
that outlived their hangup) record these failures; no guard reads them. A property
whose truth rests on a request leaves out the calls, or the legs, for which *that*
request failed, and no others: it says that this is the only way.

Agent legs are triples `<<call, user, attempt>>`, the content of their channel ids.
Asterisk is external: `clientCh`, `legCh`, `bridge`. A hung-up channel that was in
Stasis produces a StasisEnd event, a ringing leg may produce a failing Dial event,
each handled by a goroutine. AID is external: it offers a call it believes to be
waiting, may name any agent, and may repeat a message. `aid` is the last message it
received about a call, or `"Offered"` once it has offered the call after that message.
`overlapped` is a history variable.

The panics of `LogOnTerminate` and `stopMoh` for a queue that is not found are the action
`Panic`.

`CallOffer` is what the handlers keep for AID and the agents without a lock: a call is
in no attempt or in one, attempts are numbered, each rings its leg at most once, the
call is connected only when that leg has been answered, an attempt is not given up
while it rings, and AID is told `Accepted` of the agent of the attempt while the call
is connected to it. The refinement mapping takes `ConnectedAgentChannelID` while
`IsCallInDistribution` is set for the attempt, the counter for the tries,
`BridgedChannel` for the connection, and the last message AID got for what it
believes.

`CallFate` is what they keep for the rest of the program. Its state is the phase of
the call, its queue timeout (`"undecided"`, `"pending"`, `"off"`) and whether the
caller is there. The timeout is decided on once, before an agent answers; an answer
leaves none pending; the call ends once and after its caller has left; that a caller
has left is passed over only while the call is `"New"` (`handlers.ari.go:39`, when the
call is not registered yet). It does not promise that a call which has ended stays so:
the code has an attempt that outlives its call set the state again. The refinement
mapping takes `timers` for the pending timeout and says `"undecided"` as long as
`queueProcessStart` has not come to its end (`Undecided`); the caller has left until
its StasisEnd has been handled (`EndToCome`).

| Action(s) | Code |
|---|---|
| `RejectSetup` .. `PublishNewFails` | `onClientChannelEnter`, `processNewInboundCall`, `queueProcessStart` |
| `OfferLookup` .. `OriginateFails` | `onAidDistributionMessage` |
| `Send`, `SendFails` | `sendInteractionStateMessage` |
| `AgentJoins`, `LateAgentGone`, `SetBridged` .. `PublishAccepted` | `onOutboundChannelEnter`, `bridgeCall` |
| `ResetCall`, `TearDown`, `Unmap`, `PublishRejected` | `reSetupCallForQueue` |
| `NoAnswerStep`, `AgentLeft`, `AgentLeftFails` | `onOutboundChannelNoAnswer`, `onOutboundChannelLeave` |
| `ClientLeft` .. `RemoveCall` | `onClientChannelLeave`, `terminateCall` |
| `TimeoutLookup`, `TimeoutReached`, `CancelTimer`, `HangupClient`, `HangupClientFails` | `runActionQueueTimeOut` |

### Announce

Calls share nothing in this part, so the module models one. An announcement is a
chain of steps, and `pc[k]` says where the chain of kind `k` is: `setup`
(`setup...Announce`), `task` (in ScheduleManager), `run` (`runAction...`), `start`
(`startAnnounce` until the cancel function is set), `play` and `playing` (before
and after the request to Asterisk), `ending` (`onEndAction`). A kind in
`waiting` (`WaitingActions`) has no goroutine. The code promises nowhere that there
is one chain per kind; `doubled` records that a second one was started, and
`OneChainPerKind` says it never is. A queue definition is the set of kinds that
its set-up schedules and the set that its run plays, because the code looks at
different fields for the two; an edit of the queue between them is what strands a
prepared turn (`RunDropped`).

| Action(s) | Code |
|---|---|
| `EnterQueue` .. `ScheduleActions` | `queueProcessStart` |
| `Setup`, `TaskFires` | `setupPeriodicAnnounce`, `setupActionAnnounce`, `setupPositionAnnounce`, the tasks they schedule |
| `RunDropped`, `TakeTurn`, `WaitForTurn` | `processQueueAction`, `runActionPeriodicAnnounce`, `runActionPositionAnnounce`, `runActionClientAnnounce`, `isCallAvailForNextAction` |
| `SetActionProperties`, `Play`, `PlayEnds` | `startAnnounce` and its playbacks |
| `EndPasses`, `EndFrees`, `EndDrops`, `EndUnregistered` | `onEndAction`, `reScheduleAction` |
| `MohRequest`, `MohRequestFails`, `MohStarted` | `startMoh` |
| `AgentJoins` | `onOutboundChannelEnter` with `cancelCallActions`, `stopMoh` |
| `TimeoutChecks` .. `TimeoutHangupFails` | `runActionQueueTimeOut`, `cancelCallActions` |
| `Terminate` .. `RemoveCall` | `terminateCall` |
| `PlayCrashes`, `JoinCrashes`, `TimeoutCrashes`, `LogCrashes` | the nil dereferences on these ways |

`AgentJoins`, `JoinCrashes` and `ReturnToQueue` may happen to a call that is not
registered any more: the handlers look the call up, and lock it later.

The call of this module implements `CallFate` too. With the same refinement of
`CallLifecycle` this says how the two modules fit: the actions that stand for the call
handlers stay within a course that the handlers keep. It does not say that every
course of `CallLifecycle` occurs here: the number of answers and returns is bounded.

The requests whose errors are dropped here start the music (`EnterMohFails`,
`MohRequestFails`), stop it (`StopMoh`), play a file (`Play`: the session has its result
at once and ends) and hang up the caller of a queue timeout (`TimeoutHangupFails`). That
the channel is gone is one error among others. `failed` holds the requests of which the
*last* one failed: a later success takes it back.

`escaped`, `abandoned`, `mohRaced` and `failed` are history variables. The first three
name the windows in which the code does not keep what one would like: what is between two
sections when an agent answers cannot be cancelled; a session that ends out of the
queue, or a run that returns early, keeps the turn, and nothing of the call is
announced any more after it returns to the queue; a `startMoh` that is under way
plays into the conversation or leaves the flag behind. The properties say that
these windows, and for the music a last request that failed, are the *only* ways: music
that could not be started is missed by a caller who waits, and may later go on while
the caller talks, because `stopMoh` goes by the flag; music that could not be stopped
is heard by one who talks; a timeout that could not hang up has stopped it before.

### HoldTime

Pure functions, so the model is the functions: `FormatNumber`, `RoundSeconds`,
`LimitHoldTime`, `MixMinutesAndSeconds`, `SayTime` and the files they end up as.
The state machine asks for one number after the other, so that an action property
can compare neighbours. `Heard` is the reference definition: a listener that
assembles the position, the limit and the time from the files in the order in which
they are played, and knows nothing of how they were produced.

### QueueCache

Readers are goroutines that call `GetQueueByName`; change `i` of the database is
followed by a message handled by goroutine `i`, so that messages are handled in any
order. `LoadQueue` is two steps, `Read` of the database and `Store` under the lock.
A message may be lost (Redis publish/subscribe does not keep it) and a query may
fail. `late`, `overtaken` and `missed` are history variables: the properties hold
except where a load was overtaken by another write of the same entry, or a message
had no effect, and the code does nothing about either.

### AriConnections

A run `<<handler, application>>` is `runApp` and then `listenApp` of an application,
started by `addServer` of a message or by `InitAriConnection` (handler 0).
`ClientManager.clients` holds which run registered last. `CloseClient` and
`RemoveClient` are two steps, as in the code, and another handler's connection may
register in between. The panics are `StartPanics` (a server without ARI settings),
`ConcurrentMapAccess` and `NoClient`.

## Runs

Every cfg sets `CHECK_DEADLOCK FALSE`: clocks, messages and edits are bounded, calls
end, and a panic stops everything.

| Run | Instance | Shows |
|---|---|---|
| `scheduler` | 2 calls, 3 tasks, delays 0..2, clock 0..2 | heap and map agree, no lost wakeup, pops are due unless raced, refinement of `TimerService`, every task is released or cancelled |
| `call_offers` | 1 call, 2 interchangeable agents (symmetry), 2 attempts, 2 messages, at most 1 failure that is only logged, at most 3 goroutines in flight (2 after a failure) | distribution, bridging and teardown under hangups of both sides; one live leg; `Accepted` names the bridged agent; removal implies a row; refinement of `CallOffer` |
| `call_timeout` | timed call, 1 agent, 1 attempt, 1 message, at most 1 failure, with fairness | ended calls are removed, calls with a reason are hung up unless the hangup failed; refinement of `CallFate` |
| `call_lost` | `OriginateMayBeLost`; a timed call whose caller stays while its queue is found, 1 agent, 2 attempts, 3 messages (the last one alone), at most 1 failure, at most 3 goroutines in flight (2 after a failure) | types, the timeout is armed while it should be and only then, when attempts that were given up are answered and second legs turn up |
| `announce_turns` | 3 kinds of one play each, timed queue, 1 answer, 1 return, at most 1 request failed at a time, at most 4 goroutines in flight, a failed request counted as one | sessions in the order of asking, silence for who talks, music for who waits; refinement of `CallFate` |
| `announce_edited` | 2 kinds, 1 answer, 1 return, 1 edit or removal of the queue, no failing music request, with fairness | one chain per kind, no turn forgotten, every waiting announcement served |
| `hold_time` | every mode, 3 minimums, 3 maximums, 2 languages, 3 sets of texts; 261 numbers from each of 0, 1000, 19990, 100000, 999900 | the files say what is meant; rounding, limits and monotonicity |
| `queue_cache` | 1 queue, 2 readers, 3 changes, 3 lookups, with fairness | stale entries are repaired, nobody goes back, the cache settles |
| `ari_connections` | 2 applications, 2 messages and the start, with fairness | a registered client is heard, nobody else listens, the last message decides |

Why the bounds are enough:

* Scheduler: two calls and three tasks are the least at which a cancellation of one
  call exposes a head of another while a third task competes.
* CallLifecycle: two attempts are the least at which an attempt can overlap with the
  one before it; two messages the least at which one is repeated, three the least that
  goes beyond the limit of two attempts. Calls share nothing but the process, so one
  call shows every interleaving of its handlers. The code's limit of three attempts
  (`main.manager.call.go:283`) is the constant `MaxAttempts`. States beyond the
  bound on the goroutines in flight are checked but not continued. That two attempts
  are enough for the properties of the distribution is not left to the bound: they are
  proved for any number, of agents and of failing requests too. One failure is the
  least that shows what each of them leaves behind, and two together are seen by the
  proofs only. Agents are interchangeable in `call_offers`, which checks no liveness, so
  symmetry is sound there; `call_lost` is about attempts, not agents, and one agent can
  be offered again. The proofs assume that a failed Originate leaves no channel,
  and `call_overlap` shows that they have to: with such an Originate and three attempts
  an agent rings while another one is dialled.
* Announce: with three kinds one speaks while two wait, the least at which the order
  of the line matters; one return after one answer is the least at which a turn kept
  by an earlier session, or a flag left behind, is met again. `"Action"` is set up and
  run like the others but is never played by the code, so no run has it.
  `announce_turns` checks states with five goroutines of the call under way (or four and
  a failed request), and does not continue from them; the theorems about it have no such
  bound. The requests that fail there concern music and hangup, which decide nothing about
  the line, so `announce_edited` has none.
* HoldTime: the numbers straddle every threshold of the code (10, 20, 60, 100, 1000,
  the limits, the units) and the end of what can be read aloud.
* QueueCache: three changes let two loads overtake each other and a removal come in
  between; one name is enough because entries do not interact.
* AriConnections: two messages and the start give three handlers that may overlap; two
  applications are the inbound and the outbound one of an instance.

Divergences between what the source says and does, each a run that TLC refutes:

| Run | What the code does |
|---|---|
| `scheduler_panic` | a cancellation while a popped task is still in the map removes index -1 from the heap |
| `call_torn_bridge` | a repeated offer is taken before the failed attempt is torn down; the teardown deletes the new attempt's bridge, which has the same id |
| `call_overlap` | a dial that failed is reset by the error of Originate and by its Dial event; the second one ends the next attempt instead, and an offer is taken while its agent rings |

`CallerNotAlone` says that this race and a caller whose hangup failed are the *only* ways
to a bridged caller without bridge or agent. In the same way `PopsDueTask` and
`EarlyOnlyIfRaced` say that a task runs early only when a cancellation takes the head
of the heap between reading it and popping it (`main.schedular.go:92`, `:169`), and
`TimerService` allows what the code does: a task that was released before its call is
cancelled still runs (`main.schedular.go:181`).

Other behaviour that one may not expect, which no comment of the source contradicts,
is visible in the models and described in the comments of the actions: an
offer taken while the call terminates leaves an agent's channel to ring (`OfferTaken`,
`Originate`); a second leg of a bridged call is hung up and bridged all the same
(`AgentJoins`); the timeout hangs up a call that was answered after its check
(`TimeoutReached`, `HangupClient`); an offer whose queue is not found is not answered, and
a `New` or `Rejected` that is not published is not repeated, so that AID does not know of a
call that waits (`NoQueueForOffer`, `PublishNewFails`, `SendFails`); a hangup, a bridge
deletion or a row that failed is not tried again; a call whose queue is gone ends the process
(`Panic`, `LogCrashes`, `JoinCrashes`, `TimeoutCrashes`); an edited media server
without settings ends it too (`StartPanics`).

## Fairness

* `Scheduler!FairSpec`: `run()` moves when it can, a started goroutine is eventually
  scheduled, time passes. Clients owe nothing.
* `CallLifecycle!FairSpec`: some goroutine of the engine moves as long as one can; the
  work a call can cause is finite, so every goroutine finishes. It assumes that
  Asterisk answers every request (with success or failure). Callers, agents, AID and
  timers owe nothing.
* `Announce!FairSpec`: each goroutine of the call is eventually scheduled, and each
  playback comes to an end (it has a context, and Asterisk plays files of finite
  length). Tasks, agents, the caller and the editor of the queue owe nothing.
* `QueueCache!FairSpec`, `AriConnections!FairSpec`: goroutines are scheduled; queries
  and connections return, with success or failure. Changes and messages are not owed.

Go's scheduler is preemptive and fair to runnable goroutines, and no handler blocks
on anything but a mutex held for a finite section or a request with a time-out; that
is what weak fairness of each goroutine says.

## Proofs

All theorems are proved for every value of the constants that satisfies the named
assumptions of the module: any number of calls, agents, queues, readers, messages and
any limits. Each inductive invariant was first checked with TLC on the instances above.

`Scheduler_proofs`: `TypeOK`, `MapMatchesHeap`,
`SleepsNoLongerThanHead`, `PopsDueTask`, `EarlyOnlyIfRaced` and the refinement
`ImplementsTimerService`. The inductive invariant adds `Lives` (a task that was
scheduled is in exactly one of heap, spawned, started, revoked, and the task
between the two critical sections has been popped) to the safety invariants.
`MapMatchesHeap` alone is not inductive, because a second pop of the same task
would break it; `Lives` excludes that. The sleep invariant is inductive because
every writer of the heap leaves a token, and `Look` arms the timer for a minimum.
The refinement shows step by step that each action is an action of
`TimerService` or leaves `statusOf`, `callOf` and `down` unchanged.

`CallLifecycle_proofs`: `TypeOK` of `CallLifecycle`, from `CallAssumption` and
`NoLegAssumption`. The inductive invariant is `IInv`: the types, and for each goroutine
what its next step needs (`Sound`: an agent and a leg to dial, a message to send, a
reason to terminate with). `TypeOK` alone is not inductive: a goroutine at `send`
could hold a reason.

In the same module `RemovedWithRow`, on top of it. Whatever handlers, retries
and timeouts of a call are in flight, it leaves `cm.calls` only after its caller
has left and its row is written or the one insert has failed. The inductive
invariant `EndInv` says how far each goroutine of `terminateCall` has come (its
caller is gone; from `cancel` on the call has a reason; at `remove` it has a row, or
the insert has failed) and that no other goroutine reaches those steps. It is kept because no step takes a reason, a row or the end of
a channel back (`Kept`), and that is where the order inside `terminateCall` matters:
`Terminate` sets the reason before the row is computed from it.

Then, still there, `TimeoutArmed` and `TalkingNotTimed`, on top of `EndInv`. Nothing
in the code locks the set-up of the timeout against an answer; what keeps them apart is
a chain of causes: an agent answers only if one was dialled, one is dialled only on an
offer, AID offers only a call it knows, and it knows the call only when
`queueProcessStart`, having scheduled the timeout, has published it. The invariant
`TimerInv` says that: as long as the caller has not entered or `queueProcessStart` is
under way (`Before`) the call is `Fresh`, and the only other goroutines of the call are
those of its end. `Armed` adds where the timeout is: pending, about to be scheduled, or
about to look at the call, or the queue was not found when the call entered.

`CallAttempt_proofs`: `OneLiveLeg`, `BridgedLegKept` and `AcceptedNamesAgent`, on top of
`TimerInv`, assuming `~OriginateMayBeLost`. No lock is held for the length of an
attempt; `IsCallInDistribution` stands for it. The inductive invariant `AttemptInv` says
that the attempt is a baton: it is with a leg that rings (`Rung`), or with one goroutine
that carries it on (`Carries`, `Carried`), or with the call that talks, and with nobody
else; whoever has it works on the leg the call names (`Current`), and a leg that
was answered and is not the current one is about to be hung up, or outlived a hangup
that failed (`Doomed`). An offer takes the baton only when nobody has it, an answer or a failed dial takes it over from
the leg, and `ResetCall` lays it down. A failed Originate that leaves a channel would
give it to two: the leg and the goroutine that resets the call. `BridgedLegKept`
follows because only `SetBridged` and `ResetCall` touch the bridged channel
(`WhoBridges`) and the first one can only write the channel that is there.

`CallBridge_proofs`: `NoOrphanBridge`, `OfferNotStuck`, `AidKnowsWaitingCall` and
`CallerNotAlone`, on top of `AttemptInv` and also assuming `~OriginateMayBeLost`.
These four speak of a call that nothing is in flight about, each but for the failed
requests it names (`OfferNotStuck` names none: every failure in an attempt ends in
`ResetCall`). None of them is inductive:
what they say does not hold while handlers of the call are under way. The invariant
has to name, for everything the call lacks, the goroutine that still owes it, and to
show that this goroutine becomes another one that owes it until the debt is paid. The
module therefore begins with two groups of lemmas about all actions: who changes what
(`WhoChanges` for the attempt, `WhoseLeg`, `WhoseClient`, `WhoseBridge`, `WhoseMaps`,
`WhoseAid`) and where a goroutine comes from (`Origin`: an event starts it, or another
one goes on as it). On these rest four invariants.

* `LeaveInv`: a caller that is there is registered or about to be, one goroutine at
  most handles that it left, and only that one terminates the call.
* `OwnInv`, for `NoOrphanBridge`: a bridge that is up, unless deleting it has failed, is
  noted in the call, or a
  teardown that has copied it is coming (`Tears`); once the caller is gone somebody is
  going to take it down (`WillTear`): the end of the call if it has not copied the
  call yet, a teardown, or a `bridgeCall` that is going to fail because the caller is
  not there to be added. The copy made in the section that clears the fields is what
  makes this work.
* `WaitInv`, for `OfferNotStuck` and `AidKnowsWaitingCall`: the attempt of a waiting
  call rings or is carried on (`TakenUp`), its leg is found in `agentCalltoCall` by
  whoever answers for it (`Mapped`), a waiting call without an attempt is known to AID
  or stirred by a goroutine that will tell it (`Known`), unless it is lost to AID
  (`LostToAid`). Legs are numbered by attempts
  (`Numbered`), so that what a teardown hangs up or unmaps belongs to an attempt that
  is over (`Spent`); and no `Accepted` or `Terminated` of a call that waits is in
  flight (`Joined`, `Told`), so that none overtakes the `Rejected`.
* `TalkInv`, for `CallerNotAlone`: a leg that rings and a goroutine that carries an
  attempt on have nobody talking (`Rings`, `NotYet`), a bridged call has its channel
  or a `bridgeCall` at work (`Talks`), which has put into the bridge what its place
  says (`InBridge`), and nobody takes it out again (`NoTear`, `Seat`); an agent that
  answered is there, or that it left is about to be handled and hangs the caller up,
  if that does not fail (`Heard`). `NoTear` fails when an offer is taken between `ResetCall` and `TearDown`:
  all attempts of a call use one bridge id. That is the case `overlapped` excludes,
  and the run `call_torn_bridge` shows it.

Last, `ImplementsCallOffer`. `OfferTaken`, `SetBridged` and `ResetCall` are `Take`,
`Connect` and `GiveUp`; `Originate`, an answer and everything that ends a leg are
`Ring`, `Answer` and `Leave`; `Send` is `Accept` or `Retract`; all other steps leave
what `CallOffer` sees unchanged. `OfferInv` adds what the guards need: a leg exists
from its `Originate` on, for the goroutine that carries its attempt as well
(`Dialled`), and the legs of attempts to come do not exist (`Unused`).

Then `ImplementsCallFate`, which needs no assumption on `Originate`: legs and attempts
do not matter to it, only which goroutines of a call there can be while it is in which
phase. `CourseInv` adds to `LeaveInv` that a call which was not queued yet has no
goroutine but those of its entry and its end (`Unqueued`: nobody is dialled and
nothing comes back to the queue), that nothing is known of a call before its caller
enters (`Idle`), that the entry finds no timeout (`Entering`), and that a call which
has begun, or is about to, is registered as long as the StasisEnd of its caller is not
handled (`Lasting`); without the last one `ClientLeft` could pass over a call that
waits. `ScheduleTimeout` is `Schedule` or `Waive`; an answer is `Answer`;
`QueueProcessStart` and `ResetCall` are `Wait`; what ends a client channel is `Leave`
or `Refuse`; `Terminate` is `End`. That a step of one call is not seen by the others
is a lemma of its own (`OtherCalls`).

`~OriginateMayBeLost` is not there for convenience. With an Originate that reports a
failure for a channel that exists, TLC finds counterexamples to `OfferNotStuck`,
`AidKnowsWaitingCall`, `CallerNotAlone`, `NoOrphanBridge`, `BridgedLegKept`,
`AcceptedNamesAgent` and `ImplementsCallOffer`, and `call_overlap` is the one to one
live leg at a time. The types, `RemovedWithRow`, `TimeoutArmed`, `TalkingNotTimed` and
`ImplementsCallFate` are proved without it.

`Announce_proofs`: `TypeOK`, `OneChainPerKind`, `TurnNotForgotten`,
`QuietWhileTalking`, `NoMusicWhileTalking`, `MusicWhileWaiting` and the refinements
`ImplementsAnnounceTurn` and `ImplementsCallFate`. The inductive invariant adds that a
pending set-up or task leaves a play over (`PlaysLeft`: the limit is checked and the
counter raised in different sections), that nothing is under way before the call is
queued (`BeforeEntry`), that every kind is in one place (`OnePlace`), that one session
at a time holds the turn (`OneSession`), and which music requests can be under way
(`MusicKnown`). For `MusicWhileWaiting` it says that, unless the last startMoh or the hangup of the
timeout failed, a caller who waits hears music,
or the turn is held by a session whose end starts the music again, or a `startMoh` is
under way that finds the flag cleared (`MusicComes`); the flag is read in one section
and written in another, and what saves it is that whoever is about to write it has the
music playing. Under the refinement the end of a session is `Pass` or `Keep`, a run
takes the turn or waits, and a cancellation is `Dismiss`.

`HoldTime_proofs`: `TimeRounded`, `LimitsTrue` and `LongerIsNotShorter` for every
setting and every number, by arithmetic on the rounding of a number to a base. A limit
is rounded like the estimate it replaces, after it was applied, so `LimitsTrue` has two
parts: "less than" and "more than" are true of a limit that is a whole number of the
announced units, and wrong by less than half a unit of any other (with a minimum of 34
seconds, an estimate of 32 is announced as "less than 30 seconds"). Then
`SaidAsMeant`: the files are heard as the position, the limit and the time that were
meant, in both languages and whatever texts are blank (numbers below a million, and
one of the two texts that separate position and time is there). `Heard` and
`FormatNumber` are recursive functions; the prover has no induction over data to
offer, so their existence and uniqueness are proved from the well-ordering of the
naturals instead (`Least`: a counterexample would have a least one; `HearingUnique`,
`HearingExists`, `FormatsExist`). From `HearsBoth`, that a listener takes files as
they come, the announcement is put together: tens and units, hundreds, thousands
(`NumberHeard`), then texts, units and limits (`AnnouncementHeard`).

`QueueCache_proofs`: `TypeOK`, `StaleIsRepaired`, `NoGoingBack`. The invariant says
what a load that is not late can have read: nothing older than the entry or what was
handed out.

`AriConnections_proofs`: `TypeOK`, `RegisteredIsHeard`, `OneListener`. The invariant
says which clients a handler still has to look at when no message overlapped.

Only model-checked: liveness under fairness (`EveryTaskResolved`, `EndedCallRemoved`,
`ReasonEndsCall`, `EveryWaiterServed`, `CacheSettles`, `LastMessageWins`), which is
out of the prover's reach. Every safety property, action property and refinement of a
run that passes is a theorem. The type invariants of `Scheduler`, `QueueCache` and
`AriConnections` are theorems only: they say nothing that a run is needed for.

## Not modelled

* The numbers of the queue log (positions, estimates, durations, service level;
  `main.manager.call.go`, `main.manager.queueu.go`): floating-point arithmetic on
  wall-clock differences. That the row is written, and with which reason, is in
  `CallLifecycle`.
* `BuildFileSequence` and the getters that pick from it
  (`main.manager.announce.go`), `RemoveMediaServer` and the registrars
  (`main.manager.ari.go`): called by nobody.
* The asynchronous logger: it drops lines when full and nothing depends on it.
* HTTP services, configuration, start-up, database wrapper, generated gRPC code: I/O,
  or run once before anything else.
* Values that only end up in logs or messages (skills, priority, SIP headers,
  endpoints).
* A torn read of a single field under the two mutexes of `Call`: a read between two
  critical sections is modelled, one in the middle of an assignment is not.
* A WebSocket to a media server that drops by itself: `AriConnections` is about who
  listens, and the listener's goroutine ends only where the code ends it.
* The order of the messages to AID beyond what `AidKnowsWaitingCall` needs: messages of
  a call are sent by goroutines of their own and the source promises no order.

What could be added: the queue-log numbers as integers; the array heap as an
implementation of the set of `Scheduler`; and what AID makes of the order of messages.

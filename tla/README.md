# TLA+ models of the home automation backend

This directory specifies parts of the home automation system in TLA+, checks them with TLC on
small instances and proves selected theorems with TLAPS. Every definition is translated from the
source; `PROJECT.json` says which lines each one stands for.

## 1. Inventory

The system is a home hub (`packages/backend`, one Node.js process with PostgreSQL and Redis), a
web front end (`packages/frontend`), a relay for remote access (`proxy`) and deployment scripts.
The hub is single-threaded: everything between two awaits is atomic, and what is hard is what
happens across awaits, timers, sockets and processes.

| component | state it keeps | operations | what is hard | what makes it correct |
|---|---|---|---|---|
| automation engine (`automations/engine.ts`) | registered runtimes, device index, per runtime the running controller and promise, a queue and a counter | start, stop, reload, trigger, device updates, cron and sun timers, execution of action lists | four concurrency modes; triggers while a run is suspended or still on the stack; calls between automations; aborts; reloads that overlap | each mode's promise; handles, counters and queues agree with the runs; calls return; aborted runs stop; what runs is what the table says |
| automation routes, chat proposals (`api/automation-routes.ts`, `lib/apply-automation-proposal.ts`) | rows of `automations` | create, update, enable, delete, bulk save; each followed by `reload(id)` | two requests at once, failing queries | no lost edit, table and engine agree |
| execution writer (`automations/execution-writer.ts`) | buffer of log entries | write, periodic flush with an upsert, cleanup | overlapping flushes, failing batches | a finished run is finally logged as finished |
| state store, event bus (`state/`) | device map, listeners | update, remove, synchronous emit, snapshot to Redis | re-entrance, debounced save against shutdown | no lost change |
| helper engine (`helpers/engine.ts`) | virtual devices, timers, derived sensors | commands, ticks, recomputation | synchronous feedback into the engine | a timer ends once, thresholds do not flap |
| integration registry and integrations | one object per vendor | start, stop, restart, commands, polling | restarts that overlap | one connection per integration |
| connection manager, circuit breaker, Lutron client | state, retry timer, breaker, socket | connect, disconnect, socket events | backoff against cooldown, events in the wrong state | a link that can come back comes back |
| Roborock clients | one pending request slot, bridge process | send, reply, timeout | concurrent requests | a reply reaches its own request |
| tunnel, home side (`tunnel/client.ts`) | socket, authenticated flag, sessions, streams | connect, register, serve requests, stop | late close events, reconnect | one connection, no session for a gone client |
| tunnel, proxy side (`proxy/src`) | socket, pending requests, remote clients | relay requests and streams, heartbeat | tunnel loss in mid-stream, answers after timeouts | every request is answered once |
| notifications (`notifications/`) | list, write queue, file | raise, resolve, prune, persist | lazy load, crash while writing | no notification lost |
| update orchestrator, `scripts/deploy.sh` | in-progress flag, progress file | deploy, roll back, tail, resume after restart | restarts of the process that tracks the deployment | one deployment at a time, its end is seen |
| history writer, YAML stores, chat, auth, front end, shared types | buffers, files, caches | sequential requests | little | - |

The hub's parts meet on the event bus (synchronous), in the state store (shared), through the
registry (awaited calls) and in the database. `PROJECT.json` lists the hazards line by line.

## 2. Plan

Order, most important behaviour first; *done* marks what exists.

1. *done* `AutomationEngine`: engine, table and requests; `MCAutomation*` instances.
2. *done* `AutomationEngineProofs`: the type invariant, registration against the table;
   `AutomationCountProofs`: counters, queue, handles; `AutomationRunProofs`: single mode, aborts,
   teardown.
3. *done* `Tunnel`: link, requests, streams and sessions of both sides; abstract specification
   `Relay`, which it implements; `MCTunnel`; `TunnelProofs` proves that it does,
   `TunnelStreamProofs` that streamed bodies are whole and views current.
4. *done* `ExecutionLog`: the writer and its upsert, with crashes and restarts; `ExecutionLogProofs`.
5. *done* `BridgeLink`: an integration's restarts, connection manager, breaker and two clients;
   `BridgeLinkProofs`.
6. *done* `TriggerTimers`: sun timers, midnight recalculation and `for` durations;
   `TriggerTimersProofs`.
7. *open* `NotificationStore`, `UpdateOrchestrator`, `MiioClient`: the hazards without a property.
8. *done* a theorem for every invariant and action property of a run.

How the modules meet. `ExecutionLog` is told of a run's begin and end by what `AutomationEngine`
calls `StartRun` and `Finish`; `TriggerTimers` decides when a trigger fires, `AutomationEngine`
what the trigger does (`ScheduledTrigger`, `DeviceUpdate`). They are checked apart: a run reaches
the log through `write`, which returns at once and changes nothing of the engine, and a timer
reaches the engine through `executeTrigger`, which changes no timer. `Tunnel` composes the proxy
and the home; `BridgeLink` composes the registry with an integration and its client.

## 3. AutomationEngine

### State and code

| variable | code |
|---|---|
| `db` | table `automations`; a row is its mode, enabled flag, whether it has conditions, a cron trigger, the device each of its `device_state` triggers watches, and its action list |
| `runtimes` | `this.runtimes` |
| `rts` | `AutomationRuntime` objects. They outlive their place in the map, because cron closures, queued closures and `.finally` callbacks refer to them; `indexed` is membership in `deviceIndex`, `armed` that the cron tasks run |
| `runs` | pending calls of `execute`: remaining actions, abort signal, who awaits it |
| `stack` | the JavaScript call stack, as far as it concerns the engine |
| `woken` | restart triggers whose await has been resolved |
| `tasks` | requests and start-up that edit or reload, at the await they have reached |
| `listening` | `deviceListener` is attached |
| `overlapped`, `unread` | history variables for one property: ids that two loads at once, or `start()` after an earlier load, may have registered twice; ids whose last load failed |

The three levels of JavaScript scheduling are kept apart. Code on the stack runs first and may push
more engine code (a helper command changes its device, whose listener is the engine itself). With
an empty stack, continuations run in any order. Only when none is left (`Quiet`) does an event
arrive: a cron task, a device update, a request, an answer of the database, a timer. So the model
never interleaves what the event loop cannot.

`Trigger*` are the four branches of `executeTrigger`; `StartRun` the common creation of the
controller and the call of `execute`; `Finish`, `Log`, `Await`, `HelperCommand`, `Condition` and
`Call` the cases of `executeActions`; `Suspend` the first return to the caller, at which single and
restart mode record `runningPromise`; `Settle*` the callbacks after a run, `Wake` the restart
trigger that goes on after its await. `Commit`, `BeginReload`, `ReadTable`, `RowsArrive` and
`Register` are a request, cut at its awaits; `Commit` creates, changes or deletes a row.

The model begins when `main.ts` has opened its HTTP server (line 174). `start()` comes later (line
246): one task is `unstarted` and takes `Start` at any time, so requests may edit, reload and
trigger before. `start()` tears nothing down, and what such a request has registered is registered
once more. `Stop` needs a finished `start()`, since the signal handlers are installed after it.

`deviceIndex` has an entry per trigger. `Deliveries` is any sequence of distinct entries of the
device: an update may match some of them in any order, and a runtime with two triggers on a device
may be triggered twice by one update, as in `handleDeviceUpdate`.

Conditions and the `from`/`to` constraints of triggers are nondeterministic. The
execution log, names, YAML export and `last_triggered` do not influence control and are left out.
Sun triggers and `for` durations are in `TriggerTimers`, the log and its clean-up in `ExecutionLog`.
A run of an automation that has no runtime ends with its await; its never-cleared timer is part of
`ExecutionTimeout`.

### Bounds

`MaxRuns`, `MaxRuntimes` and `Headroom` are bounds of the model, the caps of queue, parallel runs
and call depth are the code's, with smaller values. Slots are reserved before an event is delivered
(`Room`, `RuntimeRoom`), so an event that has been accepted never blocks for want of a slot: the
deadlock check is on in every run and shows it. A slot is reused once nothing refers to its object.
Two automations give every pair of modes; four runs let a queue of one, two parallel runs and a
nested call coexist; two requests are the fewest that overlap.

### Runs

| run | what it checks | states |
|---|---|---|
| `modes` | 10 tables with two automations: pairs of modes with calls, a single-mode automation that triggers itself through a helper, two disabled ones that call each other. `TypeOK`, `QueuedOneAtATime`, `ActiveCountMatches`, `NoStrandedQueue`, `HandlesAreLive`, `SingleOneAtATime`, `StoppedRunsDispatchNothing` | 1.76 million |
| `reload` | one automation, two requests that create, edit, disable, delete and reload, also before `start()`, failing reads. `HandlesAreLive`, `RegistrationMatchesRow`, `TornDownStaysQuiet`. The requests are symmetric and the view drops what is left in objects nothing refers to | 2.26 million |
| `calls` | liveness of calls, of waiting restart triggers and of aborted runs: `CallsReturn`, `WaitersGoOn`, `AbortEndsRun` | 39 thousand |
| `restart_docs` | violates `RestartOneRun` | - |
| `timeout_docs` | violates `AbortEndsRun` | - |

`SingleOneAtATime` exempts rows whose list can run engine code before its first await: for those
the property is false in the code too (hazard at line 406).
`StoppedRunsDispatchNothing` is about any action of the list, whether it suspends or not: an
aborted run, and a run whose runtime was torn down, keep their list until they settle. The second
half is claimed for queued mode and for the single-mode rows of `SingleOneAtATime`, where the one
handle that teardown has is the one run's. Parallel runs have no handle at all and a restart run's
may be erased by another one, so both go on after a teardown, although the comment at line 210 says
"Abort any running execution" (hazard at line 416).
`TornDownStaysQuiet` exempts restart mode, where a waiting trigger does start on a torn-down runtime.
`RegistrationMatchesRow` exempts ids of which two loads overlapped, which `start()` registered over
an earlier reload, or whose read failed, and says so with the history variables: each of the three
is a hazard of the code, is explored, and has no property that it violates. `HandlesAreLive` says
that a handle is never stale; that it is never lost is false, as just said.
`CallsReturn` excuses a stopped engine, because teardown drops queued calls unanswered.

### Fairness

Code on the stack and continuations are weakly fair: JavaScript runs them before anything else.
`DelayEnds` and `LoadReturns` are strongly fair, because they are only enabled between events and
other events may come first each time, but a due timer and an answered query get their turn. A
device command has no fairness: nothing in the engine bounds an integration's answer. For that
reason the liveness run's automations only delay and call.

## 4. Tunnel and Relay

`Tunnel` is the cloud proxy (`proxy/src`) and the home's client (`backend/src/tunnel/client.ts`).
Each connection the home opens is a member of `Conns` with two ends that live and die separately
(`pws`, `hws`: the `readyState` of each side's socket) and two FIFO channels (`up`, `down`).
`Cut` loses the path silently, so that only a heartbeat or a timeout can notice.

| variable | code |
|---|---|
| `tunnel`, `authenticated`, `beat`, `pAuthTimer` | fields of `TunnelManager`: the socket, the flag, whom the heartbeat pings, the registration timers |
| `entry`, `timer` | `pendingRequests` and the time-to-first-byte timer of an entry |
| `reply`, `got`, `gone` | how far the HTTP route is with the client's answer, chunks piped, client gone |
| `cws`, `cauth`, `verifying`, `view` | WebSocket clients in `client-handler.ts`: socket, flag, token checks under way, last state shown |
| `ws`, `homeAuth`, `hAuthTimer`, `retryTimer`, `active`, `sessions` | fields of `TunnelClient` |
| `work`, `executed`, `sent` | the home's handling of a request |
| `version` | the home's state, as a count of its changes |

Actions are named after their handlers. The late close event of a replaced socket
(`ProxyClosed`, `HomeClosed`) acts on the current one's state exactly where the code does. Senders
that find no open socket drop the message, as in the code. Left out: `rtc_signal` (one stateless
answer), the wait for the socket's buffer to drain, messages a client sends on its WebSocket.
Two simplifications of time: an aborted fetch settles before the two seconds of a reconnect are
over, and `terminate` is a state `dead` from which the close event follows.

`Relay` is what one may expect of a request: refused, or asked and answered at most once, executed
at most once, and answered only after it was executed. `RelaySpec` maps `reply` to its status and
checks that every step of `Tunnel` is one of its steps or a stutter.

| run | what it checks | states |
|---|---|---|
| `tunnel` | one request, one WebSocket client, two connections: `TypeOK`, `EntryHasOwner`, `CompleteBody`, `OnlyVerified`, `HomeOneSocket`, `ViewIsCurrent`, the refinement `RelaySpec`, liveness `RequestsAnswered` | 563 thousand |
| `tunnel_stream_docs` | violates `TornDownSeesEOF` | - |
| `tunnel_resume_docs` | violates `ServiceResumes` | - |

Bounds: two connections are the fewest where a late event meets a successor; one chunk tells a
whole body from a truncated one; two versions tell a stale view from a current one. The run has two
more restrictions, both named in `MCTunnel`: a behaviour is about HTTP or about WebSocket clients,
which share nothing but the tunnel, and a path dies or the home stops only while that side has
registered. Both drop only steps without fairness. `CHECK_DEADLOCK FALSE`, because the bounded
home may have used up its connections.

`EntryHasOwner` relates the two sides of the proxy that must agree: the client of a buffered entry is
unanswered and the entry has its timer; the client of a streaming entry is being piped to; an entry
has a tunnel socket whose close event is still to come and will remove it; and an unanswered client
has a buffered entry, so that somebody will answer. The exception is a request whose stream ends
before it begins (manager.ts:301), which removes the entry and answers nobody.

`ViewIsCurrent` asks that no earlier socket of the tunnel is closing at the proxy, and needs to.
Its first form did not, holds with the run's two connections, and is false with three (TLC's
shortest counterexample has 22 states). `authenticated` belongs to the manager and not to a socket,
and the message listener of every socket asks nothing but that flag: with two earlier sockets still closing, the close
event of the first clears it, an event of the home that then arrives on the registered tunnel is
dropped, and a registration still unread on the second sets it again. The proxy now counts as
connected, the tunnel's line is empty, and the client has missed the event. The search for an
inductive invariant found this; nothing in the repository's docs speaks of it.

Fairness is weak and only on the code's own event loops: per connection `ProxyServes` and
`HomeServes`, per request the 30 s timer and the end of an aborted fetch, a client's close event,
and the reconnect. None on clients, on the home's handlers or on the path; the proxy's heartbeat
is assumed to notice a dead path, no more.

## 5. ExecutionLog

| variable | code |
|---|---|
| `phase` | how far `execute` is with a run: not begun, logged as running, logged with its outcome, gone with its process |
| `writer`, `buffer` | the two intervals of `ExecutionWriter`, its buffer |
| `sent` | batches whose `INSERT` is under way, each on a pool connection of its own |
| `row`, `alive` | `automation_execution_log` and `automations` |
| `lost`, `dropped`, `outage`, `together`, `purged` | history, read by no guard |

Batches settle in any order. PostgreSQL refuses a batch in which a run occurs twice (`ON CONFLICT
DO UPDATE` accepts a row once a statement) or whose automation is deleted; `flush` has already
emptied the buffer and drops the batch. The process may exit at any time and start again: what is
buffered and what runs is gone, what is under way may still arrive. `execute` writes after `stop`
too; such entries wait for a full buffer, so a row may say "running" for good. `Cleanup` may delete
any rows, since the retention is a setting.

Run `execution_log` (41 thousand states): two runs of two automations, a buffer of three, which is
enough for a batch with both entries of a run and one of another. `LogTellsOutcome` names all the
ways a finished run may be logged wrongly, `LossIsExplained` says that a database that answers loses
only batches with both entries of a run, `EntrySettles` (liveness) that a started writer keeps no
entry. Fairness: the interval fires and every query ends.

## 6. BridgeLink

| variable | code |
|---|---|
| `kind` | Lutron or Pentair, which differ in `doConnect` |
| `up` | the backend process; an exception nobody catches ends it (`main.ts`) |
| `enabled`, `pc`, `seen`, `mine`, `made`, `owner` | the row, the calls of `restart` at the await they have reached, the integration's client map |
| `cl` | one record per client: `_state`, `retryCount`, breaker, retry timer, socket, open promise of `doConnect`, timeouts that outlive their socket |
| `overlap`, `revived` | history |

Run `bridge_link` (187 thousand states): both kinds, the start at boot and two restarts with edits of
the row in between. `NothingLeftBehind` and `OwnerFollowsRow` are about restarts,
`IdleOnlyAtDeadEnds` about the link: the owner is connected or on its way, with an event to come, or
it is in one of three states no event leads out of. These are: the breaker is open for good (the retry after the
fifth failure comes after 16 s, the cooldown is 30 s, and `connect` then returns and schedules
nothing); a LEAP retry that fails in state `reconnecting`, which rejects nothing although
leap-client.ts:82 means to; a socket destroyed by the stale check after its listeners. `RestartReturns` and `RetriesEnd` are liveness. The numbers are smaller than
the code's (threshold 2, cooldown 4 s, delay from 1 s) and keep their relation, the last retry
before the cooldown's end; an instance with the code's own numbers and one restart also passes. The breaker's half-open state is never reached with either. Fairness: the code's own timers,
and the calls' queries; none on the controller.

## 7. TriggerTimers

| variable | code |
|---|---|
| `now`, `midnight` | time in ticks, the midnight timer |
| `located`, `coords`, `loading` | the setting, `homeCoords`, how many `loadHomeCoordinates` are under way |
| `enabled`, `calls`, `made`, `current`, `index` | the row, `start` (call 0) and the reloads, the registrations they make, the one in the map, those in the device index |
| `sunTimer`, `forTimer` | per registration: a timer per sun trigger, a timer per watched attribute |
| `value` | the state store |
| `overlap`, `since`, `returned`, `owed`, `fired` | history; `owed[w]` says when the last match of `w` is due and which registration saw it |

The engine hears of device updates between the end of `start()` and `stop()` (`Attached`, `Told`):
a registration made before or after has its sun timers, but no `for` timer is set in it. A tick passes only when no timer is due. A device may disappear from the store and return. Run
`trigger_timers` (2.34 million states): days of three ticks, a midnight in the middle of the run, two
reloads, `start` and `stop`, a sun trigger, or three device triggers with durations on two attributes (two share one,
hence one timer key). They share nothing but the registration, so a behaviour is about the sun
trigger or about one attribute (`OneKind`).
Reading the row and registering are one step here; `AutomationEngine` has the gap between them.
`NoTimerLeft`: timers die with their registration, unless loads overlapped or `start` followed an
early reload. `HeldIsTimed`: in the registration in force, a state that is held after a match has
the timer of that match until it fires, unless another trigger shares the attribute and so the key.
It claims nothing across registrations, and could not: a reload or `stop` clears the timer of a
state that is being held, and the next registration waits for the next change (engine.ts:209).
`FiredWasHeld`: although leaving the value cancels nothing and the check at the end compares values
only, a trigger without `from` fires only for a value that was held, because entering it again sets
the timer anew. It excuses a device that was away meanwhile, and a registration that overlapping
loads left behind and that a full reload or `stop` has made deaf while its timers run on.
`timers_sun_docs` violates `RecalculatesAll`.

## 8. Findings

1. `restart_docs`: two restart triggers that wait for the same aborted run both start afterwards
   (engine.ts:428), so two uncancelled runs exist, against "cancel & rerun".
2. `timeout_docs`: a queued automation that calls itself waits for itself for ever (engine.ts:451)
   and the execution timeout does not kill it, against engine.ts:8.
3. `tunnel_stream_docs`: a stream that the proxy tears down is destroyed with an error, the route
   only listens for `end`, and the client never sees the EOF that manager.ts:373 promises.
4. `tunnel_resume_docs`: after a reconnect a WebSocket client that stayed connected is not
   served again, and is not told, against deploy/ARCHITECTURE.md:177 and :179.
5. `timers_sun_docs`: the midnight recalculation drops the coordinates it needs one line later,
   so no sun trigger is armed again until a reload, against engine.ts:297.

## 9. Proofs

`AutomationEngineProofs` proves `Typing == Spec => []TypeOK` for all values of the constants that
satisfy its `ActionAssumption`, `RowAssumption` and `BoundAssumption`. `TypeOK` is not inductive: that `Answered` is applied
to a run and not to an index outside the table, that the run popped from `waiters` or a queue
exists, and that `Mode` is read of an object that has a row, are facts about several variables. The
invariant `Sound` adds them: each reference to a runtime (from the map, the stack, a run, a waiting
trigger, the index) is to an object with a row, a loading run has an id, and only the run of an
object can be in its synchronous prefix. There is one lemma per action, lemmas about `Answered`, `AbortedRun` and the frames they share, and
`SoundNext` combines them.

It also proves `RegistrationExact` (`RegistrationMatchesRow`) for any number of automations, requests
and reloads. The invariant `Table` says of every id whose loads have not
overlapped and that `start()` did not find registered: one task at most is between its teardown and its registration (`OneLoader`), and until
it registers the id has no object (`Vacant`); an object of the id that is armed or indexed is the
registered one (`OnlyRegistered`); the rows a task has fetched are those of the table unless an edit
is committed and its reload still to come, or the read failed (`Fresh`); with no task left, the
registered object has the row of the table (`Current`). A stale answer is harmless because the
edit that made it stale reloads after it, and that reload either finds the first one finished or
makes the id an overlapped one.

`AutomationCountProofs` proves four invariants of the concurrency modes under the same
assumptions: `CounterExact` (`ActiveCountMatches`), `QueuedExclusive` (`QueuedOneAtATime`),
`HandlesLive` (`HandlesAreLive`) and `QueueServed` (`NoStrandedQueue`). None is inductive alone; all
follow from `Counted`, which is inductive relative to `Sound`:

| conjunct | says | needed because |
|---|---|---|
| `RunsHeld` | a run of an object is neither free nor loading; only runs of restart mode have waiters | the slot a start or a load takes belongs to no object, and what settles wakes only restart triggers |
| `HandlesHeld` | each handle names a run of its own object | the run that settles clears exactly its own object's handles |
| `CountsHeld` | the counter is the cardinality of the object's runs and within the mode's cap; queued and parallel mode never set the handles their callbacks do not clear | `promise` is not cleared by the queued callback, nor `abort` by the parallel one |
| `QueuesHeld` | a queue has a run in front of it, or its next trigger is starting | between `queue.shift()` and the next run there is none |
| `StackHeld` | only the top frame may be a start, and the mode's guard still holds for it; what was woken is in restart mode | the guard is checked in one step and the run starts in the next: nothing may come between |

The last row is the heart of the argument: check and start are separate steps of the model, and the
proof shows that no push, wake, settlement or event falls between them. Cardinality enters only in
`CountedStart` (one more run) and `BooksFreed` (one less); every other action goes through
`BooksKept` and one of the `Stack...` lemmas.

`AutomationRunProofs` proves three properties of what runs may do. `SingleExclusive`
(`SingleOneAtATime`): single mode checks `runningPromise`, which is assigned only after the
synchronous prefix of the run has returned. `AllAlone` says why no second trigger falls between
them: until the promise is recorded the run is on top of the stack (`Covered`) and its list has no
action that runs engine code (`PlainTodo`), and an object that is about to start has no run.

`StopObeyed` (`StoppedRunsDispatchNothing`) has two parts. For aborted runs, `Tame` goes through what
every action does to a run: an aborted run stays aborted and keeps its list or settles. For a run
whose runtime is torn down it remains to show that the teardown has aborted it. The invariant
`Caught` says that of a queued runtime, and of a single one whose list runs no engine code, each run
is the one `runningAbort` names while the runtime is armed, and is aborted afterwards. It rests on
`Counted` and `AllAlone` (there is one run, so the handle passes from run to run and no callback
erases another's) and on `Quieted` (none starts after the teardown).
`TeardownSilences` (`TornDownStaysQuiet`) follows from `Quieted`: the
map, the index and the queues hold armed objects only, and so does every frame of the stack that
may still start a run, restart mode aside, where a trigger may wait for the run it aborted. It is
the one proof that needs `NoRowAssumption`, that no automation's id is the id of a free object.

`ExecutionLogProofs` proves `TypeCorrect`, `OutcomeIsLogged` (`LogTellsOutcome`) and `LossExplained`
(`LossIsExplained`) for any runs, automations and buffer size. A row can only be wrong because an
older running entry arrives after the outcome, so the invariant follows the pair through the
batches: no entry occurs twice (`NoEntryTwice`), entries are written in their run's phase
(`WrittenInPhase`), a run has one batch under way unless it is in `together`
(`OneBatchUnderWay`), and where the running entry is, the outcome is in the same batch, still
behind it in the buffer, or lost (`OutcomeFollows`). The lemmas on sequences
(`AppendBatch`) say what `Append` does to the set of entries.

`BridgeLinkProofs` proves `TypeCorrect`, `RestartsLeaveNothing` (`NothingLeftBehind`),
`LastEditWins` (`OwnerFollowsRow`) and `ThreeDeadEnds` (`IdleOnlyAtDeadEnds`) for any number of
calls, threshold, cooldown and backoff. `OneEach` bounds the clients by the calls that have made
theirs; `OneAtATime` says that calls which do not cross find no owner; `Coherent` ties the fields of
a client to each other (a timer and an open promise exclude each other, an open breaker has its
failures), without which the three dead ends cannot be told apart; `OthersRest` and `OwnerGoes`
are the two properties in inductive form, `ReadsTheRow` is what a call knows between its query and
its client.

`TriggerTimersProofs` proves `TypeCorrect`, `NothingOutlives` (`NoTimerLeft`), `HeldKeepsTimer`
(`HeldIsTimed`) and the action property `FiringWasHeld` (`FiredWasHeld`) for all triggers, durations
and lengths of a day, for which the sun triggers are finitely many (`SunAssumption`: each may start a
query of its own). `Matched` is the heart: a `for` timer, in a registration that hears of updates, whose value is again the one it was set
for was set when that value was entered, or its device was away. `DivProperties`, `DivMonotonic` and
`Midnights` are the arithmetic of days.

`TunnelProofs` proves `TypeCorrect`, `EntryIsOwned` (`EntryHasOwner`), `VerifiedOnly`
(`OnlyVerified`), `SingleSocket` (`HomeOneSocket`) and the refinement `Relays`
(`Spec => RelaySpec`) for any number of requests, clients, connections and chunks, without the two
constraints of `MCTunnel`. The only assumption beyond the typing of the constants is that the
clients are finitely many, which a broadcast to all of them needs. The invariant is:

| conjunct | says | needed because |
|---|---|---|
| `Good` | every message in flight is true: a request on its way was not executed and is not answered (`Pending`), an answer is of a request that was executed, a session that is opened or shown something is of a verified client | a message is only read after its sender has gone on, perhaps on another connection |
| `OneInFlight` | no request is in flight twice | otherwise the second copy would make `Pending` false when the first is executed |
| `ExecutedOnce`, `StreamExecuted` | work at the home, and a stream at the proxy, are of an executed request; one refused or never asked is not executed | these are the guards of `Relay`'s `Execute` and `Answer` |
| `EntryHasOwner`, `EntryWaits` | a pending entry's client has no answer yet | removing an entry and answering are the same step in `Relay` |
| `NoSocketMeanwhile` | while a reconnect is scheduled the home has no socket | `HomeOneSocket` alone does not survive the reconnect |

`Calm` and `Shift` say of most steps that they bring no new request into a channel. Then every step
is `Refuse`, `Ask`, `Execute`, `Answer` or `Fail` of `Relay`, or a stutter: the close of a tunnel
socket, which rejects all that is pending at once, is the one `Fail` of many requests.

`TunnelStreamProofs` proves `BodyIsWhole` (`CompleteBody`) and `ViewsFollow` (`ViewIsCurrent`) of the
same module, again for any number of everything. Both are about what is in flight: that what the
home sent and what the proxy has are the same up to the messages between them, whichever connection
these are on. Three layers are added to `IInv`, each proved action by action and each using those
above it (`NextWires`, `NextStreams`, `NextViews`); `Delivers` is their conjunction:

| conjunct | says | needed because |
|---|---|---|
| `Wires` | the home's socket is its one live connection; before the handshake it hears nothing else; nothing is served without registration; only the end follows the end of a channel, and a registration is its first message | a sender that finds its socket not open drops the message, so it matters where messages can still be |
| `Carried` | of a stream the proxy waits for, frames are in flight only on the connection it reads; a connection that loses nothing and may bring the answer is that one; no chunk before its start, nothing after its end, a good end only after all chunks; while the home reads, chunks that arrived and chunks in flight are those it sent | a chunk is dropped silently on a dead or closing socket, and the end of the stream may go on a later one |
| `Unsent`, `Busy` | no frame before the fetch is answered; only a fetch is aborted | the start frame finds the count of chunks at zero |
| `Cancelled` | a request whose cancel is in flight, or whose fetch is aborted while the home has a socket, has no entry at the proxy and will have none | an aborted stream ends like a complete one |
| `Current` | of a session on the registered tunnel the last state in flight, or else the one shown, is the present one; a registration in flight has a snapshot behind it | what the proxy reads before the registration is ignored |
| `Connected` | a client is verified only after it has connected | the home's session was never shown anything before |

`Same` and `Undisturbed` say what most steps do to a stream: a channel keeps its frames, perhaps
without its head, which is no frame, or is lost with its connection. The frames' own steps use the
lemmas on sequences (`StartRead`, `ChunkRead`, `EndRead`, `StartSent`, `ChunkSent`, `EndSent`), where
the chunks in flight are counted with `Cardinality`.

Every invariant and action property of a passing run is stated by a theorem. Only model-checked:
the liveness properties, since fairness and `ENABLED` are beyond the prover.

## 10. Not modelled

- Notifications, update orchestrator, miIO client: stateful, with hazards that are listed; each is
  independent of the modules above and is next in the plan.
- The engine's `last_triggered` column, the contents of conditions, the read-modify-write of an
  automation's update and the failure in the middle of a bulk save.
- The registry's `startAll` and `stopAll` over several integrations.
- The helper engine's timers and derived sensors, the state store's merge and its snapshot.
- What an open socket carries in Lutron and Pentair, and some twenty-five other vendors: protocols,
  polling, mapping of one JSON to another.
- Chat and LLM tools, REST routes, authentication, migrations: sequential handlers around queries
  and calls of external services.
- The front end and the shared types. These two with chat and the vendors are most of the
  repository's lines: rendering, parsing, formatting and requests without shared state, in which a
  state machine would only repeat the code. The models cover the parts that run concurrently.

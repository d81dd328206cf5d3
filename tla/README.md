# Formal models of rocket-toolkit

TLA+ models of the packages of rocket-toolkit whose correctness depends on the
order in which asynchronous steps happen, with TLC configurations that check
them on small instances and TLAPS proofs for every value of the constants.
Paths below are relative to `src/packages/`.

rocket-toolkit is a set of independent TypeScript libraries for Node.js. Node
runs one callback at a time, so within one process *the code between two
awaits is atomic*, and everything that can go wrong does so between two awaits,
between two Node processes that share a database or a broker, or when an
awaited operation fails. The models follow that rule: an action is what the
code does from one await to the next.

## 1. The system and its parts

### 1.1 process-manager

`process-runtime.ts` runs long-lived, event-sourced processes. The state of a
process instance is not stored; it is replayed from the stream of the instance,
`ProcessStarted, EventReceived e1, EventReceived e2, ...`.

| part | state | operations |
|---|---|---|
| runtime (`process-runtime.ts`) | none of its own | `handleEvent` (start the stream or not, load, replay, decide, append, run the effect; on `ConcurrencyError` all of it again), `getProcessState`, `clearProcessState` |
| event stores (`event-store/inmemory.ts`, `db.ts`) | records by stream; the in-memory store a lock per stream, the SQL Server one a table with a unique index on (StreamId, StreamVersion) | `appendEvent(expectedVersion)`, `loadEvents`, `streamExists`, `deleteStream` |
| process algebra (`process-algebra.ts`) | the generator inside a `Do` | `pure`, `fail`, `bind`, `pipe`, `both`, `map`, `liftEffect`, `setState`, `waitForEvent`, `fromEffect`, `ifThenElse`, `Do` |
| effects and mediator (`effects.ts`, `custom-effects.ts`, `mediator.ts`) | the handler registered for a command | `bind`, `pipe`, `catchError`, `fromAsync`, `httpGet`, `httpPost`; `Mediator.send`, awaited by the effect that sends |

*Interaction.* The application calls `handleEvent`, from several requests at
once and from several Node processes; an effect may call it again, through the
Mediator, and waits for it. All calls share the store, and only the store.

*Hard.* Another call appends between the load and the append of this one; two
calls start the same stream; the retry; an effect that fails, or never runs,
after its event was recorded; an insert that is committed though its answer is
lost; a crash; `clearProcessState` at any of these moments; the in-memory store
handing out the array it goes on pushing to. In the algebra: `both` offers each
event to two processes that may each take it, end or fail; a generator cannot
go back; a reply may come before the process waits for it; an effect that
throws takes those behind it with it.

*Correct.* The stream always replays; an effect belongs to exactly one record
and to the state that record was decided in; the initial effect runs once; a
finished process stays finished; every call settles; all in all, each event is
handled as if at one instant. A composed process does what its parts, each run
on its own, say it must.

### 1.2 message-bus

| part | state | operations |
|---|---|---|
| bus (`messageBus.ts`, `envelope.ts`) | for each `sendCommandAndReceiveEvent`: subscriptions, timer, resolver | `publish`, `subscribe`, `sendCommandAndReceiveEvent`, the correlation id of the envelope |
| transports (`transport/nats`, `jetstream`, `rusi`) | one lazily made connection behind a mutex; for each subscription its buffer, running handlers and, in jetstream, a semaphore | `connect`, `disconnect`, `publish`, `subscribe`, unsubscribe (`timeout.ts`), acknowledgement; rusi encodes the data as UTF-8 by hand |

*Interaction.* The bus awaits the transport; the transport calls the bus's
handlers whenever a message comes; the caller's correlation id comes from the
correlation manager (1.6). A handler's rejection reaches graceful-shutdown (1.3).

*Hard.* Calls that share event topics see each other's answers; an answer races
the timer, comes twice, comes before `publish` has returned; one subscription
of several fails. In the transports: concurrent first use, disconnect, a lost
connection, redelivery, bounded concurrency, acknowledgements that are lost.

*Correct.* A call resolves with the answer to its own command, settles once,
always settles, and releases its subscriptions. There is one connection at a
time and the mutex is always given back; a durable message is acknowledged only
after a handler has returned, and is handled in the end.

### 1.3 graceful-shutdown

One flag for all registrations (`gracefulShutdown.ts`). *Hard:* signals, fatal
events and manual calls race; `onShutdown` hangs, throws, or leaves something
open; only a timer ends the process then. *Correct:* one `onShutdown` runs,
once, and a process that began to shut down ends.

### 1.4 apollo-logger and pino-apollo

Two Apollo Server plugins. *State:* the logs of a request in its context
(`apollo-logger/src/utils.ts`); the error objects on their way to the client.
*Operations:* the hooks of a request and of its errors. *Hard:* logs appended
while others are persisted and then cleared; the error object that is logged is
the one changed to be sent; six hooks through which an error may reach the
client. *Correct:* secured answers do not tell what an error said, the log
does, nothing gets lost, and every request is answered.

### 1.5 pino-mssqlserver

The queue of logs and the loop that writes it to a table in batches
(`batchQueueProcessor.ts`), filled and closed by `dbTransport.ts`. State: the
queue, the abort signal, the batches being inserted. *Hard:* `close` empties
the queue while the loop is inserting; abort comes while the loop is not
waiting; inserts fail; pino lets the thread end once `close` has called back.
*Correct:* every log is written or dropped once, but for one batch when the
thread ends; close leaves nothing in the queue and ends the loop.

### 1.6 Async scopes: correlation, multitenancy-core context, opentracing

Three managers on `AsyncLocalStorage`: `correlationManager.ts`,
`tenantContextAccessor.ts` (same code) and `spanManager.ts`. State: the store
each task runs with; one `Map` per module for the first two, one array of spans
for each `useSpanManager`. *Hard:* tasks that interleave, nest scopes, start
others and outlive them. *Correct:* inside a scope, the value it was
opened with is the current one; spans pop as they were pushed.

### 1.7 opentelemetry-instrumentation-ws

Spans around the life of a WebSocket (`instrumentation.ts`). State: the parent
context of each socket, the request spans by request, the listeners. *Hard:*
connect, upgrade, open, close and errors of two ends in any order; listeners
that stay attached; code that closes the socket of another. *Correct:* each
span lasts as long as what it names, and each end of a connection is in
one trace, the caller's wherever its headers reach the server.

### 1.8 Configuration: key-per-file-configuration and multitenancy-core

Files of a folder are loaded into `process.env` and reloaded as a watcher tells
(`keyPerFileConfiguration.ts`); tenant configuration reads the environment
through a leading-edge debounce (`tenantConfiguration.ts`), `tenantService.ts`
reads that. *Hard:* files that come, change and go between the load, the scan,
an event and its handling; two snapshots of different moments. *Correct:* once
all is told the environment is as the files are; the ways to read a value agree.

### 1.9 Not modelled

- **knex-filters**: sequential; hooks are called on one query builder before it
  runs. What it does is the shape of SQL, which a model would only repeat.
- **metrics**: OpenTelemetry counters and one HTTP server handle.
- **pino mixins and tracing streams**: stateless; they read the current scope
  (1.6) and format a record.
- `.yarn`, the samples and the build files: third-party or not part of the program.

## 2. Modules

| module | models | kind |
|---|---|---|
| `ProcessDefinition` | what the runtime needs of a process: an automaton, and the replay of a history | constants, operators |
| `EventStore` | one stream of either store: version check and append | constant, operators |
| `ProcessRuntime` | concurrent calls of `handleEvent`, with retries, effects, nested calls, clears, crashes and failed requests | state machine |
| `AtomicProcess` | the promise: an event is handled at one instant | abstract state machine |
| `ProcessRefinement` | what of `ProcessRuntime` stands for the state of `AtomicProcess` | refinement mapping |
| `ProcessAlgebra` | the combinators of processes, states and effects | recursive operators |
| `ProcessMeaning` | what a composition is to mean, on whole histories | reference definition |
| `ProcessRun` | a composed process, calls of the runtime side by side, effects that enqueue events or throw | state machine |
| `RequestReply` | `sendCommandAndReceiveEvent` | state machine |
| `TransportConnection` | the lazy connection, its mutex, disconnect | state machine |
| `Subscription` | one subscription: delivery, handlers, slots, acknowledgements | component |
| `RusiEncoding` | `toUTF8Array` and `fromUTF8Array` | recursive functions |
| `GracefulShutdown` | the flag, the hooks, the timer | component |
| `MessagingNode` | a Node process made of the four above, that dies and starts again | composition |
| `BatchQueue` | the log queue, its loop and `close` | component |
| `RequestLogging` | both Apollo plugins, with `BatchQueue` behind pino-apollo | composition |
| `AsyncScopes` | correlation, tenant and span scopes | state machine |
| `WsInstrumentation` | the spans of both ends of WebSocket connections | state machine |
| `KeyPerFile` | files, watcher, environment | component |
| `TenantConfiguration` | tenant configuration over `KeyPerFile` | composition |
| `MC*` | instances for TLC | for TLC |
| `*Proofs` | theorems about the module named | proofs |

The definitions called *Mutant* in a comment are not part of the models: each
is the definition that follows it with a plausible bug, and shows that some
property would notice that bug.

### 2.1 ProcessDefinition and EventStore

A process is `InProgress` with a partial function `next` on events,
`Succeeded`, or `Failed`: an automaton (`States`, `Initial`, `Terminal`,
`Move`, `Ignored` where `next` answers null). `applyHistory` replays a history
through it and is `Broken` where the code throws. Process code is assumed pure,
as replay assumes it too; `getProcessState` reads.

A stream is the sequence of its records in version order. The two stores
differ in the version check, and the model keeps the difference: in memory a
missing stream is created whatever version was expected (`inmemory.ts:52`);
SQL Server inserts at `expectedVersion + 1` and only refuses a version that is
taken (`db.ts:25`, the unique index described at `db.ts:47`). Events are data
that JSON carries unchanged, as the SQL Server store needs.

### 2.2 ProcessRuntime

`pc[c]` says which await call `c` is at; the table in the module's header gives
the names. `view[c]` is the history the call has loaded and `live` the calls
whose history is the in-memory store's own array, so that it grows with the
stream (`inmemory.ts:99`) until the call has replayed it.

| action | code in `process-runtime.ts` |
|---|---|
| `HandleEvent` | `handleEvent` is called by the application |
| `StreamExists` | the store answers `streamExists`: start or apply |
| `AppendStarted`, `RetryStart`, `RunInitialEffect` | `startProcess`: append at version 0; `ConcurrencyError` and `handleEvent` anew; the initial effect |
| `LoadEvents`, `ApplyNewEvent` | `applyNewEvent`: load; replay, then drop the event or go to the append |
| `AppendReceived`, `RetryReceived`, `RunEffect` | `applyNewEvent`: append at the length of the history loaded; retry; the effect |
| `EffectReturns`, `EffectThrows`, `EffectEnqueues` | what user code in an effect can do: end, throw, or send `enqueueEvent` and wait for it |
| `ClearProcessState` | `clearProcessState` |
| `RequestFails` | SQL Server: any other error of a request, before or after it took effect |
| `Crash` | a Node process goes down with its calls; the database stays |
| `Quiescent` | nothing: all calls have settled |

One stream is enough: no operation touches two. The in-memory store's lock
makes its check and push one step, which the append is. `effects` is a history
variable, `clears` and `faults` count towards the bounds `MaxClears` and
`MaxFaults`, and `Calls` bounds the number of calls, nested ones included.

### 2.3 AtomicProcess

Each call waits, and then at one instant its event is recorded, because the
process is waiting for it, or dropped, because it is not. For each record the
writer begins its effect at most once, after the record and before it returns.
Calls may be cut short. `ProcessRefinement!Atomic` maps `ProcessRuntime` to it: the log is
the stream without versions; a call that has loaded a history in which its
event is not awaited is already dropped, since a history of its own can no
longer change; everything up to the append is waiting.

### 2.4 ProcessAlgebra, ProcessMeaning, ProcessRun

A process is a term; `proc` runs the function it stands for, `next` offers an
event to an `InProgress` state, whose closure is a record of what the code
closes over. The generators of `Do` are mutable, so both operators take and
return them. `ProcessMeaning` says what a term should do without stepping
through it: `bind` splits the history where its first process is over, `both`
runs its sides each on the whole history. It translates no code, it is what
the code is compared with. `ProcessRun` is the runtime at work on such a
process. Each event from outside is a call of its own (`ComesFromOutside`), and
the calls run side by side; `work[c]` is what a call has still to do. `Applies`
is `applyNewEvent`, one step here (`ProcessRefinement` is about what happens
inside it); what comes of the event goes before the rest of the call, and so do
the replies that an effect gives (`Executes`): they are handled inside it, before
the effects behind it. `Throws` is an effect, or a call of the runtime, that
rejects: nothing catches it, so the rest of the call is never done. `dropped`
remembers the requests that get no answer for that. `Rebuilt` is the runtime's
habit of starting the process anew, with fresh generators, and replaying what it
took. An effect that sends a command no
handler is registered for loses its event (`mediator.ts`); here all are
handled. A condition of `ifThenElse` is evaluated again in every replay
(`process-algebra.ts:322`): one that reads anything that changes would take the
other branch, which only the assumption of purity excludes. `Effect.all`,
`race`, `lift2`, `catchError` and the conversions of `Result` are used by no
combinator and left out.

### 2.5 RequestReply

One call of `sendCommandAndReceiveEvent` is one element of `Requests`. `Send`
asks for all its subscriptions; each opens or is refused on its own
(`Promise.all`); `Publish` hands the command over; `PublishReturns` arms the
resolver and the timer (from here on an event can answer), or `PublishThrows`;
`EventHandled` is the bus's handler (it ignores events until then, and those
with another correlation id); `TimerFires` rejects a call still pending;
`Settle` is the promise with its `finally`, which releases the
subscriptions without waiting for it: events may still come to them. The broker and the service are
external: they lose events, deliver them in any order to any of the open
subscriptions, and answer a command more than once.

### 2.6 MessagingNode and its parts

`TransportConnection` keeps the three transports apart where they differ: only
jetstream asks whether the connection it keeps is closed, only its close is
awaited before the connection is forgotten, and a gRPC channel (rusi) is never
lost. A rusi channel whose `waitForReady` failed is taken as not open.
`Subscription` keeps who acknowledges (`AcksAfterHandler`: nats in manual mode,
jetstream with an explicit policy, rusi always) and jetstream's semaphore
(`HandlerStarts`, `Ends`). nats and rusi leave the limit on handlers to the
broker. `unsubscribe` of nats races a timer (`timeout.ts`), whose `finally {
return }` swallows the rejection, so that it always resolves. In
`GracefulShutdown` listeners run in the order of registration, so a signal runs
the first registration's `onShutdown` only. `MessagingNode` composes them: the
subscribing call hands its connection to the subscription; a connection that is
closed or lost silences it and drops its acknowledgements; a handler's
rejection is unhandled and shuts the process down; an open connection keeps the
event loop busy until the timer. `RusiEncoding` is two functions on UTF-16 code
units; serialised JSON never holds a lone surrogate (`WellFormed`).

External: broker, client libraries and gRPC. A message the broker will not
deliver again is `settled`. Queue groups are the broker's. `wrapClient` and the
connection events (logging) are left out.

### 2.7 BatchQueue and RequestLogging

The two users of the queue are the loop and `close`. `IntervalEnds` is the end
of `wait`; `InsertEnds(f)` is the end of `await batchHandler(batch)` in either
flush, successful or not (`insertLogs` catches), together with the `splice` for
the next batch, with no await in between; `Close` is the abort and the first
`splice` of close. `ThreadEnds` is the end of the transport's thread, which pino
allows once `close` has called back, wherever the loop is then: the batch it
was inserting stays in doubt, and `EveryLogLeaves` excepts that batch only. Logs
are numbered as they come.

`RequestLogging` runs requests through the hooks of one of the two plugins
(`Apollo`: apollo-logger, otherwise pino-apollo). Its actions are the hooks,
cut where they await `persistLogsFn`. Resolvers log in between, with loggers of
their own for the same context, at any level: `ResolverHands` is a call of a
logger that has a `persistLogsFn`, `ResolverLogs` and `ResolverClears` are
`logInfo` or `logDebug` and `logError` of one that has none, whatever the plugin
has. `ResolverHangs` is a resolver that awaits the promise of a skipped log; its
request is `stuck`. `logs` are the logs in a context and `due` those that have
to be given to `persistLogsFn` yet. Two kinds of logs never are, and leave `due`
or do not enter it: those appended without `persistLogsFn` while another call
awaits it, and those that `logDbError` clears. What pino-apollo
logs is enqueued in an instance of `BatchQueue` at once: pino's own stream is
taken as immediate, its level as info. An error is a record of what a client
can see of it (whose message, whether a business error, whether with a stack);
what logs say is left out otherwise. A context that cannot be
made and an invalid request, for which only pino-apollo has hooks, are
`logsServerError`.
Records that come after close are lost, and not counted.

### 2.8 AsyncScopes

`frames[t]` are the scopes task `t` is in, `inherited[t]` how many of them it
was started in. Entering a scope is `useCorrelationId`, `useSpanManager` or
`withScope`; `Leave` is the end of the innermost callback, with what the code
does then (only `withScope` has a `finally`). `Start` is a call that is not
awaited at once. `store` is the module's `Map`, `arrays` the span arrays.

### 2.9 WsInstrumentation

One model of both ends of each connection. Each action is one patched function
or listener around what ws does: `Construct`, `ClientOpens`, `ClientFails`,
`Fails`, `Closed`, `IncomingRequest` (the http server's 'upgrade'),
`HandleUpgrade`, `Verified` (its callback after an asynchronous
`verifyClient`), `Receive`, `Send`, `Sent`, `Close`, `Concludes`. A context is
the span active in it. Two facts about ws differ between versions and setups
and are left open: whether the server makes its sockets from the patched class,
and whether `removeEventListener` finds a listener added by `once`. How each
connection is made is left open too (`TwoArguments`): the constructor injects
its context in its third argument (`instrumentation.ts:175`), but of
`new WebSocket(url, options)` ws takes the second argument for the options, and
what was injected is lost. A trace is named by the span it began with.
Attributes (`limitLength` among them), hooks, the two settings that turn send
and receive spans off, and calls of `close` before the socket is open or once it
is closed are left out.

### 2.10 KeyPerFile and TenantConfiguration

`events[v]` are the watcher's events of one file still to be handled; a file is
read when its event is handled, not when it changed (`_loadValue`), and a read
of a file that is gone throws in the watcher and ends the process
(`LoadThrows`); `load` is the start of the next one. `Current` is what a call
of a debounced function returns, `Read` a read of the configuration, which
calls both, `TimerFires` the timer of either debounce. Left out: nested keys,
the camelizing of names, the upper case of ids, two files of one name in
different folders, and the service with multitenancy off.

## 3. Runs

| run | instance | what it shows |
|---|---|---|
| `process_inmemory` | in-memory store, 3 calls, one event wanted twice, 1 clear | effects fit the records until the clear; the initial effect runs once per life of the stream, also with a clear in between; every call settles |
| `process_mssql` | SQL Server, 2 nodes, 3 calls, two events in either order, 1 fault, no clear | the stream always replays, and its state moves as the process does, one awaited event at a time; the runtime implements `AtomicProcess`; every call settles |
| `process_cleared` (violation) | as `process_inmemory` | finding 1 |
| `process_gap` (violation) | SQL Server, 3 calls, 1 clear | finding 2 |
| `process_algebra` | every composition of two levels over seven parts and some sixty of three; up to 3 events from outside, side by side | a composition ends as its parts say, gives out their effects in order and once, and waits for a reply that will not come only when something before it in the same call threw |
| `request_reply` | 2 calls, 2 topics, same / different / no correlation id | right answer, first outcome stands, subscriptions released, every call settles |
| `messaging_node` | each transport; 2 calls that need the connection, 1 disconnect; 1 message; 2 faults; 2 registrations; 2 lives | one connection at a time, a live one given, mutex released; a durable message that is acknowledged was handled, and is handled at least once; any other at most once (rusi aside); slots match handlers; rusi's text arrives; one shutdown, which ends |
| `request_logging` | 2 requests, either plugin, 2 errors, 2 logs of resolvers of one of them, 4 records in batches of 2 | secured answers, raw logs, no log written twice, or lost but in the ways 5 lists, every request answered that awaits no skipped log; close empties the queue and ends the loop |
| `async_scopes` | 3 tasks, 3 spans, depth 3 | spans pop one for one however tasks interleave; a root span that is not shared is isolated |
| `correlation_scopes` (violation) | 2 tasks, 2 ids | finding 3 |
| `ws_spans` | 2 connections, 2 calls of send, receive or close | spans last as their sockets; one trace per end of a connection, and one for both where the headers are sent |
| `configuration` | 2 tenants and defaults, 5 files, 2 writes or deletions | the environment follows the files; the ways to read agree; reads that pause see the files as they are |

**Why the bounds are enough.** Three calls are the fewest in which one call can
conflict twice, or be between its load and its append while a second clears the
way for a third, or be nested in an effect while an outsider interferes. The
process of `process_mssql` takes two events in either order, so whether an
event is accepted depends on what was recorded before; two nodes and one fault
give a crash in which other calls go on. One clear separates two lives of the
stream, and the third call meets what is left. Three events from outside let
either side of a `both` be one step ahead of the other and then catch up, with
replies in between. Two requests are the fewest that can confuse their answers.
Two users and a closer of the connection are the fewest in which one finds it
made while it waited and another finds it gone; with one message the two faults
give a handler that throws or runs twice, and a second life that must still
handle it; with `MaxConcurrent = 1` the second handler waits for a slot. Four
records in batches of two let both flushes be inserting at once. Two logs of
resolvers are one that awaits `persistLogsFn` and one that is appended
meanwhile; contexts are not shared, so the resolvers of one request suffice. Three tasks are
one that shares scopes with a child and one that shares with nobody. Two
connections let the code of one close the socket of the other. Two writes are
the fewest that let a file change and go between an event and its handling, or
two tenants exchange their ids.

**Symmetry** is not used. The two connections of `ws_spans` are not alike: one
is made with `new WebSocket(url, options)`.

**Deadlock.** `ProcessRuntime` is checked for deadlock: it stutters explicitly
only when every call made has settled (`Quiescent`), so a call waiting for ever
would be reported. The other systems may stop: requests have all settled, the
log transport is closed, all tasks have ended, the process is over, the bounds
are used up.

**Fairness.** `WF(Step(c))` in `ProcessRuntime`: the event loop runs every
continuation, a database request is answered (or fails, which is a step of its
own), an effect ends (`EffectReturns` or `EffectThrows`). No fairness for being
called, for clears or for faults. `WF(Answered(r))` in `RequestReply`: the
transport answers every subscribe and publish, well or not, and timers fire; no
fairness for the service, so events may never come. `MessagingNode`: the
transport answers, the broker delivers, and delivers again after its wait for an
acknowledgement, handlers end and timers fire; `onShutdown` may hang, and
nobody need call, publish or send a signal. `RequestLogging`: Apollo goes on
with a request, execution ends unless a resolver awaits a skipped log
(`ResolverHangs`, which nothing forces), `persistLogsFn` settles for the last
hook, timers fire and inserts end, until the thread ends; nothing makes anyone
call `close`. `TenantConfiguration`: the watcher scans and tells,
timers fire, the process is started again; nobody need read or write.
`AsyncScopes`, `ProcessRun` and `WsInstrumentation` have no liveness property.

## 4. What is proved

TLAPS checks these for every value of the constants that the assumptions below
allow: any process, store and set of calls, with any number of clears, crashes
and failed requests; any requests and topics; any users of a connection,
messages, kinds and limits of a subscription; any tasks, scopes, spans and
sockets; any files and tenants; any requests, errors, logs and batch limit; any
well-formed text:

| theorem | statement |
|---|---|
| **`ProcessRuntimeProofs`** | |
| `TypeCorrect` | `Spec => []TypeOK` |
| `HistoryAlwaysReplays` | `Spec => []HistoryReplays` |
| `EffectsAlwaysMatch` | `Spec => []EffectsMatchHistory` |
| `OneEventAtATime` | `Spec => MovesAsTheProcess` |
| `FinishedStays` | `Spec => FinishedForGood`: while nothing was cleared, nothing is recorded after the record that finished the process |
| `ReplayOneMore` | `applyHistory(Append(h, r)) = Applied(applyHistory(h), r)`: a history with one more record is one step further |
| `ReplayNeverThrows` | `Spec => []NeverThrows`: while nothing was cleared, the stream and what a call decides on replay to a state of the process, never to an exception |
| `InitialEffectOnce` | `Spec => []InitialEffectOncePerLife`, with any number of clears |
| **`ProcessRefinementProofs`** | |
| `EffectsAlwaysAccounted` | `Spec => []AccountInv`: while nothing was cleared, the effect of each record has begun, or its writer owes it or was cut short |
| `HandlesEventsAtomically` | `Spec /\ [](clears = 0) => HandlesAtomically`: the runtime implements `AtomicProcess` |
| **`RequestReplyProofs`** | |
| `RequestTypes`, `AnswersAreRight`, `WaitersLeaveNothing`, `DecidedOnce` | type correctness and the three safety properties of `RequestReply` |
| **`MessagingNodeProofs`** | |
| `OneConnection`, `NodeHasOneConnection` | `AtMostOneConnection` of `TransportConnection` alone, and within a process that dies and starts again |
| `NodeGivesLiveConnections` | `Spec => LiveConnectionGiven` |
| `AckOnlyAfterHandler` | `Spec => []AckedMeansHandled` |
| `SlotsAreExact` | `Spec => []SlotsMatchHandlers` |
| `HandledAtMostOnce` | `Spec => AtMostOnce` |
| `OneShutdown` | `Spec => ShutsDownOnce` |
| `UnitArrives`, `PairArrives` | a code unit, or a surrogate pair, is read as rusi wrote it, wherever in the data it stands |
| `TextArrives` | `fromUTF8Array(toUTF8Array(str)) = str`, for every well-formed string of any length |
| `TextsDelivered` | `Spec => []DeliveredIntact` |
| **`RequestLoggingProofs`** | |
| `SecuredServersTellNothing` | `Spec => []SecuredAnswers` |
| `EveryErrorLogged` | `Spec => []ErrorsLoggedRaw` |
| `NoLogCleared` | `Spec => []LogsHandedOver` |
| `LogsHaveOnePlace` | `Spec => []EveryLogOnce` |
| `LogsStayInOrder` | `Spec => []WrittenInOrder` |
| `CloseLeavesOneBatch` | `Spec => []CloseEmptiesQueue` |
| **`AsyncScopesProofs`** | |
| `ScopesPoppedOneForOne` | `Spec => []SpansBalanced` |
| `SpansOfOneTask` | `Spec => []SpansIsolated` |
| **`WsInstrumentationProofs`** | |
| `SpansLast` | `Spec => []SpansLastAsTheirSockets` |
| `ConnectionIsOneTrace` | `Spec => []OneTrace` |
| **`TenantConfigurationProofs`** | |
| `EnvironmentFollowsFiles` | `Spec => []EnvFollowsFiles` |
| `ConfigurationReadsAgree` | `Spec => []ReadsAgree` |

*Assumptions.* The `ASSUME`s of the modules, which TLC evaluates on the
instances: `Move` is a function on states and events; `Ignored`, `Broken`,
`NoEvent`, `NoCall`, `NoAnswer`, `Nothing` and `Root` are none of the values
they stand beside; an in-memory store lives on one node; ids given by callers
are not those made up for calls without one; no call is both a user and a
closer of the connection, and the subscriber is a user; `MaxConcurrent`,
`batchLimit` and the number of registrations are not zero; `MaxLogs` leaves
room for one log of each request and of each error; the files of a folder begin
with contents a file can have; codes of tenants are strings; a text holds no
half of a surrogate pair, because `serDes.ts` makes it with `JSON.stringify`,
which writes such a half as an escape. No set of calls,
tasks, messages or connections is assumed finite.

*The runtime.* The argument has three layers. `CallInv` is what a call knows of
itself: types, that only a call about to replay holds the live array, and
`DecisionStands`, that a call on its way from the decision to the effect still
has the very history that accepted its event. It holds whatever is cleared.
`HistoryInv` holds while nothing was cleared: every record is at the version
that is its position (`Numbered`), and what a call has loaded is a prefix of the
stream (`ViewsArePrefixes`). From these two, lemma `NoConflictMeansCurrent`: an
append that the version check of *either* store lets through was expected at
the stream's own length, so the prefix is the whole stream, and the event that
was accepted in the history loaded is accepted in the stream it is appended to
(`ReplaysGrows`). For effects the invariant also says what is still owed:
a call in `started` or `recorded` has written a record whose effect nobody has
begun (`InitialEffectOwed`, `EffectOwed`). None of the properties is inductive
alone: `HistoryReplays` says nothing of the histories the calls hold. The third
layer, `LifeInv`, holds across clears: a record at version 1 is written once in
each life of the stream, so the initial effects begun and the calls that still
owe one are no more than the clears, and one more once the stream has begun.

*Replaying.* `applyHistory` is a recursive function on the positions of a
history. The library's induction takes an operator and cannot be used here, so
induction is done with a set: the positions for which a claim fails, a set of
numbers, would have a least element (`LeastOf`, from `NatLessThanWellFounded`
and `WFMin`), and below it the claim holds. A recursive function is `CHOOSE`
of a function that satisfies its equation, so first one is shown to exist
(`FoldExists`), then that any two agree up to the length of the shorter history
(`FoldUnique`). From that, `ReplayOneMore`: what was appended is one step. An
append that the version check lets through is one record, accepted in the stream
(`AppendsToWhatWasReplayed`), so the state moves along one event
(`EventMoves`), which is `OneEventAtATime`. A stream that `Replays` never throws
(`ReplayingNeverBreaks`), and nor does a prefix of it (`PrefixReplays`).

*The refinement.* With `CallInv`, `HistoryInv` and `AccountInv` at both ends of
it, every step taken while nothing is cleared is a step of `Atomic` or leaves
its variables alone, one lemma for each action. A load of a history that does
not take the event is where `Atomic` drops it, which `ReplaysGrows` and the
prefix justify; an append is where it records it; the beginning of an effect is
`BeginEffect` with that record's position in the log, which is its version. The
hypothesis is the code's own limit: findings 1 and 2 are what a clear does.

*Request and response.* `RequestInv` is `CallFacts` (what each pc implies about
the call's command and subscriptions), `ResultFacts` (an answer carries the id
of the call it resolved, and ids never change after `Send`) and `Closed`.

*The connection.* `ConnectionInv`: whoever is opening or closing holds the
mutex (`Protected`), so there is one at most, and while one is opened no
connection is open (`NoneOpenInside`). `AtMostOneConnection` alone does not say
why `Opened` finds nothing open. For the process around it
(`NodeConnectionInv`), `KeptIsOpen` adds that the channel rusi keeps is open, as
none is lost, and each other step leaves the connection alone or ends the process
(`NodeStepForConnection`).

*The subscription.* `SubscriptionInv` says of a message that needs no
acknowledgement where it is (`OnceOnItsWay`): in the buffer, once, or given to a
handler, and then never in the buffer again; that the running handlers are
finitely many and hold exactly the slots taken (`SlotsInv`: a cardinality, which
needs the finiteness); and that nothing is delivered or runs before there is a
subscription (`IdleUnlessSubscribed`).

*The encoding.* For one character, by cases on the four widths: the bytes that
`UnitBytes` and `PairBytes` write, put back by `UnitsAt`. For a text, downwards
from its end (`Downward`): if the bytes from position `p` on are those that the
encoder writes from position `i` on, and no pair is cut at `i`, then the decoder
reads from `p` on what the text holds from `i` on. The bytes of one character
are the first of these (`StandsInTwo`), the rest are those of the next position.
Encoder and decoder recurse towards the end, so that each value depends on later
ones only, which is why a function with their equation exists
(`SolutionExists`). `OnlyMessagesStart` takes the theorem to the process.

*The logs.* `LoggingInv` has one part for each stretch of an error's or a log's
way. `QueueInv`: the queue, the two batches, the table and the dropped share the
logs out among them (`PlacesInv`), and until `close` a single flush moves them,
in order, from the one to the next (`LineInv`; after `close` two flushes may
overtake each other, and the properties say so; a flush has a batch only while
it inserts it, or if the thread ended meanwhile). `RequestInv`: how many errors
of a request each phase has dealt with (`Progress`), and which of them may be
seen as they are now (`Shown`). `RecordsInv`: each error dealt with has one
record, with its own message (`LoggedOnce`). `ContextInv`: the logs of a request
without errors that are due are still in its context, and none is due while a
call waits to clear it (`Handed`).

*The scopes.* `ScopesInv`: each span that is a root was opened once, by one
task, and the frames that are under it find it first (`RootsIn`); its array holds
the root and one span for each scope open under it, wherever it is open
(`Balanced`); and where all of them are of one task, the array *is* that task's
frames, in order (`Listed`). `SpansIsolated` alone is not inductive: whether a
task has a root to itself comes and goes as others enter and leave.

*WebSockets.* `WsInv` says of either end of a connection, for each state of its
socket, which spans exist, which are still running and in what context its
listeners run (`ClientInv`, `ServerInv`), and that all spans but those of send are
in the trace of their end of the connection (`GoodSpans`); `MayStart` says in
which contexts a span keeps that so.

*Configuration.* `FilesInv`: while the watcher watches, the content of each
file is in its variable, or an event that will have it read is still to come and
is the last of its file (`ReadOrAwaited`). `ReadsAgree` needs no invariant: lemma
`SnapshotsAgree` has it for any two snapshots of anything.

*Only model-checked.* Every liveness property, since the prover does not do
fairness: `EveryCallSettles`, `EveryRequestSettles`, `MutexReleased`,
`ShutdownEnds`, `EveryMessageHandled`, `EveryLogLeaves`, `CloseStopsLoop`,
`EveryRequestAnswered` and `PausesShowFiles`. `OutcomeAsMeant`, `EffectsAsMeant`
and `ReplyIsOnItsWay`: the combinators of a process and their meaning recurse
over terms with operators, which the prover cannot reason about.

## 5. Findings

1. **A cleared in-memory stream can start with `EventReceived`**
   (`process_cleared`, `inmemory.ts:52`). `clearProcessState` between the load
   and the append of a call: the append creates the stream anew with the wrong
   first record. `process-runtime.ts:40` demands "History must start with
   ProcessStarted", so from then on every call on the stream throws.
2. **A cleared SQL Server stream can retry for ever** (`process_gap`,
   `db.ts:25`). The same race, and a third call that starts the process anew in
   between: versions 1 and 3 exist, 2 does not. Every later append goes to
   version 3, conflicts and is retried from the same two records.
   `process-manager/README.md:308` says that conflicts are handled by retrying.
3. **Correlation and tenant scopes share one value** (`correlation_scopes`,
   `correlationManager.ts:18`, `tenantContextAccessor.ts:27`). All scopes run
   with the same `Map`; a scope opened later, concurrently or nested, changes
   the id of those still open, although `correlation/README.md:4` says a scope
   is propagated across async calls.

The models also show behaviours that nothing in the repository rules out, and
that a user should know of.

*process-manager*
- a crash between the append and the effect loses the effect: the record is
  there, so it is never decided again. Effects run at most once;
- after an effect has thrown, `handleEvent` rejects although the event counts;
  handling it again then drops it or takes it as a second event;
- the effects behind one that throws are never executed (`effects.ts:12`): one
  side of a `both` can lose the request of the other, and the process then waits
  for ever for its reply. `ReplyIsOnItsWay` excepts exactly these requests.

*message-bus*
- a subscription refused, or a publish that throws, leaves the call's other
  subscriptions open (`messageBus.ts:75`, `:93`: before the `try`);
- an answer that comes before `publish` has returned is ignored, and the call
  times out (`messageBus.ts:81`);
- two commands sent in one correlation scope take each other's answers;
- nats keeps handing out a connection that the broker has closed
  (`transport/nats/index.ts:34`);
- an acknowledgement on a closed connection is lost, and the message comes again;
- every node gets the messages of a jetstream PUB_SUB subscription, which joins
  no queue group (`message-bus/README.md:67` speaks of one); rusi acknowledges
  every kind after its handler, so at-most-once is left to its server.

*logging*
- the promise of a skipped log never settles (`apollo-logger/src/utils.ts:27`,
  `:31`, `:35`). apollo-logger awaits it for an introspection with errors, and a
  resolver may await it whenever its level is skipped: such a request is never
  answered, and `EveryRequestAnswered` excepts these two;
- a log that a resolver appends without `persistLogsFn` while another call awaits
  it is cleared when that call goes on (`utils.ts:80`), and not handed over
  (`LogsHandedOver` excepts it);
- `logDbError` clears the logs even where the logger has no `persistLogsFn`,
  which the plugin's own has not (`utils.ts:115`), so logs up to the last error
  of a request never reach it. `LogsHandedOver` is about requests without errors,
  and excepts what a resolver's own `logError` without `persistLogsFn` clears;
- `close` of the log transport calls back while the loop may still be inserting
  its last batch (`dbTransport.ts:96`), and batches may overtake each other then;
  if the transport's thread ends first, that batch is neither written nor
  dropped for certain (`EveryLogLeaves` excepts it).

*scopes and spans*
- tasks that open spans with `withScope` under one root span share one array:
  each pops the span pushed last, which may be another task's;
- a client made with `new WebSocket(url, options)` does not send the headers the
  constructor injects (`instrumentation.ts:175`): its server starts a trace of
  its own (`OneTrace`);
- the request span of a refused WebSocket upgrade and the connect span of a
  constructor that throws are never ended (`SpansLastAsTheirSockets` says
  exactly when), nor is the span of a send before the socket is open.

*configuration*
- a file that is removed leaves the string "undefined" in its variable
  (`keyPerFileConfiguration.ts:71`), or its old content if it went before the
  watcher's scan: a tenant's default is not restored;
- an empty value of a tenant falls back to the default when its key is read,
  but not when its section is (`tenantConfiguration.ts:33`); `ReadsAgree`
  excepts empty values;
- reads that never pause for 5 s never see a change (`tenantConfiguration.ts:13`).

## 6. What could be added

- A promise weaker than `AtomicProcess` that the in-memory runtime keeps through
  clears.
- `RequestReply` over `Subscription`, instead of over a broker of its own.
- `appendEvent` with several events and `loadEvents` from a version, which the
  runtime does not use; the connection pool of the SQL Server store; the
  conversion of a log to a row.

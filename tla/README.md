# Verification of the layered communication fabric

TLA+ models of the Python communication fabric in `src/`, checked with TLC on small
instances and, where it matters most, proved with TLAPS for every instance. Paths below
are relative to the code's root `src/src/`.

The fabric is a stack of asyncio components: every component runs on one event loop, so
code between two `await`s that suspend runs undisturbed, and everything interesting happens
*at* the awaits. All models use that grain: **one action per stretch of code between
suspending awaits**. A lock that is taken and given back without an await between leaves no
trace; a lock that is held over an await is a variable. Collaborators that are passed in
(factories, transporters, stores, coordinators, the wrapped operation of the breaker) are
modelled by what they may do: take time, succeed or raise.

## 1. The system

### 1.1 Inventory

| component (files) | state it keeps | operations | what is hard | what makes it correct | model |
|---|---|---|---|---|---|
| circuit breaker (`network/resilience/circuit_breaker.py`) | state, failure and success counts, time of the last failure | `call` | the wrapped operation runs outside the lock, its result is recorded in a circuit that changed meanwhile | counts agree with the state; a trial is clean; an open circuit is tried again | `CircuitBreaker`, `BreakerProtocol` |
| channel (`transport/channel/channel.py`) | lifecycle state, lock | `open`, `close`, `send`, `stream` | lock held over the transporter's awaits; sends without the lock; cancellation at any await | nobody but the owner leaves a transitional state; calls return | `Channel` |
| channel pool (`network/adapters/pool_adapter.py`) | queue of idle channels, time stamps, closed flag | `acquire`, `release`, `health_check`, `close` | waiting for room, closing while checking while acquiring, a close that raises | every channel in one place, none lost, shutdown reclaims and lets waiting releases go | `ChannelPool` |
| session router (`network/adapters/router_adapter.py`) | session -> channel | `bind`, `unbind`, `resolve` | drops routes it cannot use | no two sessions on a channel | in `SessionDispatch` |
| session dispatcher (`session/session_dispatcher.py`) | session -> channel id, lock | `route_session`, `handle_failure`, `release_session`, `close_all` | the lock is held while the pool and the registry are awaited; `close_all` walks without it | routes and bindings agree; healthy channels come back; the lock comes back | `SessionDispatch` |
| session registry (`session/session_registry.py`) | session -> coordinator and times, maintenance task | `register`, `resolve`, `touch`, `evict_idle`, `unregister`, `start_maintenance`, `close` | finalising takes time and fails, under the lock or outside, or fails at once because the collaborators lack the operation; close cancels a round in progress | no coordinator lost or finalised twice; idle sessions go; close returns | `SessionRegistry` |
| session coordinator (`session/coordinator.py`) | none of its own | `handle_success`, `handle_failure`, `mark_checkpoint`, `restore_checkpoint` | the adapter fails between steps | an abort closes, a restore gets the newest | `LocalSession`, `NetworkSession` |
| session and checkpoint adapters (`session/adapters/`) | sessions, checkpoints, latest pointer | `open`, `refresh`, `close`, `mark`, `get_latest`, `restore`, `prune` | read and write in separate awaits; keys expire; files of equal time | closed stays closed; latest is the latest | `NetworkSession`, `CheckpointRegister`, `LocalSession` |
| retry engine and hooks (`transport/retry.py`, `session/hooks/retry_hooks.py`) | the loop of one call | `execute_with_retry`, `stream_with_retry` | attempts that took effect late are repeated | bounded, counted, only transient errors, calls end | `RetryEngine` |
| unix-socket transporter (`transport/uds.py`) | one connection | `send`, `stream`, `serve`, `close` | connection shared by calls and kept over timeouts; answers carry no id | an answer goes to its call | `UdsClient` |
| TCP transporter (`transport/tcp.py`) | a connection per call; the listening server | `send`, `stream`, `serve`, `close` | a read given up in the middle of a frame | only whole frames | `TcpLink` |
| subprocess transporter (`transport/subprocess.py`) | one child process | `send`, `stream`, `close` | calls share the child and clean up whichever is current | a child has one call; none survives close | `SubprocessLink` |
| in-process, websocket transporters | none; one connection | `send`, `stream` | - | - | no |
| websocket framing, keep-alive (`_ws_framing.py`, `_ws_keepalive.py`) | task, count of missed pongs | `encode_frame`, `parse_header`, `start`, `stop`, `handle_pong`, the ping loop | length boundaries; late and lost pongs; stopping from within | round trip; dead only if silent; silence is noticed | `Codecs`, `KeepAlive` |
| composite transporter (`transport/composite.py`) | list of members; per merged stream its queues and reader tasks | `send` and `stream` by route, fallback, parallel, broadcast, mux; `serve`, `close` | partial failure; readers and consumer of a merge | in order; permanent means undelivered; a merge conserves chunks; members end with the call or soon after | `Composite` |
| transport factory and configuration (`transport/factory.py`, `transport/config/`) | none | `create`, validation | what is declared and cannot be used | a declared policy is not lost | `Entries` |
| name resolution, load balancing (`network/adapters/*resolver.py`, `network/algorithms/`) | caches, a counter | `resolve`, `refresh`, `select` | overlapping lookups, a file that breaks off, candidates that change | young answers; whole loads; even turns | `Names` |
| protocol handlers, outbound (`protocols/`) | none | `handle_outbound`, `handle_outbound_stream` | an error that looks like an end or a success; events that the network cuts | success means done; a quiet end gives every whole event | `ErrorMapper`, `ClientEdges`, `ClientStream` |
| protocol handlers, inbound (`protocols/`) | one message at a time | `handle_inbound` | batches with notifications; writes that fail; loops that must go on | each request answered once | `ServerEdges` |
| webhook receiver (`protocols/webhook_handler.py`) | the ids it has seen | `handle_inbound`, `clear_expired_idempotency` | look up, await, record | accepted means handled; handled twice only by overlap | `WebhookHandler` |
| presentation (`presentation/`) | decoder buffer | `encode`, `decode`, streams | chunk boundaries; two ends that differ; fields left out | chunking does not matter; each field as sent, or for a reason the default, or an error | `Codecs` |
| pipelines (`wiring/pipelines/`) | none | `send`, `receive`, `finalize` | use of the channel outside locks | - | use of a channel only |
| registries, client, runner (`wiring/registry/`, `assembler.py`, `runner.py`) | components by key, pipelines, started flag | `register`, `start`, `close` | overlapping closes, cancellation, a start that failed | each closed once, in reverse order, none forgotten | `Fabric` |
| configuration and builders (`wiring/config/loader.py`, `wiring/factories/`, `assembler.py`) | settings | `load_config`, `_build_*`, the loops over the protocols | defaults in two places; one entry that fails | settings arrive; entries do not disturb each other | `Wiring`, `Entries` |
| web router (`application/fastapi_router.py`) | none | the routes | parts that are missing, routes that hide others | success means done | `Router` |
| repository graph tool (`src/graph/`, beside the fabric) | graph, taxonomy | parse, link, count, search | rows of the wrong length; order of sets | rows kept; links whole; searches right | `RoadmapRows`, `RoadmapGraph`, `Taxonomy`, `GraphSearch` |
| contracts, scripts, obsolete code, `main.py` | none | - | - | - | no |

### 1.2 How they interact

A request enters through a protocol handler or the web router and a pipeline, which asks the
**dispatcher** for a channel of its session. The dispatcher asks the **router** whether the session
has a usable one; if not it takes one from the **pool** (which creates it through a factory, and
opens it) and binds it. The pipeline then sends on the **channel** outside every lock; the channel
calls a **transporter**, whose calls run under the **retry engine** and a hook, and network
operations can be wrapped in a **circuit breaker**. The **registry** maps sessions to coordinators
next to all this; the dispatcher touches and unregisters sessions there, under its own lock. A **coordinator** asks its
hook what to do about a delivery and keeps checkpoints through an **adapter**. The **assembler** builds
all of it from a file of settings; at shutdown the **runner** closes the **client**, which closes the
components one by one.

Shared state is therefore: the pool's queue between requests, health check and shutdown;
the router's and the dispatcher's maps between requests of different sessions, `close_all`
and the pool; the registry's map between requests, the maintenance loop and `close`; one
connection or child process between calls; the external store between processes; the caches
between lookups; the client between whoever closes it. The modules follow these lines: each is one
component, or several that share their state. `SessionDispatch` composes dispatcher and router
with the pool (it extends `ChannelPool` and takes its operations as parts of its own), `UdsClient` extends `RetryEngine` with the attempts of a real transporter,
`ServerEdges` relays requests through `ClientEdges` (a server whose application is a client of another
server), and both use `ErrorMapper`.

As the repository stands the assembled program does not start: `main.py` lacks an import, the
presentation pipeline cannot be constructed, `TransportFactory.create` raises for every
configuration, and every pipeline refuses every message. These are listed as findings in
`PROJECT.json`. The components below them work, and are modelled as they would be called; where code
always fails at some line, the model goes that far and stops.

## 2. The modules

Faults - wrong versions of single definitions - stand in a block of their own before the
definitions they would replace. No specification uses them; putting one in the place of the
right definition makes the property it is aimed at fail, which shows that the property is
about that piece of code.

**`BreakerProtocol`** is the abstract promise of a breaker: open circuits cool down before
a trial, a trial closes only after `Required` successes in a row, one failure ends it.
**`CircuitBreaker`** is the code: `Admit`/`Reject` are the locked check at the start of
`call()`, `Succeed`/`Fail`/`CancelCall` the recording of the result, with `call[c]` remembering
the state the call was admitted in. Time is the age of the last failure, which stops at
`recovery_timeout` because the code only compares it with that. The refinement mapping
reads the trial's streak off the success count and "cooled" off the age.

**`Channel`**: `want_*` waits for the lock, `opening` and `closing` hold it over the
transporter's await, `sending` does not hold it. `explicit` says whether the transporter has
the `_ensure_connection` that `open()` awaits. `Cancel` can hit any await.

**`ChannelPool`**: `op[u]` is the place of a user's call and the channel in its hands,
`check` and `drain` those of the health check and of `close()`. While `check.at = "loop"`
no other task runs, because nothing in that loop suspends. Time stamps are `fresh` or
`stale`. `borrowed` and `drain.late` are history.

**`SessionDispatch`**: the dispatcher's `lock`, `bindings` and the router's `routes` over the
pool's variables. Its operations take those of the pool that they call (`TakeIdle`, `StartCreate`, `Created`,
`Release`, `BlockedPut`) as conjuncts; the calls of the registry take time under the lock (`Touched`, `Unregistered` are
their ends) and are otherwise those of `SessionRegistry`; `PoolNext`, what the pool's tasks do when nobody restrains them, is not part of it. `lookup` distinguishes the router as wired by default (no
`channel_lookup`, every `resolve` fails) from one that can look channels up. `HandleFailure`
does nothing: the code compares a stored string with an integer `id()`, never equal.

**`SessionRegistry`**: `store` and `closable` say what the collaborators have: the repository's own have neither a
`persist` nor a `state` or `close`, so that every finalisation fails before it suspends (`FailsAtOnce`), and a session is
taken out and done with in one step (`EvictAtOnce`, `UnregisterAtOnce`, `ClearAtOnce`); with others it takes time. `entry` is the map, `coord` the history of each coordinator, `op` and
`rest` the places a coordinator can be in after it left the map, `stale` the rest of the
eviction that holds the lock. `MaintenanceEnds` is the moment the cancellation by `close()`
reaches the loop, wherever it waits.

**`RetryEngine`** is the loop of `execute_with_retry`; `Decide` is the hook, in each of its
configurations that decide differently. **`UdsClient`** adds the attempts: `conn[k].wire` and
`.replies` are the lines and answers under way on a connection, `current` is `_writer`,
`closing` the connection an unfinished `close()` waits for. `answer` and `mixed` are history.

**`Composite`** is one call of `send` or `stream`; calls share nothing that matters. `member` is how
far each member has come and how it ended, `at` where the call is. By route and fallback the call is
`trying` the member `cur`; concurrent sends are `gathering`; a merged stream is `merging`, with a
`queue` per reader task, `listed` the queues still polled (`queues` and `active` of the code) and
`rest` those of them left in the current round. No await suspends between two polls of a round, so
`Polls` takes the first queue in order that has a message. `Gathered` ends in a transient error
whatever the members did: see its finding. A broadcast that fails at its first error cancels the other readers and does not
await them: they are `cancelling` until they run next (`CancelLands`), perhaps after the call. What matters of a concurrent send is therefore only that it
ends, and with its members.

**`TcpLink`** has both ends of a connection per call: `up` and `down` are the halves of frames on the
way, `received` and `taken` what each end has read of them and what it took it for. A `foreign` peer
sends several requests, `answers` says how many frames a server answers with. **`SubprocessLink`**:
`proc` is `_proc`, `mine` the child a call uses, `doomed` the one its cleanup waits for.
**`KeepAlive`** keeps every task that was ever started, because `stop` cannot wait for the one
it cancels; `unanswered` is history.

**`CheckpointRegister`** is what `ICheckpointSync` promises of the latest checkpoint: a register.
**`NetworkSession`** is the adapter over an external store, one action per access of the store, with
interruption at each and keys that expire as `Tick` passes. It implements the register with the
write of the pointer and the read of the pointer as the points of effect. **`LocalSession`** is the
adapter in memory and the one in files, whose calls do not suspend, under the coordinator.

**`Names`** has three parts that share nothing: the cache of the DNS resolver for one name (`asking`
is a lookup under way), the services of the configuration resolver (`known`, by the number of the
load) and the index of round robin.

**`ErrorMapper`** says what an error is called on each protocol. **`ClientEdges`** relates the fate of
an outbound call - done, lost, garbled, answered with an error - to what its caller is told, for each
client. **`ClientStream`** is an outbound stream; on HTTP its chunks are cut by the network, and each is decoded as a stream of its
own, so it also brings the head of an event and its rests, of which each may become an item (`OnHttp`). **`ServerEdges`** is one message on the inbound side: `message`
its requests, `worked` their answers and whether the work was really done, `todo` and `sent` what is
written. **`WebhookHandler`** has a task per delivery, `store` is `idempotency_store`.

**`Fabric`**: components are numbers in the order in which they were registered, `place` is that of their key;
`rest[t]` is what the close in task `t` has still to do. **`Wiring`** goes through `load_config` and the
builders of the assembler: `file` is what the user wrote, `settings` what was loaded, `built` what each
component was given. **`Entries`** goes through a list of protocols in each of the two loops that
build from it. **`Router`** is one request to a route.

**`Codecs`**: bytes are cut at every place (`Receive` takes any number of them); a message has fields, and each of its ends says which
it leaves out, which it knows, and what it takes for one that is not there (`Ends`). **`RoadmapRows`** follows the
fields of one row through the repairs, **`RoadmapGraph`** builds the graph of a table, **`Taxonomy`** the registries (a parent is read off a
number and may be in no table, `Unlisted`; a domain's files are found by the beginning of an id, `Like`),
and **`GraphSearch`** runs one search over any graph, taking the members of sets in any order.

`*Proofs` modules hold the theorems: `ConnectionProofs` about breaker, channel and composite, `ClientAndRegistryProofs`
about the unix-socket client and the registry, `PoolAndDispatchProofs` about the pool and its user, `TransportsProofs`, `StoreProofs`, `EdgesProofs` and
`AlgorithmsProofs` about the `MC*` modules of these names, and `DataProofs` about the parts of `MCAlgorithms`
that compute from data: codecs, rows and taxonomy.
A component that has a run of its own is checked directly: `<Component>.cfg` gives its constants
their values. Four `MC*` modules each put several small components side by side, of
which a variable chooses one for the whole behaviour: `MCTransports`, `MCStore`, `MCEdges` and
`MCAlgorithms`. Their invariants are conjunctions, one conjunct per component.

## 3. What is checked

| run | instance | properties |
|---|---|---|
| `breaker` | 3 callers, failure threshold 3, success threshold 2, recovery after 2 ticks, failures counted to 5 | `ClosedBelowThreshold`, `TrialIsClean`, `ImplementsProtocol`, `EventuallyTried` |
| `channel` | 3 tasks | `LockDiscipline`, `StrandedOnlyByCancel`, `ReturnsDeliver`, `CallsReturn` |
| `pool` | 2 users, 2 channels, queue of 1 | `PoolInv`, `DrainReclaims`, `CheckEndsIfAllStale`, `ShutdownLetsGo` |
| `dispatch` | 2 tasks, 2 sessions, 3 channels, queue of 1 | `DispatchInv`, `HealthyKept`, `StuckOnlyForRoom` |
| `registry` | 2 tasks and the loop, 2 sessions, 3 coordinators; a store or none, that saves or lacks what is asked; coordinators with and without a `close` | `RegistryInv`, `RemovedAreFinalised`, `IdleAreEvicted`, `CloseReturns` |
| `composite` | 3 members, streams of up to 2 chunks | `SendInv`, `MergeInv`, `OverMeansQuiet`, `CallEnds` |
| `uds` | 2 calls of at most 2 attempts, 2 connections, no hook or an aborting one | `RetryBounded`, `ClientInv`, `CallsEnd` |
| `transports` | TCP: 1 connection, 3 frames; subprocess: 3 calls, 2 children; keep-alive: 3 tasks, 3 missed pongs, 4 pings | `FramesWhole`, `ChildrenAccounted`, `DeadOnlyIfSilent`, `SilenceFound` |
| `store` | 2 clients, 3 checkpoints, lifetimes of 1 to 3 ticks; local: 4 ticks; names: 2 tasks, 3 services, 3 channels | `FoundAgain`, `ImplementsRegister`, `LateRefreshHarmless` |
| `edges` | lines of up to 2 requests, streams of up to 4 chunks, 3 deliveries of 2 webhooks, 5 components and 3 closers, every file of settings, 2 protocol entries, one request to the router | `AnsweredOnce`, `NoFalseSuccess`, `WebhookInv`, `ShutdownInv`, `WiringInv` |
| `algorithms` | streams of 2 events, 5 lengths, rows with up to 3 fields too many, tables of 2 rows, 2 domains and files, a parent in no table, messages of 2 fields between all ends, every graph of 3 nodes | `GraphRight`, `DataRight` |

The run `dispatch_deadlock` shows where the code does not do what its own text says: its property
`ReleaseReturns` quotes "`release_session()` and `close_all()` ensure that every channel is released
to the pool", and TLC finds the release that waits for room in a full pool under the lock without
which nobody makes room. Four more promises of the repository's text stand as definitions beside the properties;
put into the `.cfg` of the component's run in place of its properties, TLC refutes each:

| definition | the text says | the code |
|---|---|---|
| `OpenDelivers` (`Channel`) | `open()` leaves the channel ACTIVE | after a cancelled `open()` the next one returns at once with the channel CONNECTING |
| `CheckEnds` (`ChannelPool`) | the health check examines the idle channels | with a fresh channel idle and another time stamp stale it spins for ever and blocks the loop |
| `AllReleased` (`SessionDispatch`) | every channel goes back to the pool | none does with the default router, and not that of a broken binding with a better one |
| `AnswerIsOwn` (`UdsClient`) | the correlation id ties an answer to its request | a call takes whatever line comes next, another's included |

The other disagreements found while modelling are the findings of `PROJECT.json`, each with the
definition that follows the code. The ones that shape the models most:

- HALF_OPEN, described as letting one request through, admits everybody who asks before the first
  result (`Admit`); `GracefulAbortHook` never allows the single retry it describes.
- Concurrent sends of the composite transporter end in a transient error although members succeeded or
  failed for good (`Gathered`), a merge whose members all failed ends normally except by broadcast
  (`EndMerge`), one that is given up leaves its readers running (`Abandon`), and one that fails at its first
  error does not wait for those it cancels (`FailFast`).
- The registry asks its collaborators for operations that the repository's own do not have: nothing is saved or
  closed when a session ends (`FailsAtOnce`). With a store that takes time, a `close()` that cancels an eviction loses
  the session being saved (`interrupted`).
- A `close()` of the pool frees the releases that wait for room, but not more than the queue holds (`ShutdownLetsGo`).
- An event that the network cuts becomes several items, none right, and a quiet end (`OnHttp`).
- A file whose parent no table has belongs to no domain, and one domain's files are those of every domain whose id
  begins with its own (`AddFile`, `FilesOf`); a field that was None comes back as a default (`Write`, `Read`).
- `stop` of the keep-alive raises whenever its task runs (`Release`).
- A timed-out call over the subprocess transporter terminates whichever child is current (`CleanUp`).
- `refresh` reports success on a session that was closed, and one that overlaps a close revives it.
- Handlers raise `TransportError` with a number in the place of its type, which the mapper cannot map
  (`Untyped`); the webhook sender takes any answer for an acknowledgement.

The passing properties say what does hold next to these: `StuckOnlyForRoom` that the dispatcher's
lock is stuck *only* in that way, `CheckEndsIfAllStale` that the check hangs *only* over fresh channels,
`StrandedOnlyByCancel` that *only* a cancellation strands a channel, `HealthyKept` that healthy channels
get lost *only* without a lookup or during `close_all`, `OwnUnlessMixed` that an answer can be
another's *only* on a connection that was given up or shared, `OverMeansQuiet` that members are left
running *only* by giving up a merge (and still to be stopped *only* by a broadcast that failed at once), `ChildrenAccounted` that children are confused *only* by calls that
overlap or are cancelled, `LateRefreshHarmless` that *only* a refresh that had begun before revives a session,
`WebhookInv` that a webhook is handled twice *only* by overlapping deliveries or after an overflow,
`NoFalseSuccess` that a success is reported for nothing *only* by clients that do not read their answer, and that a quiet
end of a stream leaves out nothing whole and adds *only* pieces of events cut on HTTP,
`ShutdownLetsGo` that a closed pool keeps a release waiting *only* when more wait than the queue holds or a `close()` raised,
`CodecsInv` that a field changes on its way *only* when it was left out, was None or is not known to the target,
`ShutdownInv` that a component is left open *only* by a cancelled close or by one that took its key.

### 3.1 Bounds, and why they are enough

- Three callers let one call be admitted before the circuit opens, one during the trial and
  one after; thresholds of 3 and 2 keep "first", "middle" and "last" apart; `FailureBound` leaves
  room for every late failure of a circuit that has just opened.
- Three tasks on a channel: one holding the lock, one waiting for it, one sending.
- A pool of one channel is full after one release and empty after one acquire; two users
  and two channels make a waiting release meet a full queue. Three channels in
  `SessionDispatch`: one bound, one idle, one being created.
- Two sessions and three coordinators: one session can be replaced, and an eviction can have
  another to go when it is interrupted. Two tasks so that two shutdowns, or a shutdown and
  an unregistration, meet the loop.
- Three members are a first, a middle and a last one for the fallback, and for a merge a queue polled
  before, at and after the one that has a message. Two chunks are the least that can be out of order.
- Two calls over two connections: sharing, giving up, reconnecting and orphaning each need no
  more; two attempts are the first and the last.

- One TCP connection, because each call has its own: three frames are one being read, one before and one
  after. Three calls over two children: one that times out, one that overlaps it and one that finds what
  they left. Three tasks of a keep-alive are one that ends, its successor and one more start.
- Lifetimes keep the order of those in the code (the closed state and the pointer go first, the checkpoint last) and
  `MaxDelay` keeps a call shorter than the difference between the pointer's and the checkpoint's. Two
  clients over the store are the least that interleave; three checkpoints let one be overtaken twice.
- Lines of two requests have a first that fails and one that must not be lost with it. Three deliveries:
  two that overlap and one that comes after.
- Of two fields one can arrive while the other is left out; one unlisted parent beside two domains, whose ids may begin
  alike in any combination, gives each kind of chain.
- Three nodes have every shape of a cycle and of two paths between two nodes; the searches are proved for
  any finite graph; the lengths are those on both sides
  of each boundary of a frame's header; the words of an event can be cut within and between.

The numbers of channels, coordinators and connections are bounds of the model: when all
have been used, no more are created. The inductive invariants are proved for any number.

### 3.2 Fairness and stopping

Weak fairness is assumed of what the event loop and the collaborators always do: a task that
need not wait for another goes on, opening, saving and closing end, timed reads and
connects end (the code bounds them by timeouts), the maintenance loop comes round, time
passes. `asyncio.Lock` serves its waiters in order, so a waiter gets its turn although the
lock is free only from time to time: strong fairness of the lock in `Channel` and of the
shutdown's wait in `SessionRegistry`. The registry's calls under the dispatcher's lock end: they wait for the registry's lock, which comes back
(`CloseReturns` rests on it), and for a finalisation that ends. In `CircuitBreaker` callers come back, because the breaker
has no timer of its own and leaves OPEN only inside a call. Nobody is obliged to fail, to
cancel, to release or to shut down, and the server of `UdsClient` owes nobody an answer.

In `Composite` members end sooner or later, a cancelled reader gets to run, and consumers come back or give up. `ShutdownLetsGo` is
conditional on health checks that end, because one that spins keeps the event loop for itself (`CheckEnds`). In `KeepAlive` the
tasks' timers fire; nothing is assumed of the peer or the owner.

Deadlock is checked in `breaker`, `channel`, `registry` and `composite`. In `pool`, `dispatch` and `uds` the
system may stop: a pool that is closed and drained with all channels used up, sessions
waiting for room under the lock (which `dispatch_deadlock` is about), all calls done. The parts of
`transports`, `store`, `edges` and `algorithms` end when their calls, clocks or inputs are used up.

## 4. What is proved

For every value of the constants, from the named assumptions in the modules only (the
sentinels are not members of the sets, thresholds and sizes are positive):

| theorem | states |
|---|---|
| `BreakerInvariant`, `BreakerTypeOK`, `BreakerClosedBelowThreshold`, `BreakerTrialIsClean` | the invariants of the breaker; their conjunction is inductive |
| `BreakerImplementsProtocol` | every step of the breaker is a step of the protocol or a stutter: the invariant rules out a trial with a failure in it |
| `ChannelLockDiscipline`, `ChannelStrandedOnlyByCancel`, `ChannelLegalTransitions`, `ChannelReturnsDeliver` | lock discipline is inductive and the three action properties follow from it |
| `PoolInvariant`, `PoolDrainReclaims` | every channel of the pool is in one place and none is lost, and a shutdown leaves nothing idle but what was waiting for room. Strengthening `Held`: a call has a channel in hand exactly at certain places |
| `DispatchInvariant` | routes stay exclusive, bindings follow them, and while the holder of the lock waits, for the factory, for room or for the registry, nobody touches the session it is at work on. Strengthening: `Born` (what is borrowed or idle was created) and `TodoOnlyAfterCloseAll` |
| `RegistryInvariant` | no coordinator forgotten or finalised twice, and none finalised at all where the collaborators lack the operations. Strengthening: `HandsFull` (who is at an await of `_on_session_end` has one in hand), `IdleIsRegistered`, `OnlyTasksClose` |
| `RetryIsBounded` | attempts bounded, errors repeated only if transient and the policy says so, reports count. Strengthening: a call backs off only under a policy that retries. Every step of the client is a step of the engine or leaves it alone |
| `CompositeInvariant`, `CompositeTypeCorrect`, `SendsInOrder`, `MergeCorrect`, `OverIsQuiet` | the properties of a call for any number of members and any length of streams. Strengthening: `Modes` (which members run where the call is), `MergeCounts` (taken and queued are what was produced and at most one message of the end, none while the reader runs) and `Unlisted` (a queue no longer polled is empty and its reader has ended) |
| `ClientInvariant` | what is under way on a connection that was neither given up nor shared belongs to the call that waits. Strengthening `Placed`: a call is on a connection exactly while it waits |
| `HealthyAreKept` | a step of the dispatcher loses no usable channel unless the router has no lookup or a `close_all` is under way. Strengthening `Leftovers`: a route without a binding is on the list of a `close_all` that still runs, and a session for which a channel is being created has no binding |
| `AliveUnlessSilent` | one keep-alive task at most, and a peer is dead only after its silence. Strengthening: only the task in `_task` runs, and the misses counted were pings that nobody answered, the one it waits for apart |
| `ChildrenAreAccounted` | without overlap or cancellation no child gets two payloads; none survives `close`. Strengthening: `OneAtATime` (one call is active, and what it cleans up is the current child) and `EachItsChild` (a running child has the input of the call that uses it alone) |
| `FramesStayWhole` | lengths are read as lengths and bodies as bodies, on both ends. Strengthening `Follows`: what is on the wire continues what was read, half by half |
| `KeptIsFound` | a pointer that was read leads to a checkpoint (`PointerHeld`, `MarkingHeld`, `AskingHeld`: the checkpoint lives at least as long as whatever can still lead to it), the newest is restored (`NewestKept`), cached names are young, loads whole, turns even (`Served`: who was served in the rounds so far) |
| `LateRefreshRevivesNothing` | a refresh that began when no session was active activates none. Strengthening `LateReads`: it has read no session that it could write back |
| `StoreIsRegister` | each access of the external store is a step of `CheckpointRegister` or a stutter; uses the same invariant |
| `HandledOnce` | a webhook is handed on twice only by overlapping deliveries or after it was forgotten. Strengthening: two deliveries of an id that were both let in have met, or the id was cleared; who was accepted is recorded, or was cleared |
| `ClosedInOrder` | components are closed once and in reverse order, none forgotten. Strengthening: `Whole` (what was made is registered, in the hands of a closer, closed, dropped or lost), `Apart` (in one of these places), `Ordered` (what a closer still has comes before what it closed), `OneCloser`, `StartedHasAll` |
| `WiredAsAsked` | settings arrive whatever the file says (`Arrived`), entries do not disturb each other (`InTurn`) |
| `MessagesAnsweredOnce`, `SuccessIsReal` | every message of a batch is answered once and whole, and no success is reported for nothing. Strengthening: `InHand` (what is to be written belongs to the request in turn), `OneAnswer` (what was written and what remains make one answer), `Beginnings`, `CrashExcused` |
| `GraphIsRight` | the graph that is built from any rows and modules is whole, and the searches are right on every finite graph and for every order in which members of a set are taken. Strengthening, `Graph.build`: a node is what the rows read so far make of it (`Merged`), an edge ends at a node or at a file that is still to come, and what the rows handled name is linked; `detect_cycles`: the calls under way are the gray nodes, each linked to the next by its parent, and what is black is closed and has no cycle while none was reported; `topological_sort`: queue and result hold just the nodes whose predecessors are all in the result; `impact_analysis` and `get_critical_path`: what the calls under way have listed and brought back |
| `DataIsRight` | the codecs give what was sent wherever bytes are cut, a message each field or for a reason its default, a repaired row keeps its words, the taxonomy is whole, for streams of any number of these objects, any length of a header, messages of any fields between any ends, any row and any taxonomy, with parents that are known or not. The invariants of its three parts are below |

The structure is the same throughout: `Init => IInv`, one lemma or step per action for
`IInv /\ [Next]_vars => IInv'`, under it one step per conjunct the action can disturb, and a last
temporal step. What putting and taking a message does to the order of a merge is stated for plain sequences
(`PutKeepsOrder`, `TakeKeepsOrder`, `EndIsLast`) before it is used for the steps. What a queue of distinct elements does when its head is taken or an element
is appended is stated once, in `PoolAndDispatchProofs`, for both.

The components that stand side by side in `MCTransports`, `MCStore` and `MCEdges` share no variable. Their
invariants are proved one by one to be inductive for the component's own steps, and to survive the steps of
the others, which leave its variables as they are; the invariant of the whole is the conjunction. In `MCAlgorithms` the same is done for the
graph and the searches, and in `DataProofs` for rows, taxonomy and codecs.

**Induction over data.** The induction theorems of the library take an operator and cannot be used here, so
`DataProofs` begins with its own, about a *set* of numbers: `Least` (from the library's well-foundedness of `<`, by `WFMin`),
`Induction` and `Bounded` (a set that has 0 and with each number the next has all), `Recursion` and
`SameSolution` (a recursion along the numbers has one solution). Recursive functions of the model
(`Shifted`, `Number`, `CalculatePriority`, the flattening of sequences) are solutions of such a recursion. What they compute is then shown
by induction over the set of those lengths for which it holds:

- **Codecs.** `Where(k, b, w)`: what was written is what the first `k` frames are, then the buffer, then the wire. It
  survives every cut (`SseReceive`) and every frame taken (`FirstFrame`: the first boundary in the buffer ends
  just the next frame, or there is none). `NumberBack`: bytes that are the length shifted are read as that length,
  which `HeaderBack` uses for whatever part of a header has arrived. `MaskTwice`, and `MessageStep` (what is on
  the wire is what was sent, and what is missing there was left out or was None: `Carried`).
- **Rows.** `Covers(fs, n)`: the cells flattened are the words 1 to n. Every way of repairing a row appends
  cells that continue the words (`CoverMore`, `CoverThree`), with as many cells as the table has columns.
- **Taxonomy.** `NodesTyped` and the chains (`Chained`: from the node up by edges to a domain or to a parent that no table has, `Tops`), `Dependencies` (an import is
  counted as often at the one file as at the other: `DependsIs`, `RegisterKeeps`), `Linked`, `Registered` (the registry
  has each dependency as often as its file, because `SetToSeq` lists each file once: `RegistryTimes`), the two ways
  of deriving a priority agree although only one replaces a severity by an equal one (`SameHeight`).

Type correctness and `ChannelLegalTransitions` are proved and not listed in a `.cfg` of their own: they are
part of, or follow from, what the runs check.

The assumptions: `StoreAssumption` orders the lifetimes as `network_session.py` does (the pointer goes
before the checkpoint, by more than two delays of a call: without that a pointer can outlive its checkpoint),
`TransportsAssumption` and `EdgesAssumption` say that counts are numbers, `SearchAssumption` that a graph has finitely
many nodes and that `impact_analysis` goes at least one level deep (its default is 3), `GraphAssumption` that there are
finitely many modules and rows and that texts have lengths, `TaxonomyAssumption` that the taxonomy is finite and that ids of
different kinds differ (they are written `D1`, `D1.S1`, a path and a concern's number) and none is the empty set,
which stands for "no parent", `DataAssumption` that a stream has finitely many objects and a length fits in 64 bits.
The objects of a stream, the payloads and the keys are those of `MCAlgorithms`: a word that may be cut in two, a number,
nothing, and texts of several lines.

Only model-checked: everything under fairness (`EventuallyTried`, `CallsReturn`, `CheckEndsIfAllStale`,
`ShutdownLetsGo`, `StuckOnlyForRoom`, `RemovedAreFinalised`, `IdleAreEvicted`, `CloseReturns`, `CallEnds`, `CallsEnd`,
`SilenceFound`), which is beyond the prover. Every invariant and every action property of the passing runs without fairness, and both
refinements, are theorems.

## 5. What is not modelled

- Contents: payloads, metrics, logs and wording, except where a property is about them.
- Cancellation, except in `Channel`, in `CircuitBreaker`, of the registry's loop, of a merge's readers, of calls over a child process,
  at the accesses of the store, and of `close` of the client.
- `stream_with_retry`, which awaits an asynchronous generator and so raises before the first chunk, and
  the stream of the unix-socket transporter. Those of TCP and subprocess are modelled without it.
- The health check and shutdown of the pool under the dispatcher: nothing calls the former, and
  the latter comes after the dispatcher. Both are in `ChannelPool`.
- The dispatcher with the default factory: `create_channel` is awaited and is not a coroutine
  (`pool_adapter.py:49`), which is the model's creation that raises; the model also has the one that works.
- `serve` of the composite transporter, which always raises (its direction is always OUTBOUND), and its
  `close`, which closes the members one by one.
- The in-process transporter, which calls a function and keeps nothing; the WebSocket transporter, which does not
  parse (`websocket.py:68`); least active, which nothing calls.
- What follows the places where code always raises: `TransportFactory.create` after line 176,
  `assemble` after the presentation pipeline (`Fabric` follows it as if it succeeded, because
  its tests and its text do), the encoding and decoding of that pipeline, the inbound side of gRPC,
  `main.py`, and the checks of liveness and readiness, which use attributes that the assembler lacks (`assembler.py:287-314`).
- `UnifiedSessionManager`, which cannot be instantiated; the adapters are modelled as called directly, `mark`
  over the store as called with `meta` (without it, it raises), the adapter in files as given a directory.
- The queries that only filter and sort what the graph tool has built (the most severe concerns, for one, which
  `get_top_concerns` sorts).
- The printing half of the graph tool, the repository's scripts and its obsolete code.

## 6. Plan

Done: the breaker and its protocol; the channel; the pool; dispatcher, router and pool together; the
registry; the retry engine over the unix-socket client; the composite transporter; the other transporters and the
keep-alive; sessions and checkpoints, with the register they implement; names; the protocol
handlers on both sides, the webhook receiver, the web router; the lifecycle, the settings and the
entries; the codecs and the graph tool.

What would add most next:

1. The use of a channel by its request as a step of its own in `SessionDispatch`, so that a
   release during a send of the same session shows in more than `DispatchInv`.

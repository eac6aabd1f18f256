# A TLA+ model of OpenClaw Managed Agents

The orchestrator (`src/src`) accepts chat messages for *sessions*, runs every
session's agent in a Docker container of its own, and keeps a pool of such
containers. This directory holds TLA+ modules translated from that code, the TLC
configurations that check them, and theorems about them checked by TLAPS.

`PROJECT.json` maps every definition to the lines it stands for, and lists the
runs, the mutants that show each property can fail, the hazards and the findings.

    tlc -workers 2 -config RouterCancel.cfg MCSessionRouter   # one run
    tlapm SessionServiceProofs.tla                            # the proofs

## The system

The orchestrator is one Node.js process: the code between two `await`s is atomic,
everything else interleaves. State that outlives it is in SQLite (sessions, queue,
agents, vaults) and in the Pi JSONL files the containers write.

| Part | State it keeps | Operations | What is hard, and what makes it correct | Module |
| --- | --- | --- | --- | --- |
| Runs of a session, `AgentRouter` (`orchestrator/router.ts`) | `cancelledDuringAcquire`; a promise per run; the row's status, turns, usage; its queue rows | `runEvent`, `streamEvent`, `cancel`, `disposeSessionRuntime`, `executeInBackground`, `acquireWithRetry`, `handleBackgroundFailure` | runs that overlap after a cancel, checks made before an await, errors that arrive late: messages in order and at most once, no message stranded, no session stuck, nothing recorded over a later run | `SessionRouter`, `SessionCancel` |
| Containers of sessions, `SessionContainerPool` (`runtime/pool.ts`) | `active`, `pending`, `activeReservations`, the admission lock | `acquireForSession`, `evictSession`, `reapIdle`, `shutdown`, `adopt` | admission while victims are being stopped, probes of what is gone on return: the cap, no stopped container on offer, no leak, no deadlock | `ContainerPool` |
| Warm containers (same file) | `warm`, `warmReservations`, `desiredWarmSignature`, `pendingByAgent` | `warmForAgent`, claim in `acquireFresh`, `dropWarmForAgent`, reaping | boots of two versions overtake each other while claims, drops and the sweeper take entries: the warm cap, one session per container | `WarmPool`, `ContainerPool` |
| Docker (`runtime/docker.ts`) | the containers | `spawn`, `stop`, probes, networks | each call may fail, a stop takes up to five seconds | `ContainerRuntime` |
| Limited networking (`pool.ts` `doLimitedSpawn`, `index.ts`) | two networks and a sidecar per container, under names of the session | spawn with its rollback, teardown, adoption, orphan passes | a step that fails, the remains of an earlier life under the same names, a crash anywhere: nothing left behind, nothing of a live session taken | `LimitedNetworking` |
| Egress proxy (`docker/egress-proxy`) | sockets of DNS queries, tunnels and relays | filter, forward, tunnel, relay | two hand-written DNS readers; answers twice or never: names judged as meant, sockets released | `EgressFilter`, `EgressProxy` |
| Startup (`index.ts`), adopted sessions (`router.ts`) | what survives in SQLite, JSONL and Docker | adoption, failing orphans, observers, queue drain | a crash between any two writes, an observer beside a task: no message received twice, one finaliser, every flight owned, no queue forgotten | `RestartRecovery` |
| Agents, environments, delegation (`orchestrator/server.ts`, `runtime/parent-token.ts`) | versions, bindings of sessions, signed depth | create, PATCH, archive, delete, mint, spawn | a PATCH awaits between check and write; tokens outlive templates: no lost update, depth bounded, no binding lost | `AgentCatalog` |
| Vaults (`router.ts`, `server.ts`) | OAuth tokens; the token a container was started with | refresh, update, delete, stale check | two refreshes of one rotating credential: what is stored stays usable, what is dispatched is current | `VaultCredentials` |
| HTTP front (`rate-limit.ts`, `auth.ts`, `server.ts`) | buckets, cached replies | check, authenticate, post with an Idempotency-Key | refill against bursts and collection; lost answers and retries: bounded rate, a message accepted once | `HttpFront` |
| Stores (`store/sqlite.ts`, `store/memory.ts`) | the tables | the interface in `store/types.ts`; opening | two backends that must agree; an upgrade cut off by a crash; the key of the vaults | `SqliteStore`, `MemoryStore`, `StoreParity`, `StoreOpen` |
| JSONL reader (`store/pi-jsonl.ts`), SSE (`server.ts`, `sdk/typescript/src/sse.ts`) | what was seen; the client's cursor | list, follow, catch-up, synthetic frames, grace | appends, drops and the end of a run between two looks: nothing missed or twice, the end after the last event | `PiLog`, `EventStream` |
| Gateway client (`runtime/gateway-ws.ts`), approvals and compaction (`router.ts`) | pending requests; pending approvals | connect, request, reply, timeout; subscribe, list, resolve | replies after timeouts, events racing a list: settled once, what is asked is shown | `GatewaySession` |
| Chat completions (`server.ts`) | a snapshot of the outcome before the post | post, poll, read, clean up | other turns beside it, the reaper: no stale answer, no false error, ephemeral sessions go | `ChatCompletions` |
| Telegram adapter (`docker/telegram-adapter`) | offset, chains, the chat file | poll, dispatch, post, wait, reply, save | handlers interleave over one file, a crash: order, one session per chat, everyone answered | `TelegramAdapter` |
| Portal, pricing, metrics, logs, audit, the other SDK code, scripts | none of interest | | no protocol | not modelled |

How they interact: a route calls the router; the router's task awaits the pool, the
pool awaits Docker and the gateway; the task then POSTs to the container, whose Pi
process writes JSONL that the task reads back to settle the run. The pool calls
back for `isBusy`, for the deletion of ephemeral sessions after a reap, and to
rename a warm workspace to the session's. The sweeper runs on a timer, shutdown on
a signal.

## The modules

### SessionRouter: one session

Every map of the router is keyed by session, so one session is modelled and the
pool appears as one bit (`active`). A task is identified with the message it runs;
`pc[m]` is the await it is suspended in (`refresh`, `acquire`, `probe`, `prepare`,
`post`, `turn`, `relay`, `settle`, `fail`) or its fate. One action is the code from
one await to the next with all it calls: `SettleRun`, for example, rolls up the
usage and either shifts the queue and starts the next task or ends the flight.
`mode` tells `runEvent`'s background task from `streamEvent`, whose error paths and
end differ: that asymmetry is the source of two counterexamples.

* `UpdateStatus` is an `UPDATE ... WHERE session_id = ?`: it does nothing once the
  row is deleted.
* `Throw(m)` is what an error thrown at `m`'s await leads to; the failure paths are
  `HandleBackgroundFailure`, `EvictThenFail` and `FinalizeError`.
* `holders` are the tasks whose container is the one in the pool. `Grace` says
  whether a container that is being stopped may still take a POST, as `docker.ts:187`
  lets it for five seconds. Both passing runs say `TRUE`, the theorems hold for either
  value; only counterexamples that do not need it say `FALSE`.
* Left out: `cleanupEphemeralOnError` of key-less streaming chat completions,
  adopted sessions (`RestartRecovery`), the content of messages. The cost of a turn is 1.

`SessionCancel` adds a history variable, the messages a cancel covered when it
returned, to say what a cancel promises.

`RunService` is what the orchestrator promises about the messages of a session,
without containers, retries or awaits: a status, a backlog, the phase of each message
and what Pi was given. Until a client cancels or streams (`disturbed`) accepted
messages are run one at a time and in order, and a failure loses what waits behind
it; afterwards messages still only move forward, Pi is given only what is being run,
and what was lost stays lost. `SessionService` gives the refinement mapping
(`Service == INSTANCE RunService WITH ...`): a task at any of its awaits is one
running message, every step of a retry, an eviction or a cancel in progress a
stutter. `KeepsService` is checked in `RouterAll`, for all client operations. It is
the safety of the service; that runs end is `FlightEnds` and `AcceptedSettles`.
`ChatCompletions` builds on that service instead of repeating the router.

### ContainerRuntime, WarmPool, ContainerPool: all sessions

`ContainerRuntime` is `spawn` and `stop` as the pool sees them. A container carries
the configuration it was started with (the pool's signature, a pair of agent and
version) and the host directory it mounts. `WarmPool` is the warm half: a call of
`warmForAgent` is a *boot*, with the await it is suspended in and its locals.
`ContainerPool` extends it with the acquisitions (*calls*) of sessions, the
admission lock with its waiters, the sweeper and shutdown, and with the environment:
the router (`busy`: a run is in flight), the agent routes, Docker.

* A probe may succeed while its container is being stopped, and fail at any time; a
  spawn and a readiness check may fail at any time.
* Which victim or which oldest warm entry is taken depends on timestamps: any choice
  is allowed. So is which entries the sweeper finds too old.
* The sweeper works alone from one stop to the next (`SweepRunning`): there is no
  await in between.
* The step that drops the reservation and the one that deletes the pending promise
  are one (`Settle`): a microtask apart, of the same owner.
* Left out: `adopt` (`RestartRecovery`) and the limited spawn (`LimitedNetworking`).

`MCSessionRouter` and `MCContainerPool` hold what TLC needs: symmetry of messages;
which session has which agent; `InOrder`, which uses the numbered containers, calls
and boots in their order, and `FirstVersions`, which starts each agent at version 1.
The last two cut away renamings only: each behaviour has a renamed one that keeps
within them, so an invariant or an ending that fails anywhere fails within them.

### RestartRecovery: one session across crashes

What survives a crash is the row and the queue in SQLite (`db`), the container
(`box`) with the messages Pi is working on (`working`) and its JSONL. The rest is
memory. Of the JSONL the code asks one thing after a restart, so one bit is kept:
`db.fresh`, is its latest outcome newer than `last_event_at`, which every `UPDATE`
of the row sets.

* `boot` walks through `index.ts`: `Adopt` (the container of a failed session is
  stopped, another is adopted if it answers and stopped if not), `FailOrphan` (an
  in-flight session that was not adopted fails and loses its queue),
  `ObserveAdopted` (the fast path over the JSONL, else the subscription),
  `DrainQueue` (peek, `runEvent`, shift; a refused head stays), then `up`: requests
  are served. A crash may interrupt any phase.
* A synchronous section that writes more than once is given as the sequence of the
  stores its writes leave (`SettleWrites`, `FinalizeWrites`, ...). The section's
  action commits the last of them; `Crash` may leave any. The statements are
  synchronous and each is its own transaction, so those are the states a restart
  can find.
* The observer (`none`, `watching`, `settling`, `evicting`) is told of the end of a
  turn by one event on its way (`event`); `ObserverEvent` is `finalizeFromJsonl` up
  to its await, `ObserverSettles` and `ObserverFails` what follows.
* Tasks are coarser than in `SessionRouter` (`acquire`, `post`, `turn`, `settle`,
  `broken`): `TaskFails` may happen at any of them.
* External: a container outlives the orchestrator; `chat.abort` emits no event of
  state final or error; the reply to it and the events share one socket and keep
  their order; Pi ends its turns.
* Left out: streams and deletes, the egress sidecar, several sessions (they share
  nothing but the cap, which adoption ignores).

### PiLog, EventStream: the log of a session and those who stream it

`PiLog` is the mapping of `pi-jsonl.ts` from lines of the file to events (a line may
be several, or none) and the latest outcomes the router and the handlers compare.
`EventStream` is one client of `GET .../events?stream=true`: the handler with its
initial status, its catch-up and its interval of synthetic frames, `follow` with its
cursor and grace, the wire, and the SDK's parser, which keeps the last id. Pi appends
(a line may be on disk in part), runs begin and end, containers are claimed and
dropped, approvals come, the session is deleted. `foreign` says that the client came
with a cursor the log does not have: `follow` then replays everything, and only then
may an event come twice.

### LimitedNetworking, EgressFilter, EgressProxy, GatewaySession: what connects a container

* `LimitedNetworking` is the topology of one limited session: `boot` walks through
  `doLimitedSpawn`, one Docker call per step, its failure at each of them through the
  `rollback` (best effort, as the code has it); evictions of an earlier life may be
  under way beside it. A crash leaves `box`, `nets` and the row of
  `session_containers`; the startup passes follow `index.ts`. Docker removes no
  network that a running container is attached to. `Goes`: Docker answers the stop of a
  container that does not run with 304, "container already stopped", a text that
  `isNotRunningError` (`docker.ts:472`) does not match. `stop` then throws before it
  removes, and its callers swallow that: such a container stays, while the networks,
  which it no longer uses, go. `SpawnFails` may leave a container created and never
  started.
* `EgressFilter` is the allowlist and the two readers of a DNS message, byte by
  byte, with the code's offsets and bound (`LabelCap`, 128 there); its reference is the
  name the bytes spell. `EgressProxy` is the process: a forwarder with its timer,
  a CONNECT tunnel with its idle timeout, a relayed request.
* `GatewaySession` is one ordered connection to the runtime's gateway: requests with
  their timeouts, replies that resolve a promise whose continuation runs after the
  other frames of the chunk, `pendingApprovals` with subscription, list, replacement
  and resolution. Left out: the signature of the handshake.

`MCContainerLinks` composes them: of the process in the sidecar the topology sees only
that it runs, so a behaviour exercises one of the three.

### AgentCatalog, VaultCredentials, HttpFront, StoreParity, StoreOpen: behind the API

* `AgentCatalog`: PATCH is two steps because the model is validated in between;
  archive, delete, environments, sessions and delegation tokens, whose depth is signed
  while templates change.
* `VaultCredentials`: a run lists the credentials, refreshes those that expire, claims
  a container or keeps one, and dispatches with the token of its environment. The
  provider is external: it may refuse, answer, stay silent, or answer after the 30
  seconds. Access tokens are known by the write that saved them.
* `HttpFront`: limiter, authentication, idempotent handler, in that order. Time is a
  clock in seconds, tokens are counted in shares of a minute.
* `SqliteStore` gives each statement as the rows it changes (a row is *at* its rowid and
  *of* what a caller sees of it), `MemoryStore` the Map operations in their order of
  insertion; every operation also says what the method returned. `ORDER BY` and
  `Array.filter` give at the k-th place the element with k elements up to it.
  `StoreParity` calls both and compares every answer and every read after it. Fresh ids
  and the one look-up of a sign-in are checked in the step of the call, so they are guards;
  what a handler checks before an await is none: the pool reports the container of a
  session deleted while it started (`index.ts:309`), the clean-up of a failed turn deletes
  a session whose container is on record (`server.ts:1923`), a PATCH comes to an agent
  archived meanwhile (`server.ts:905`). `astray` are the sessions whose container row only
  the store in memory has, because the foreign key refused it or the cascade took it. Left
  out: write-once columns and the filters of the audit listing.
* `StoreOpen`: the constructor statement by statement, each durable when it returns
  but for the one transaction; a crash between any two, then the next start, the
  vault key from the environment or the file.

`MCControlPlane` composes the five; they share no state but what each has of its own, so
a behaviour exercises one of them.

### ChatCompletions, TelegramAdapter: clients that wait for a turn

`ChatCompletions` is the blocking handler over `RunService`'s session and the log of
`PiLog`: the snapshot before the post, the poll, the outcome after it, the clean-up of
ephemeral sessions, the pool's reaper (which goes by `lastUsedAt`, the time of the
*acquire*) and other clients posting beside it. `TelegramAdapter` is a process of its
own: `getUpdates`, a chain of handlers per chat, the session of a chat, the wait for
rest, the reply, and `ChatStorage`, whose handlers share one temporary file. Failing
calls (a create or a post that failed for the adapter may have reached the server), a
rejected save (an unhandled rejection ends Node) and a crash are faults, of which an
instance has one; `lost` counts the creates whose answer was lost. `MCTurnClients` composes the two.

## What the runs check

| Run | Properties | Instance |
| --- | --- | --- |
| `RouterCancel` | `QueueOnlyWhileInflight`, `RunOwned`, `FlightEnds`, `AcceptedSettles` | three posts, a cancel, the container's grace; fair |
| `RouterAll` | `TypeOK`, `ReceivedOnce`, `SingleRun`, `KeepsService`, `AbandonedOnlyByCancel` | three messages, all operations, quota 3, grace |
| `PoolCold` | `ActiveAlive`, `AcquireEnds` | two sessions, cap 1, three acquisitions, cancels, evictions, sweeper, fair |
| `PoolCap` | `CapacityRespected`, `NoLeak` | two sessions, cap 1, four acquisitions, evictions, no cancels |
| `PoolAll` | `WarmInv`, `WarmAlive` | two agents, two versions, two boots, one claim, update, drop, reaping, shutdown |
| `RestartAll` | `DeliveryInv`, `OneFinalizer`, `FlightOwned`, `IdleDrained`, `ObservedSettles` | three messages, two crashes, one death, refusal and cancel each, tools, fair |
| `EventStream` | `StreamInv`, `EndsComplete`, `EventDelivered`, `StreamSettles` | two lines of two events, two connections, one run, claim, approval and delete; fair |
| `ContainerLinks` | `TopologyInv`, `FilterInv`, `ApprovalInv`, `AskedIsShown`, `LinksSettle` | six containers, two crashes, one exit; every question of up to five bytes out of seven, with and without type and class; two clients, three requests, one approval; fair |
| `ControlPlane` | `CatalogInv`, `VaultInv`, `LimiterInv`, `AcceptedOnce`, `StoresAgree`, `OpenInv`, `VaultRunsSettle` | two PATCHes, three versions and sessions; two credentials, three runs, one late answer; five requests in eight seconds, one restart; five calls of the store; four boots; fair |
| `TurnClients` | `ChatInv`, `ChainInv`, `EphemeralReaped`, `UpdatesSettle` | two messages of two lines, one of them blocking; two updates of one chat or of two, one fault; fair |

* `QueueOnlyWhileInflight`: whichever of several interleaved tasks and cancels takes
  the session out of the flight leaves an empty queue.
* `RunOwned`, `FlightEnds`, `AcceptedSettles`: with posts and one cancel no early return
  or error path leaves a session in `starting` or `running`; every accepted message has
  an end. A second cancel breaks it (see the table of counterexamples).
* `AbandonedOnlyByCancel`: with all operations, a session is left in flight without a
  task at one place only, where its last task consumes `cancelledDuringAcquire` and
  returns (`router.ts:1514`).
* `SingleRun`: until a run is cancelled, the row's status alone serialises runs.
* `ReceivedOnce`: retries never duplicate a message, and what was dropped by a
  cancel, a failure or a delete never reaches Pi.
* `ActiveAlive`: the pool never offers a container that someone has stopped.
* `CapacityRespected`: entries and reservations together stay within the cap.
* `NoLeak`: every container that is up is held by a map or by a step under way.
* `AcquireEnds`: no deadlock of the lock queue, joined calls and victims' stops.
* `WarmAlive`, `WarmInv`: the same questions of the warm bucket; its cap until an
  agent is updated (`WarmBounded`; afterwards the code does not keep it, see below)
  and types; slots and promises to share belong to boots still under way
  (`SlotOwned`).
* `DeliveryInv`: types and `ReceivedOnce` across restarts: the drain and the observer run the queue's head
  before they shift it; a crash in between must not run it twice.
* `OneFinalizer`: the turn's task and the observer of an adopted turn never both
  end it, as long as nothing is cancelled.
* `FlightOwned`, `IdleDrained`: startup leaves no in-flight session to nobody and no
  idle session with a queue. They exempt what the code gives up on: the death of an
  observed container, cancels, a refused head.
* `ObservedSettles`: a turn adopted in its middle is finalised.
* `KeepsService`: the router with all its awaits is the service of `RunService`.
* `StreamInv`: over all the connections of a client, whatever it reconnects with, each
  event comes after all earlier ones (`NothingMissed`), and once if the cursor is one of
  the log's (`NothingTwice`). `EndsComplete`: a stream that ends by itself has sent what
  is on disk and the final status. `EventDelivered`, `StreamSettles`: what is appended
  arrives while the client stays, the status shown follows the session's, and the
  stream of a session at rest ends.
* `TopologyInv`: after any failures and evictions nothing of a session without
  container runs and none of its networks is left (`Reclaimed`), nothing of an active
  one is taken (`OwnedIntact`), and no agent runs without someone who will stop it, also
  after a startup (`AgentsOwned`).
* `FilterInv`: the verdict is about the name the query asks for (`NameJudged`), and a
  refusal echoes exactly its question (`QuestionEchoed`), although two readers take
  the bytes apart.
* `ApprovalInv`, `AskedIsShown`: the approvals shown are those the agent waits for,
  unless the connection or the list failed or an event overtook the list.
* `LinksSettle`: boots, rollbacks, evictions and startups end, sockets close, and
  requests settle once and for good, late replies or not.
* `CatalogInv`: PATCHes that name a version are linear (`UpdatesLinear`); depth never
  grows along a chain of delegations (`DelegationBounded`); a session that can run has
  its environment (`EnvKept`).
* `VaultInv`, `VaultRunsSettle`: no interleaving of refreshes stores a withdrawn token
  (`StoredUsable`), a container started with an older token is replaced before the
  turn (`DispatchFresh`), and a silent provider stops no run for ever.
* `LimiterInv`, `AcceptedOnce`: no window lets through more than burst and refill, and
  who waits as told is served; a key is accepted once within its time.
* `StoresAgree`, `OpenInv`: the backends answer alike, with three differences that the
  property names (the claim of a session that is gone, the container rows in `astray`,
  the mark of an archived agent on later versions); a database that opened has all the
  rows of the old one (`UpgradeWhole`), under the key in use (`CredentialsReadable`).
* `ChatInv`, `EphemeralReaped`: an answer is not of before the post (`NeverStale`), no error
  is given for a turn that left an outcome (`NoFalseError`), and an ephemeral session
  goes.
* `ChainInv`, `UpdatesSettle`: the adapter posts a chat's messages in order
  (`PostedInOrder`) to one session in a life, and one more per create whose answer was
  lost (`OneSessionPerLife`), answers with that turn's text
  if it saw the session at rest (`RestReplyIsOwn`), comes to the end of each update and
  drops none silently.

**Bounds.** Messages: a queue of two behind a run, with a third overlapping after a
cancel, is the smallest instance in which two tasks compete for the queue. One cancel suffices for two tasks to
overlap; what it does for any number of cancels is proved. `MaxAttempts = 2` has one
retry. Pool: with a cap of one, two sessions contend; the fourth acquisition finds a
container evicted under an earlier one. One warm slot for two agents makes a boot
evict another's entry, two boots of two versions overtake each other. `Calls`,
`Boots`, `Containers`, `MaxPatches` and `MaxCancels` bound what would be unbounded;
a warm order beyond `Boots` is dropped.
Restart: three messages are a run, an event queued behind it, and one posted after
the restart; the second crash falls into the recovery from the first. Each of the
other events is needed once to reach every action; the theorems have no bound.
Stream: two lines of two events put a cursor inside a line, at its end and before the
next; the second connection resumes the first. Topology: the sixth container is
the sidecar or agent of the third life of the session, the second crash the one
that finds what the first recovery wrote. Gateway: the second client is the next
container's, the third request overlaps a late reply of the first. Vault: three runs
are two that refresh together and one that meets the result. Store: five calls are a
creation, a change, a second row, a deletion and what comes after it. Front: in eight
seconds with a minute of three a bucket empties, refills, is collected and comes back.
The parts of a composed run share no state, so their product would add nothing: a
behaviour picks one, and what it leaves out stays at its initial value.

**Deadlock** is not checked: when all messages, calls, lines or requests are used up,
the instance has nothing left to do. That nobody waits for ever is `FlightEnds`,
`AcceptedSettles`, `AcquireEnds`, `LinksSettle`, `VaultRunsSettle` and `UpdatesSettle`.

**Fairness.** Every await ends: POSTs and streams carry `AbortSignal.timeout`, the
readiness poll and each gateway request have timeouts, a stop is a Docker call with
a timeout, and Node runs a continuation that is ready. So each task, each call, each
container's stop and the sweeper's steps are weakly fair. A task's fairness is of
its disjunction of outcomes: success of a probe or a POST is never assumed. Nothing
is assumed of clients, of the timer or of signals. (`AcquireEvict` cannot repeat for
ever: it empties the entry that enables it.) In `RestartRecovery` the startup
pass is fair too, the restart by the process supervisor included: of an orchestrator
that stays down nothing could be promised. So are the observer's continuations and
Pi's turns; crashes, deaths and tools owe nothing.
In the composed runs, weak fairness is of the continuations of the handlers and of
timers (`Greet` ... `SyntheticTick`, `System`, `EvictStep`, `ProxyStep`,
`GatewayStep`, `RunStep`, `ChatStep`, `AdapterStep`): Node runs what is ready, and every
wait among them has a timeout in the code. Where one has none, as the relay of a plain
request, its end is not assumed (`RequestsEnd` fails). Crashes, exits, clients, drops of
a connection, Telegram users and the provider's answers owe nothing; a fault is bounded.

## What is proved

For every value of the constants, with the assumptions named in the modules (finitely
many messages and sessions, `MaxAttempts` positive, a distinct `None`):

| Theorem | Statement |
| --- | --- |
| `Typing`, `AtMostOnce` | `Spec => []TypeOK`, `Spec => []ReceivedOnce`: all operations, any number of messages |
| `QueueNeverStranded` | `Ops \subseteq {"post", "cancel"} /\ Spec => []QueueOnlyWhileInflight` |
| `NeverAbandoned` | `Spec => AbandonedOnlyByCancel`: all operations, any number of cancels, either `Grace` |
| `Serialised` | `Spec => []SingleRun`: all operations |
| `Refinement` | `Spec => KeepsService`: `SessionRouter` implements `RunService`, all operations |
| `NeverTwice`, `OneParty` (restart) | `Spec => []DeliveryInv`, `[]OneFinalizer`: any number of messages, crashes, deaths, refusals and cancels |
| `SomebodyOwns`, `Drained` | `Spec => []FlightOwned`, `[]IdleDrained`: the same |
| `Typing` (pool), `OfferedIsUp`, `AccountIsTrue` | `Spec => []TypeOK`, `[]WarmAlive`, `[]WarmInv`: all operations, any numbers of sessions, agents, versions, boots, calls and containers |
| `Capacity` | `"cancel" \notin PoolOps /\ Spec => []CapacityRespected` |
| `NobodyStopsIt`, `NobodyShares` | `MaxWarm = 0 /\ Spec => []ActiveAlive`, `[]SessionsApart`: all operations; no warm containers is the default (`index.ts:197`) |
| `NoneForgotten` | `MaxWarm = 0 /\ PoolOps \cap {"cancel", "sweep"} = {} /\ Spec => []NoLeak` |
| `StoresAnswerAlike` | `Spec => []StoresAgree`: any ids, any contents, any number of calls |
| `CatalogConsistent`, `VaultsConsistent` | `Spec => []CatalogInv`, `[]VaultInv`: any numbers of agents, sessions, chains of delegation, credentials and runs |
| `LimiterHonest`, `KeysHonoured` | `Spec => []LimiterInv`, `[]AcceptedOnce`: any rate, callers, keys and restarts |
| `UpgradesFinish`, `OpenIsWhole` | `Spec => [](OpenTypeOK /\ UpgradeWhole)`, and `[]OpenInv` if `~Rotates`: any columns, credentials, keys and crashes |
| `OwnedStays`, `TopologyHolds` | `Spec => [](TypeOK /\ OwnedIntact)`, `[]TopologyInv`: any numbers of containers, exits and crashes |
| `ApprovalsShown`, `SettledStays` | `GatewaySpec => []ApprovalInv`, `GatewaySpec => SettledForGood`: any numbers of connections, requests, frames and approvals |
| `StreamHolds`, `EndsHold` | `Spec => []StreamInv`, `Spec => EndsComplete`: any log, any numbers of connections, runs, containers and approvals |
| `ChatHolds` | `Spec => []ChatInv`: any messages, any lines of Pi, any number of them in a turn |
| `ChainHolds`, `NobodyIsIgnored` | `Spec => []ChainInv`, `Spec => NobodyIgnored` (the safety half of `UpdatesSettle`): any chats and traffic, any number of faults and crashes |

The hypotheses on operations, on the warm bucket and on the key are needed: TLC
refutes the statements without them (see the table of counterexamples below).

* **`SessionServiceProofs`**, the router. `BaseInv` carries `TypeOK` and what it needs to be
  inductive: a task that may still acquire has an attempt left (`AttemptLeft`), the
  queue holds each message once and all of them are marked `queued`
  (`QueueIsQueued`), what Pi received has been posted (`ReceivedPosted`). `OpsInv`
  says what the absence of an operation rules out. With them
  `QueueOnlyWhileInflight` is inductive. `NeverAbandoned` takes a step from a state in
  which a session in flight has a task (`Staffed`) and shows that the one after it is
  staffed or not in flight, or that the step was the one that consumes the flag
  (`Abandons`). `SingleRun` needs that until a cancel a live task means that the
  session is in flight or deleted (`SerialInv`). Lemmas are grouped by the actions that disturb the same conjuncts.
* **`ContainerPoolProofs`**, the containers of sessions. `CapInv` is `CapacityRespected` with `PlaceInv`: at most
  one acquisition per session, and only while its run is in flight (`Lone`); the
  pending promise belongs to it (`PendingOwns`); before it enters the map the
  session has no entry (`NoEntryYet`); from admission on it has a reservation
  (`HasSlot`). So an entry always replaces its own reservation (`EntryKeepsCap`),
  and a reservation is only made when the count under the lock leaves room
  (`RoomForOne`, `AdmitKeepsCap`). A cancel breaks `Lone`, and with it the cap.
  Without warm containers (`MaxWarm = 0`) `ColdInv` gives each container one owner: it
  is unused, boots for one call (`BoardingApart`), or is one session's; what the sweeper
  has listed has been started and is nobody else's (`ListedApart`), so whoever stops a
  container has it, and takes the entry out in the same step. `LeakInv` adds that
  nothing up is without owner (`Kept`), which needs `NoEntryYet` of `CapInv`: an entry
  that is overwritten would be one forgotten.
* **`ContainerPoolProofs`**, the warm bucket. `TypeInv` is `TypeOK` with what the awaits know: a boot or a
  claim keeps the configuration it began with, a warm container was started for the
  agent it is kept for. `BucketInv` says of each container who has it in custody: the
  bucket offers it, one boot raises it, or a session, a boot call or the sweeper has
  been lent it; what a claim, the sweeper or an eviction has merely looked at (`Seen`)
  is offered or lent. Each stop is of a container that is not offered, or leaves the
  bucket in the same step (`StopsNone`), although `reapWarmEntry` may take out one and
  stop another. `SlotInv` is the account of the cap: slots and promises belong to boots
  under way (`SlotsHeld`, `FlightsHeld`), and until an agent is updated a boot that
  holds a slot finds it unchanged (`SlotsTrue`), is alone with its configuration
  (`HoldApart`), has no entry before its insertion (`AheadEmpty`), so entries and boots
  ahead of their entry occupy at most `MaxWarm` agents (`WithinCap`). That only finitely
  many agents do is part of the invariant, not an assumption. The attempt to prove the
  cap without the proviso found the counterexample `PoolWarmCap.cfg`.
* **`RestartRecoveryProofs`.** `OnceInv` is `TypeOK` with `QueueIsQueued` (the queue
  holds each message once, all marked `queued`) and `ReceivedPosted` (what Pi has
  received will not be posted again). The lemmas first say what any prefix of any
  section's writes does to the queue: it stays, loses its head or its contents
  (`ShrinkingWrites`), or gains a message nobody has posted (`Torn`). `OnceFrame`
  then reduces each action to where it puts messages. Typing needs that nobody
  observes before the drain (`Unobserved`). `OneFinalizer` follows from `Quiet`,
  which adds to it that a session not in flight has neither task nor observer and
  that there is no task before the drain; it is inductive only while nothing has
  been cancelled (`OneInv`). `IdleDrained` is inductive beside them: what ends a flight
  shifts the queue in the same section or leaves it to the startup drain. `OwnedInv`
  says for each phase of the startup who has the flight (nobody before the adoption,
  then the adopted container, then a task or an observer), while no death and no cancel
  has been counted.
* **`SessionServiceProofs`**, the refinement. The mapping needs of the router's states `BaseInv` and
  that each message is where its `pc` says (`ServiceInv`: in the queue, or among what
  Pi was given). Until a cancel or a stream (`Calm`) a step is one that the service
  knows by name (`CalmAccept`, `CalmSettle`, ...) or goes on to another await, which the
  service does not see (`CalmGoesOn`); `SerialInv` gives that one task runs. Afterwards
  `Forth` says how the phase of a message may move.
* **`ControlPlaneProofs`**, the two stores. `StoInv` relates what they hold, not what they
  answer: some sequence goes through the rows of a table by rowid (`Through`), and the
  Map's entries in insertion order are what those rows are of (`Tallies`, and `Table` if
  ids are unique); a session's list of events has its rows of the one queue table
  (`Waiting`, `QueueInv`), a list of versions the rows of `agent_versions` (`Recorded`).
  Three relations between tables are needed besides: a container's row has its session
  (`BoxInv`), a credential its vault (`InVaults`), and a GitHub account one user
  (`OneGithub`). A foreign key sees to the first in SQLite and the UNIQUE index to the
  last. In memory nothing sees to the first, so `BoxInv` tells apart the rows in `astray`,
  and `BoxLooked` says what a read finds of either kind; the look-up of a sign-in sees to
  the last. Each operation then has a lemma (`CreateSessionAlike`, ...), by which both
  stores change alike and say the same, and `StoresSame` derives the reads. Two lemmas
  say what ranks compute: `Rank` (a sequence that goes up through a set has at k the
  element with k elements up to it) and `Listed`, the `ORDER BY` of a table that a map
  tallies with; with `FilterTallies` they give filtered lists, and `EachPlace` and
  `NewestAlike` the audit log's two-key order.
* **`ControlPlaneProofs`**, the rest. Four more inductive invariants, one per component,
  and `PartsApart`, by which a step of the API keeps them all.
  `CatInv`: an agent's row fits the end of its history (`Fits`); a PATCH that has read a
  version expects one that is gone or that only it writes over (`PatchesApart`); a
  delegated session has one level less than its parent and a token says what its
  session is (`LineInv`). `DelegationBounded` speaks of `Ancestors`, a recursive
  function whose definition equation is itself proved (`UpExists`, `AncestorsStep`,
  by least counterexample, as parents are numbered before their children).
  `VauInv`: at most one run has a grant of a rotating provider on its way and what
  everybody else knows is older (`OneGrant`); a stored refresh token that the provider
  no longer takes is about to be replaced (`Replaced`); nothing stored is older than
  what a run began with (`Floors`). That revisions stay bounded is counted: they and the
  runs that may still write one are no more than the runs begun (`Counted`).
  `FroInv`: what was let through since any request and what is left in the bucket
  together are no more than a full bucket and the refill since (`Allowance`), of which
  `RateBounded` is a consequence; a promise of Retry-After is kept by the bucket as it
  is, if nobody takes from it (`Promises`), and rejections do not take. `KeysInv`: what
  was accepted under a key was so a `Ttl` ago, is executing, or its reply is cached for
  long enough.
  `OpnInv`: whole tables on disk and both copies in the transaction (`TablesWhole`),
  what each stage leaves done (`DoneSoFar`), and the key that the next start will find
  (`OneKey`): a new one is generated only while nothing is encrypted.

* **`ContainerLinksProofs`.** Two parts. Of the topology, `LinkInv` says how far the boot,
  the rollback and the startup have come (`BootStages`, `StartupStages`) and that what an
  owner holds under an agent's or a sidecar's name is that or gone; the sidecar of an
  eviction is neither the boot's nor the entry's (`SidecarsApart`). Networks have no such
  owner, as every life of the session has the same two: but a sidecar that runs is attached
  to both, and Docker removes no network in use, so what an eviction finds free is nobody's.
  From there `OwnedStays`. `TopologyHolds` is the converse, that nothing is forgotten:
  every agent container is held by the entry, the boot or an eviction that has yet to stop
  it (`AgentsHeld`), and so is every sidecar and network until a crash (`SidecarsHeld`,
  `NetsHeld`). A network that could not be removed is the difficult one: it is in use, so
  a container is up that somebody holds, and that holder goes on to remove the network
  after the container.
  Of the gateway, `WireTrue` says that what a frame asserts about an approval (a list's
  reply, `requested`, `resolved`) is so, but for the events on the wire behind it; a reply
  that is being handed to its promise is as true if no event has overtaken it
  (`SettlingInv`), and so is what the router shows (`ShownInv`). `ApprovalInv` is the case
  in which the wire is empty.

* **`PiLogProofs`.** What the operators of the log compute, for any log: `FlattenSeq` of a
  sequence with one more element, the events of a line (`LineEvents`, with their ids), of a
  log with one line more, and the latest event of a type. `FlattenSeq` is a recursive
  function inside a `LET`: that it has a value is shown of the least length at which it
  would not. `StreamProofs` and `TurnClientProofs` rest on these lemmas.
* **`StreamProofs`.** Neither `NothingMissed` nor `NothingTwice` is inductive: both come
  from what is on the wire and what the pass has left. `LogInv`: every event has an id of
  its own, which tells its line, so what Pi appends is new to everybody. `Covered` is
  `NothingMissed` for received and sent frames together (a frame's predecessors are
  received or ahead of it on the wire), so a drop loses only what nothing depends on;
  `Ordered` that both come in the log's order, as long as no cursor was `foreign`.
  `Reading`: a pass has yielded the log up to its n-th event, all of which has passed, and
  `todo` continues from there to the last event seen, so that what `follow` has not seen
  (`NewsIs`) is what was appended since. `CursorInv` connects two connections: a cursor is
  the id of the last event received, or of a frame no event has. `StatusInv`: the status
  told last, received or on the wire, is `lastStatus`. `EndsHold` follows: the only step
  that ends the stream finds nothing new, so the pass is at the end of the log.
* **`TurnClientProofs`**, chat completions. `QueueInv`: at most one message runs, what Pi
  was given it was given once. `FollowInv` is about a *calm* request (nothing ran or waited
  when it took its snapshot): every message that may still write a line was given to Pi no
  earlier than the request's own, and so was every outcome that differs from the snapshot
  (`Followed`); a completion is only made of such an outcome, so it never tells of an
  earlier turn. `AloneInv` is the converse for a message that nobody else came to disturb:
  its snapshot was empty, so a turn that wrote an outcome and was not cut off is not an
  error (`Undisturbed`). What the reaper needs is in `BoxInv`.
* **`TurnClientProofs`**, the Telegram adapter. `OrderInv`: what is chained and what was
  posted both rise, nothing in either is beyond the offset, only the head of a chain is
  past `fresh`, and what was posted is before what may still be (`Posting`); `PostedInOrder`
  is its consequence. A handler lives exactly as long as its update is in the chain
  (`HandlerInv`). `OneSessionPerLife` counts: no more sessions than lives and lost
  answers, and one fewer while none is known (`SessionInv`, `LostInv`); after a restart that rests on the files, as what is on
  disk, and what any handler may yet write or rename over it, is the session in memory or
  none (`FilesInv`), although handlers of all chats share one temporary file. `TurnInv`:
  until a crash the turns of a session, ended and waiting, are in the order of the posts,
  so once a handler has seen the session at rest the last answer in the log is its own
  turn's, or its turn wrote none (`Settled`); nothing that happens to the session after
  that can change it (`StaysSettled`).

Proving corrected the model in three places: `StopBroken` removed networks in use, which
Docker refuses; the arms of the `CASE` in `Apply` overlapped, for TLC the first and in
TLA+ either; and the guard of `Ask` let an ephemeral session take a second request as long
as Pi had been given nothing (in the code such a session is created for one request).
`LatestOf` looks for the last place rather than filtering the events, and the chains of the
Telegram adapter and `NewEvents` are written with `FlattenSeq`: of `SelectSeq`, which takes an operator, the provers can
use no lemma. For the same reason the stores' `ORDER BY` and `Array.filter` are written by
rank and not with `SetToSortSeq` and `SelectSeq`.

Model-checked only: `FilterInv` (the proxy's parser is `RECURSIVE`), `RunOwned` (it holds of
one cancel and not of any number; `NeverAbandoned` is what holds of any), and the liveness
properties (fairness and `ENABLED` are beyond TLAPS).

## Where the code and its documentation part

Two runs expect a violation, quoted in `PROJECT.json`:

* `LimitedRestart`: a limited session that was adopted at a restart is recorded as
  `adopt`, so that the next restart stops its sidecar as an orphan.
* `PoolWarmShare`: two sessions claim one warm container.

Further properties that comments, documents or the API suggest do not hold either. TLC
finds each counterexample in the configuration named, a `.cfg` of its own or that of a
run with the property in place of its own (and the constants changed as said):

| Configuration | Property | What happens |
| --- | --- | --- |
| `RouterAll` | `QueueOnlyWhileInflight` | an event queued behind a stream stays queued when the stream ends; only the end of a background run drains the queue (`router.ts:812`; `src/README.md:363` says queued events drain in order) |
| `RouterStuck.cfg` (`MCSessionRouter`) | `RunOwned` | a cancel during a stream's acquire leaves a flag that makes the next run return silently; its session is `starting` for ever (`router.ts:1277`) |
| `RouterCancel`, `MaxCancels = 2` | `RunOwned` | a run cancelled during its acquire is dispatched to a container that is being stopped, because a later run's failed refresh has dropped the flag; a second cancel sets the flag again, which nobody but the run after it consumes: that one returns and leaves its session `starting` (`router.ts:1277`) |
| `RouterAll` | `DeletedHasNoContainer` | a session deleted during its run's acquire leaves a container (`router.ts:511`) |
| `RouterAll`, `Quota = 1`, `Ops = {"post"}` | `TurnsWithinQuota` | the drain starts a queued event after its predecessor used up the quota |
| `CancelStops.cfg` (`SessionCancel`) | `CancelStopsDispatch` | a cancel of a session that has a container, but whose run has not posted yet, does not stop the POST |
| `CancelFailure.cfg` (`SessionCancel`) | `CancelledFailureIgnored` | the late error of a cancelled run is recorded over its successor |
| `PoolReapRow.cfg` (`MCContainerPool`) | `RunKeepsRow` | the sweeper deletes the row of a session that became busy while its old container was being stopped (`pool.ts:1381`) |
| `PoolCapacity.cfg` (`MCContainerPool`) | `CapacityRespected` | after a cancel two acquisitions of a session overlap; one is admitted on the other's entry, which is then evicted |
| `PoolAll` | `ActiveAlive` | a claim that lost, or the sweeper, stops a warm container that a session has just claimed |
| `PoolCap`, `PoolOps = {"evict", "sweep"}`, both sessions ephemeral, `MaxActive = 0`, three calls and containers | `NoLeak` | the sweeper forgets the container that replaced the one in its snapshot (`pool.ts:1345`) |
| `PoolWarmCap.cfg` (`MCContainerPool`) | `WarmCapKept` | an agent is updated and updated back: the boot of the old version frees the slot of the new one with its configuration, and three warm containers share a cap of two (`pool.ts:493`; `pool.ts:56` and `docs/architecture.md:59` promise the cap) |
| `PoolWarmLeak.cfg` (`MCContainerPool`) | `NoLeak` | reaping an entry forgets the newer one of its agent |
| `PoolShutdown.cfg` (`MCContainerPool`) | `ShutdownStopsAll` | an acquisition past the shutdown check spawns after shutdown's snapshot |
| `RestartAll` | `OwnFinalization` | the observer of an adopted run outlives its cancellation and finalises the next run, which has its own task (`router.ts:1640`) |
| `RestartAll`, `MaxDeaths = 0`, `MaxRefusals = 0` | `FlightEnds` | an adopted session whose POST never happened, or whose outcome is older than `last_event_at`, waits for an event that will not come |
| `RestartAll` | `OneTurn` | the fast path takes an `agent.tool_result` in the middle of a turn for its end, and the next message is run beside it |
| `RestartAll` | `CrashKeepsQueue` | a crash between the shift and the next run's first write loses the event |
| `RestartAll` | `FailedDropped` | a crash between marking an orphan failed and clearing its queue leaves the queue for good |
| `EventStream` | `ResumeNeverRepeats` | a cursor the log does not have replays everything |
| `ContainerLinks` | `RouteOut` | a session adopted after a crash in the middle of its boot has no way out |
| `ContainerLinks` | `ReclaimedAfterCrash` | networks of a boot that a crash cut off stay |
| `ContainerLinks` | `StopRemoves` | the stop of a container that has exited throws where the code means to ignore that it is already stopped (`docker.ts:189`), before it removes; the container stays on the host, and a sidecar that stays keeps the name that the session's next boot needs |
| `ContainerLinks` | `StaysAlive` | a DNS answer that comes twice closes a socket twice, which ends the proxy |
| `ContainerLinks` | `RequestsEnd` | a relayed plain request has no timeout |
| `ContainerLinks` | `ListRehydrates` | an approval that comes in the chunk of the list's reply is overwritten (`router.ts:289`) |
| `ContainerLinks` | `CompactAlone` | compaction checks that nothing runs, then awaits |
| `ControlPlane` | `Indistinguishable` | calls of the handlers tell the backends apart: the container row of a session deleted while it started is refused by SQLite alone, that of a session deleted before its container goes in SQLite alone, and a version written after the agent was archived is marked so in memory alone |
| `ControlPlane`, `Rotates = TRUE` | `RotatesCleanly` | after a change of `OPENCLAW_VAULT_KEY` older credentials do not decrypt, and every run of a session with that vault fails (`index.ts:697` says it rotates cleanly) |
| `ControlPlane` | `ArchivedFrozen` | a PATCH updates an agent archived while its model was validated (`server.ts:884`, 905) |
| `ControlPlane` | `ExpiredMeansExpired` | the loser of two refreshes fails its run although the stored token is good |
| `ControlPlane` | `RefreshOnlyUsed` | a credential is refreshed that a longer prefix shadows |
| `TurnClients` | `OwnReply` | `waitForIdle` takes `starting` for finished and answers with the turn before (`orchestrator.ts:167`; `docker/call-agent.mjs` polls the same way) |
| `TurnClients`, `Killed = FALSE` | `DiskWhole` | two saves share one temporary file |
| `TurnClients` | `OneConversation` | the answer to a create is lost after the server took it: the chat's next message creates a second session (`docker/telegram-adapter/src/orchestrator.ts:80`) |
| `TurnClients` | `InterruptedIsReplayed` | a crash after the next poll loses the updates being handled |
| `TurnClients`, `Killed = FALSE` | `FailureIsOwn` | a save that fails in a finished handler's chain is an unhandled rejection, which ends the adapter |
| `TurnClients` | `OwnAnswer` | a blocking completion answers with the text of a later turn |
| `TurnClients` | `ErrorReaped` | an ephemeral session cleaned up on an error leaves the container its run acquires |

## Not modelled

* The portal (`portal.ts`, which no route serves at this commit, and `portal-v2.ts`),
  metrics, logging, the price cache (`zenmux-pricing.ts`): display, counters and one
  cached fetch, no protocol.
* The ciphers and signatures (AES-GCM, HMAC, Ed25519) are primitives.
* Read-only routes, validation and formatting of requests; the routes for users, whose
  rows are in `StoreParity`.
* Readiness polling and the argument lists of Docker calls; the deployment and
  benchmark scripts; the Python SDK.

## Plan

Modelled and checked: every module above. Proved: what the table under *What is proved*
lists: every invariant of the passing runs but `FilterInv`, which would need the parser of
`EgressFilter` written without `RECURSIVE`, and `RunOwned`, which holds of one cancel only.

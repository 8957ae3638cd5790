# Decrypt0rX: TLA+ models and proofs

Decrypt0rX is an intercepting HTTPS proxy with a control plane: proxy replicas
(`services/proxy`), an API (`services/api`), shared models and primitives
(`packages/core`), a web console (`web`), PostgreSQL for rules, authorities,
users and flows, Redis for notifications and rate limits, and an object store
for captured bodies. This directory models the parts of it in which the order of
steps matters, checks them with TLC on small instances, and proves theorems about
them with TLAPS for every instance.

## 1. Inventory

| Component | State it keeps | Operations | What makes it correct |
|---|---|---|---|
| Capture pipeline, `recorder.py` | bounded queue, one batch per worker, `dropped`, `written` | `submit`, `_worker`, `_flush`, `_persist_bodies`, `stop` | a record is handled once; rows before announcements; rows only name stored bodies; nothing gets stuck; a stop ends quietly |
| Connections, `proxy.py` | semaphore, `active_connections`, one coroutine per client | `_on_client`, `_handle_connect`, `_handle_plain_http`, `_tunnel`, `_intercept`, `_serve_http`, `_exchange` | slots and counters balance on every exit; policy is obeyed; a transaction is recorded once; upstreams are closed |
| Entrypoint, `main.py` of the proxy | `ready`, three background tasks | start-up loop, `_sync_loop`, `_config_listener`, `_heartbeat`, shutdown | no traffic before a policy is loaded; the configuration converges; shutdown in order |
| Policy engine, `policy.py` | compiled rules, `version` | `refresh`, `evaluate` | first match by priority; agrees with the dry run of the API |
| Certificates, `certs.py` | forge, fingerprint, LRU cache of contexts | `load`, `context_for` | a context chains to the loaded authority; the cache is bounded; an authority is never unloaded |
| HTTP/1.1, `http1.py` | none | heads, `body_framing`, `pump_body`, `decode_content` | both ends agree where a message ends; the tee is bounded |
| Rate limit, `proxy.py:175` | one Redis counter per client and minute | `_rate_limited` | shared by replicas; never fails closed |
| CA lifecycle, `routers/ca.py` | rows of `certificate_authorities` | generate, import, activate, delete | exactly one is active |
| Policies, `routers/policies.py` | rows of `policy_rules` | create, update, delete, dry run | each commit is announced; the dry run mirrors the engine |
| Users and login, `routers/users.py`, `auth.py`, `deps.py` | rows of `users`, signed tokens | login, create, update, delete, role checks | an active admin remains; a disabled account loses access at once |
| API start-up, `main.py`, `seed.py` | none | create schema, seed, retention sweep | seeded once; rows past the window go |
| Flows, live stream, nodes, `routers/flows.py`, `stream.py`, `nodes.py` | one socket and one subscription per viewer | queries, bodies, purge, `/ws/flows` | a body is found or reported missing; sockets end with their clients |
| Core, `packages/core` | none | models, `SecretBox`, `pki`, `redaction`, `storage` | keys of rows; a ciphertext is bound to its authority; secrets are masked |
| Web console, `web` | browser session, polling, socket | pages and the API client | falls back to polling; drops its session on 401 |
| Deployment, legacy prototype | | | not part of the running protocol |

### How they interact

A connection handler asks the policy engine and the certificate provider
(plain calls, no await) and hands finished `FlowRecord`s to the recorder's queue
without waiting. The recorder's workers write bodies to the object store, rows to
PostgreSQL and events to Redis; the API's `/ws/flows` passes the events on to
browsers. The API commits configuration changes to PostgreSQL and then publishes
on a Redis channel; each replica re-reads rules and authority when it hears of
one and also on a timer. All replicas share the database and nothing else.

### What is hard

* **Interleaving.** Every `await` of a replica lets the handlers, the workers,
  the timer and the listener run. `refresh` and `load` are called by two tasks.
* **Partial failure.** The database, Redis and the object store fail
  independently and in the middle of `_flush`; a failed commit may have been
  applied.
* **Cancellation.** A shutdown cancels workers at any await, and they flush again.
* **Lost messages.** Redis publishing is best effort and has no replay.
* **Clean-up.** A handler has some twenty exits, and the slot, the counters, the
  record and the upstream each have their own place in the code for it.
* **Transactions.** The API checks and writes under READ COMMITTED without locks.
* **Waits without a timeout.** Every `drain` of a body waits for a peer that reads,
  and `pump_body` for one that writes.
* **Order of rows.** Pages are cut out of an order in which rows may tie.

`PROJECT.json` lists each hazard at its line with the properties about it.

## 2. Plan

Most important behaviour first; parts marked *done* are in this directory.

1. *done* `CaptureLog` (what the pipeline promises), `Recorder` (how it works),
   `RecorderProofs`.
2. *done* `Connection`: handlers, admission and clean-up; `ConnectionProofs`.
3. *done* `ConfigSync`: start-up, timer, listener, cache, API announcements;
   `ConfigSyncProofs`.
4. *done* `Exchange`: one client and one origin stream with messages in flight:
   heads, framing, interim responses, early ends, keep-alive, the tee;
   `ExchangeProofs`, and `FramingProofs` about the position in the streams.
   `Backpressure`: the same steps between writes that wait, shown to implement
   `Exchange`.
5. *done* `Authorities` (transactions with row locks), `Accounts` (users, login,
   the last-admin guard) and `Bootstrap` (replicas that seed beside them);
   `AdministrationProofs`.
6. *done* `Policies`: rules under concurrent requests, the matcher, and the dry
   run against the engine; proved about in `AdministrationProofs` too.
7. *done* `FlowStore` (insert, sweep, purge, pages), `LiveFeed` (sockets and
   subscriptions), `RateLimit`; `FlowStoreProofs`, `TrafficProofs`.
8. *done* What is proved of the parts holds of the instances that TLC explores
   side by side (`MCTraffic`, `MCAdministration`).
9. *open* Safety halves of other liveness properties (that a row a sweep selects
   is old, that a start-up stays within its attempts) as theorems of their own.

The component modules share no variables. What one assumes of another is stated
as a property of the other: `Connection` lets `caReady` become TRUE and never
FALSE, which is `ConfigSync!NeverUnloaded`; `Recorder` takes a record from a
handler at most once, which is `Connection!RecordedOnce`; the engine of
`Policies` reads the table that `ConfigSync!Converges` brings to every replica;
`Exchange` is what one connection does in the places `request`, `send`, `await`
and `deliver` of `Connection`, and `Backpressure` says how long it may stay there.

## 3. Modules

### CaptureLog and Recorder

`CaptureLog` has four sets: pending, kept, dropped and lost records. A record is
refused at once or becomes pending, and from pending it is kept or lost; all
three ends are final.

`Recorder` is `recorder.py` with the shutdown of `main.py`:

| State | Code |
|---|---|
| `handler[r]` | the connection handler that will report record `r`; `detached` once its client's transport is closed |
| `queue`, `dropped`, `written` | `_queue`, `dropped`, `written` |
| `pc[w]`, `batch[w]`, `next[w]` | where worker `w` is suspended (`get`, an upload or the commit as `put`, `publish`, `sleep`), its batch, the uploads done |
| `refs[w]` | body refs of the rows under construction |
| `final[w]` | the worker is in the flush of its `CancelledError` handler |
| `rules`, `flows`, `rowRefs`, `store`, `live` | rule rows, flow rows, refs in rows, stored objects, announcements per record |

`Take` is the `get` and the `get_nowait` loop: there is no await between them.
`PersistBodies` uploads the bodies of one record; with the fault `"store"` an
upload may fail before or after the object is stored. `Commit` needs fresh
primary keys and rules that exist; `CommitFails` is the exception, applied or
not. Cancellation has one action per await (`CancelIdle`, `CancelUpload`,
`CancelCommit`, `CancelPublish`), each with the outcomes the interrupted call can
have. `StopWorkers` waits for the clients' transports, not for the handlers:
this is `Server.wait_closed` of Python 3.12.

### Connection

One coroutine per client, `pc` naming the await it is suspended at: waiting for
the semaphore, the rate limit, the first head, the dial, the 200, the tunnel, the
two handshakes, the next request, sending, awaiting and delivering, the relay
after a 101, and the three clean-up steps. `free` and `waiters` are the
semaphore, first come first served. `due` says that a transaction has begun and
has no record yet. `peers` and `toldEof` carry what a relay can know of its two
ends. Time is abstract: a timeout is an outcome of the await it guards. Where an
exception that the code does not catch skips a record (a write of the 403 or of
the 502, a host that is no name, a handshake that ends in none of the listed
errors), the action has an outcome without one.

### ConfigSync

One replica. `at[t]` is the await at which the timer or the listener is
suspended, `held[t]` what it has read and not installed; the start-up loop is the
task `"sync"` before the process serves. `rules` and `ca` are what the engine and
the provider hold, `contexts` the LRU cache, `inbox` the announcements buffered
on the subscription. `dbRules` and `dbCA` are committed; `announcing` counts
commits whose announcement has not been published. A query that finds the
database down raises `SQLAlchemyError` or something else, and the code treats
them differently during start-up. `sealed` authorities cannot be decrypted with
this node's master key. `DeleteCA` is the deletion of the active row that the
check-then-delete of `delete_ca` lets through.

### Exchange

One pair of streams under `_serve_http`. A stream is a sequence of tokens: a
head, a unit of body (what one read returns), the last chunk, the blank line
after the trailers, or something that does not parse.

| State | Code |
|---|---|
| `pc` | `head` and `respHead`: `read_request_head`, `read_response_head`; `reqBody` and `respBody`: `pump_body`; `relay`: the two `_relay` after a 101 |
| `body` | `pump_body`'s framing and `remaining` (`left`), whether it reads trailers, and its `_Tee` |
| `rec`, `log` | sizes and `bodies_truncated` of the `FlowRecord` under way and of those submitted |
| `wire`, `outbox`, `up` | bytes on their way to the proxy, what a peer has still to write, whether it has ended its stream |
| `awaiting` | a client that sent `Expect: 100-continue` holds its body back |

`RequestFraming` and `ResponseFraming` are `body_framing`; `Unit` is one turn of
`pump_body`'s loop; `Fails` and `LosesPeer` are the `except` of `_exchange`,
which records the transaction with an error; `BadRequest`, `NoMoreRequests` and
`ResponseTimeout` leave through `_on_client` and record nothing. The peers frame
messages as RFC 9112 says; they may answer early, pipeline, garble a head, or
leave at any token. A line that does not parse is a `ProtocolError`; one over the
64 KiB of a `StreamReader` is a `ValueError`, which no `except` of the exchange
takes (`Overlong`: a 400 and no record). `_serve_http` is one coroutine, so only
the peers interleave with it. A write never waits in this module.

### Backpressure

`Exchange` with one more variable, `full`: the peers for whom the transport holds
more than its high-water mark. A write may bring its peer there (`Sends`), the
`drain` after it waits until the peer has read on (`ReadsOn`), and until then the
coroutine does nothing (`Serves`); each of the two relays after a 101 waits for
its own writes only, and not before the 101 has been drained (`Upgrading`). Within
the last chunk and its trailers the code writes without a drain. A peer may stop
reading for ever. Every step is one of `Exchange` or leaves its variables alone
(`FlowImplementsExchange`).

### RateLimit

`_rate_limited`: the key is computed from the clock (`Arrive`), the pipeline of
INCR and EXPIRE runs later (`Execute`), or fails before or after it ran
(`FailOpen`). `count` and `expiry` are per minute and shared by all proxies;
`Forget` is a Redis that restarts empty. A pipeline is assumed to run or fail
within a minute of the arrival: the client has no timeout of its own that says
so, and an older one would let the counter expire under it.

### FlowStore

The rows of `flows`, each with its `StartedAt`, which it may share with others: the
column is not unique. `Insert` is a batch of the recorder, late records included;
`SweepBegins`, `SweepCommits` and `SweepFails` are `_retention_sweep` of each replica,
`PurgeBegins` to `PurgeFails` are `purge_flows`, each with a statement that selects
and a later commit. `Opens`, `Counts` and `Shows` are a client that turns the pages of
`list_flows`: a count and a page, in two statements, with offsets. `Leading` are the
sets of rows that may come first under `ORDER BY started_at DESC`: rows of one instant
stand in any order, and in another one in the next statement (`IsPage`). `there` and
`calm` are history: the rows there all along, and whether a deletion was open at the
start or a row was added between a count and its page.

### LiveFeed

The handler of `/ws/flows`: `Handshake` verifies the token, `Subscribe` takes a
connection of the Redis pool, or raises with or without one, `SendReady` starts the
pump, `CleanUp` is the `finally`. `held` are connections of the pool, `subs`
subscriptions at Redis. The browser leaves between any two steps, Redis ends
connections (`Drop`), its client library connects again (`Resume`), and the pump task
may die unseen (`PumpDies`).

### Accounts and Bootstrap

`users` has a row per address. A request (`req[h]`) reads its caller and its
target (`AskAdmin`, `AskSelf`, `Load`), checks (`CheckLastAdmin`) and commits;
`seen` is the row as it was read, and `Written` writes only the columns that
differ from it, as SQLAlchemy's unit of work does. `quiet` is history: what the
request decides on has been left as it read it (`LeavesBe`: a login's password; for
the others, that those who were admins still are), whatever else has been
committed. The operator role has the viewer's place, because no handler
of these files tells the two apart.

`Bootstrap` adds replicas in their `lifespan`: `ensure_admin` and
`ensure_default_policies` count in one statement and insert in a later one, and
every replica may end at any step and start again. `SeedDefaults` is the setting
that guards the second seed. Requests are served while one replica serves; among
them, operators add the first rule or delete the last (`RulesByHand`), which
decides what a replica that starts counts.

### Authorities

Transactions at READ COMMITTED. `present` and `active` are committed; `todo[h]`
is what `_deactivate_others` has still to update, `off[h]` the rows it has
updated and keeps locked until `Commit` or `Abort`. The request's own row is
flushed by the commit. `alone` and `born` are history: which requests no other
overlapped, and which rows came from an insert that one did.

### Policies

`rules` maps ids to rows, `edit[h]` is a request between its read and its commit.
`Evaluate` is `PolicyEngine.evaluate` on rules that `refresh` compiled, `DryRun`
is `test_policy`; they have different code for the order, the networks and the
default. A `Verdict` is the rule, its action and its `capture_bodies`: the engine's
default has the action and the flag of the proxy's settings (`DefaultAction`,
`DefaultCapture`), that of the dry run is written into its code. `redact` is TRUE in
both defaults and the rule's own otherwise, and `capture_max_bytes` is no part of the
answer of the dry run. Patterns and networks are tables (`Glob`, `Net`), because
`fnmatch` and `ip_network` are the same functions on both sides.

### How they are put together

`MCTraffic` holds `Backpressure` (with `Exchange`), `RateLimit`, `FlowStore` and
`LiveFeed`, `MCAdministration` holds `Bootstrap` with `Accounts`, `Authorities` and
`Policies`. The parts share no variable, so no step of one can change what a
property of another speaks of; `focus` picks one and TLC explores the sum of their
states instead of the product. Of `Bootstrap` it picks two views: starts beside
requests about users while nobody deletes all rules (`"users"`), and starts beside
operators who do while no such request is made (`"starts"`).

## 4. Runs

| Run | Question | Result |
|---|---|---|
| `recorder` | Does the pipeline keep its promises under every fault and a shutdown at any point? | holds |
| `recorder_queued` | Are queued records flushed by a stop? (`LLD.md:538`) | violated |
| `recorder_metadata` | Is metadata always recorded when every service is up? (`README.md:43`) | violated |
| `connection` | Do slots, counters, records and upstreams balance on every path, and is policy obeyed? | holds |
| `connection_recorded` | Is every transaction recorded? (`proxy.py:12`) | violated |
| `connection_tunnel` | Does a tunnel end when one side closes? (`LLD.md:274`) | violated |
| `config` | Does a replica start safely, keep a coherent cache and converge? | holds |
| `config_stale` | Does a new rule stay in force once installed? (`LLD.md:931`) | violated |
| `traffic` | Do messages stay framed, matched and exactly recorded, does every exchange end but for three waits without a timeout, do pages skip only ties, do old rows go, are feeds released, does the limit bound any minute? | holds |
| `traffic_pages` | Does the list show every row of a table that stays as it is? (`page.tsx:108`) | violated |
| `administration` | Does access survive, is one authority active, are defaults seeded once, does the dry run agree, but for the overlaps and settings the properties name? | holds |
| `administration_default` | Does the dry run mirror the engine exactly? (`policies.py:121`) | violated |

The seven violations are disagreements between documentation and code;
`PROJECT.json` quotes the sentence for each and says what the trace shows.

### Bounds

* `recorder`: three records, two workers, queue and batches of two. Three records
  fill the queue and overflow it, and make one full and one partial batch; two
  workers race for them; one record has a body and names the rule that can be
  deleted, the others have neither. More bodies only repeat the upload step within a
  batch (`RefsCorrect` is proved for any).
* `connection`: two clients and one slot, so that one always waits; two recorded
  transactions per connection, so that a connection is reused once.
* `config`: two readable authorities and a sealed one, two hosts and a cache of
  one, so that a miss evicts (one context per host is then no question; `CacheCorrect`
  is proved for every size); two attempts (the code has thirty), two changes,
  one restart. Two changes give every order of a stale read and a new one.
* `traffic`: two requests per connection, so that one follows a body of every
  framing, an answer to HEAD, an early answer and a 204; a capture limit of one
  and bodies of up to two, so that either body or both exceed it; one interim
  response. Every write may wait, and either peer may stop reading. Three flows, two
  of one instant, and pages of one row, so that a row is deleted behind, on and
  before the page that is shown, and two rows tie across a page boundary
  (`traffic_pages` is the same without messages). Two sockets. Three arrivals at a
  limit of one over two minutes of two instants, so that twice the limit is reached
  and exceeded by one without the code.
* `administration` and its claim: two requests at a time (every property is
  about two that overlap), three about users, so that two admins exist and remove
  each other; two replicas and three starts, so that one starts again; three
  authorities and five requests, so that two are active and a third is activated;
  three rules and four requests. The settings are the shipped ones (seeding on,
  intercept, no bodies), but for `administration_default`. Requests and replicas are
  interchangeable (`Symmetry`); both runs have safety properties only.

`CHECK_DEADLOCK FALSE` is set because each system does stop: a closed recorder,
handlers that are done, a process that exited with no restart left.

### Fairness

* `Recorder`: weak fairness of each worker (the event loop runs ready tasks,
  drivers return or raise), of `StopWorkers` and `Close`. Only
  `ShutdownCompletes` needs more: clients that eventually hang up, because
  `wait_closed` has no timeout.
* `Connection`: weak fairness of the steps that end by themselves or by a timeout
  of the code (`Timed`). The `drain`s have none: that they return is an assumption
  on peers of its own (`ReadingPeers`). `TunnelFollowsClient` adds an origin that
  answers an end of stream (`PolitePeers`), `EveryClientIsServed` also peers that go
  on with an exchange and leave in the end (`FinitePeers`); `connection_tunnel` has
  neither.
* `ConfigSync`: weak fairness of the timer's task only. Nothing is assumed of
  Redis, of the listener or of restarts; `Converges` is conditional on a database
  that stays up in the end.
* `Backpressure`: the proxy's steps (the event loop runs it, its reads of heads have
  timeouts), but a step that waits for a `drain` is not enabled, and that a peer reads
  is not assumed; the writes of a peer that began a message, but not of a client that
  waits for 100 Continue; peers of an upgraded connection end it. `ExchangesEnd`
  (`EndsUnlessStalled`) therefore names all three ways to wait for ever: an origin
  that has stopped reading, a client that has stopped reading, and a client that holds
  its body back, because `_exchange` pumps the request body to its end before it reads
  what the origin says.
* `FlowStore`: each replica's sweep wakes and its statements end. The task sleeps
  `retention_sweep_hours` before it sweeps (`main.py:39`), so that a replica which
  is restarted more often never sweeps; that is outside the assumption.
* `LiveFeed`: every handler is run, and its read notices a browser that has left.
* `Authorities`, `Accounts`, `Bootstrap`, `Policies` and `RateLimit`: none, they
  have safety properties only.

### What the passing runs say about the limits of the code

Properties are stated with the exact condition under which the code keeps them,
and the condition is part of the result:

* Two authorities can be active at once: `generate` or `import` with `activate`
  that overlaps another activation inserts a row the other one does not see
  (`TwoActiveNeedsInsert` allows only this; `LLD.md:682` says that exactly one is ever
  active). No authority can be active after overlapping requests either
  (`SoloKeepsOne` is about requests that nobody overlaps).
* Two admins who demote or delete each other at the same time leave none, although
  `HLD.md:216` says that the last remaining admin cannot be demoted, and
  `delete_user` has no count of its own: it relies on the caller, who remains. A
  login that re-hashes may write back the password it verified over one that was set
  meanwhile. `OnlyRivalsTakeAccess` says that a request does neither unless another
  has taken an admin's access, or changed that very password, since it read: all
  other overlaps are harmless.
* Two replicas that start on an empty database can both add the default rules
  (`SeededOnce`); a second bootstrap admin fails on the unique address. With the
  setting off, or after an operator has deleted all rules, a replica serves without.
* The dry run's default is `intercept` without bodies whatever the proxy is configured
  to do (`administration_default`), although its docstring says that it mirrors the
  engine; `DryRunAgrees` is about connections that a rule matches, and about the
  shipped default.
* Rows of one instant have no order of their own: two pages may show one of them
  twice and another never (`traffic_pages`; `PagesSkipOnlyTies` says that a row is
  only ever skipped for another of its instant). A row added between the count and
  the page of one request can hide the last row of the list, which it excludes.
* An exchange has no timeout on its writes and none on its bodies:
  `ExchangesEnd` names the three ways in which it may wait for ever.
* A batch that is given up after an error of the database is logged and not counted
  in `dropped`, and a replica for which no authority is active is ready and tunnels
  what it should intercept (`ARCHITECTURE.md:99` says that readiness waits for the
  authority). Both are in the models and neither is excluded by a property.
* An interim response (other than 101) is taken for the final one; from then on
  the connection is out of step (`InStep` and `AnswersMatch` exclude it).
* A browser that leaves between the subscription and "ready", a subscription that
  fails after it took its connection, and an outage of Redis at the clean-up leave a
  subscription or a connection behind
  (`FeedsAreReleased`); a pump that died leaves a silent socket until its browser
  leaves.
* Twice the rate limit passes around the boundary of a minute (`RateBound`), and
  a Redis that restarts forgets.

### Sensitivity

Every property of a passing run has a mutant: a definition changed as a plausible
bug would change it (the operators commented "Mutant of"), under which TLC finds
the property violated.

## 5. Proofs

`RecorderProofs` proves, for every set of records, bodies, rules and workers,
every queue and batch size and every set of faults, under the named assumptions
of `Recorder` only:

| Theorem | States |
|---|---|
| `TypeCorrect` | `Spec => []TypeOK` |
| `NoDoubleHandling` | `Spec => []SingleOwner` |
| `LiveViewCorrect` | `Spec => []LiveAfterCommit` |
| `RefsCorrect` | `Spec => []RefsResolve` |
| `QuietAfterClose` | `Spec => []ClosedIsQuiet` |
| `WrittenCorrect` | `Spec => []WrittenNeverOverstates` |
| `CancelCorrect` | `Spec => CancelFlushesBatch` |
| `RecorderImplementsLog` | `Spec => ImplementsLog`, the refinement of `CaptureLog` |

`SingleOwner` is not inductive: that a submitted record enters the queue as a
new one needs the state of its handler, and that a worker which takes a batch
overwrites nothing needs an empty batch. The invariant `IInv` adds

* `BatchInv`: a worker in `get`, `sleep` or `done` has an empty batch;
* `SubmittedInv`: what is in the pipeline or in the table was submitted, so its
  handler submits nothing again;
* `PublishInv`: a worker about to publish has committed and has not published, so
  `LiveAfterCommit` survives the repetition by a final flush: the repeated insert
  violates the primary key before it reaches the fan-out;
* `RefsInv`: refs under construction name stored objects.

`StepIInv` is proved one action at a time from lemmas about cutting and extending
sequences without repetitions. `WrittenCorrect` adds cardinalities: a batch of n
distinct new records adds n rows. `CancelCorrect` is an action property: of all steps
of a worker only three reach `done`, the idle one of which has an empty batch by
`BatchInv`, and the others belong to a final flush. The refinement maps `Take` and
`Submit` to `Accept`, `Refuse` or a stutter, commits to `Keep`, and the exception
paths and `Drop` to `GiveUp` and `Refuse`; three lemmas (`StutterStep`, `SettleStep`,
`KeepStep`) turn facts about the sets into steps of `CaptureLog`.

`ConnectionProofs` proves, for every finite set of clients and every size of the
semaphore, under `ConnsAssumption` and `LimitAssumption`:

| Theorem | States |
|---|---|
| `TypeCorrect` | `Spec => []TypeOK` |
| `SlotsCorrect` | `Spec => []SlotsConserved` |
| `ActiveCorrect` | `Spec => []ActiveCountsOpen` |
| `PolicyCorrect` | `Spec => []PolicyIsObeyed` |
| `RecordedCorrect` | `Spec => RecordedOnce` |
| `UpstreamCorrect` | `Spec => UpstreamReleased` |

The two counters are cardinalities of sets of handlers. `MoveInside` and
`MoveOpen` say how a move of one handler changes these sets, `Counts` what that
does to their sizes, and `WorkingMove` that a handler which stays at work changes
neither; `StepCounts` then treats every action. `TypeOK` is not inductive by
itself: that `active` stays a natural number after its decrement is
`ActiveCountsOpen`. `PolicyIsObeyed` needs `PolicyInv` (before the dial nothing
is connected; after it the decision is `bypass` or `intercept`), and `RecordedOnce`
needs `DueInv` (a transaction is due from its head to its end, and not before the
first head). `StepPolicy`, `StepRecording` and `StepReleases` have one case per
group of actions and show that a step of one connection leaves the others alone.

`ConfigSyncProofs` proves, for every set of authorities and hosts, every cache
size and every number of attempts, changes and restarts, under the three
assumptions of `ConfigSync`:

| Theorem | States |
|---|---|
| `TypeCorrect` | `Spec => []TypeOK` |
| `CacheCorrect` | `Spec => []CacheIsCoherent` |
| `ServingCorrect` | `Spec => []ServingHasPolicy` |
| `NeverUnloadedCorrect` | `Spec => NeverUnloaded` |

`ServingHasPolicy` is not inductive: that the attempt which ends the start-up
has installed a set is `StartInv`, that what it installs was read from the
database (and is not the empty list of a new engine) is `HeldInv`, and that the
database numbers its sets from 1 is `DatabaseInv`. For the cache, `HitCoherent`
and `MissCoherent` show on arbitrary sequences that moving a context to the end,
and appending one and evicting the oldest, keep one context per host, all of one
authority; `StepCache` adds that every step that changes the authority empties
the cache.

`ExchangeProofs` proves, for every set of requests and responses, every capture
limit and every number of exchanges and interim responses, under the four
assumptions of `Exchange`:

| Theorem | States |
|---|---|
| `TypeCorrect` | `Spec => []TypeOK` |
| `LastCorrect` | `Spec => []NothingAfterLast` |
| `TruncationCorrect` | `Spec => []TruncationIsExact` |

`ExchangeInv` counts heads and answers by the place of the coroutine (`CountInv`),
says that only the last exchange of a closed connection may be one after which
nothing may follow (`LastInv`), what the response under way is (`AnswerInv`), and
what the tee has kept of a body (`Tee`) and of the request before the response
(`RecInv`). `LastInv` is stronger than the property: it holds of each exchange from the
moment it is logged. `TypeOK` carries the weight of the streams: a token that a
loop removes from one leaves a stream of the same sender.

`FramingProofs` adds where the two streams stand, under the same assumptions:

| Theorem | States |
|---|---|
| `InStepCorrect` | `Spec => []InStep` |
| `AnswersCorrect` | `Spec => []AnswersMatch` |
| `RecordCorrect` | `Spec => []RecordIsExact` |
| `FlowImplementsExchange` | `FlowSpec => Spec`: with writes that wait, every behaviour is one of `Exchange` |
| `FlowTypesCorrect` | `FlowSpec => []FlowTypeOK` |

The last two carry the others over to what the run explores: a step of `Backpressure`
is a step of `Exchange` with more conditions, or a `ReadsOn`, which leaves its
variables alone. None of the first three is inductive: that the next token is a head
depends on all that was read before it and on all that the sender is still writing. A
stream is taken as what is on its way and what is still to be written (`Stream`),
which a write only moves along. `ClientInv` says that the client's stream is *in
frame*: it begins with the rest of the body being pumped, whose length follows from
what `pump_body` has counted (`Consumed`), every head in it is followed by the tokens
of its own body and then by the head of the next id, and nothing is missing while the
sender is there (`Whole`). `OriginInv` says that the origin's stream holds at most one
answer, to the request that was taken last, and none before its head was taken.
`CountedInv` ties the counters of `pump_body` to the size of the message under way,
from which the sizes in a record follow. The lemmas on streams come first: a beginning
of a stream in frame, its tail, and the stream with one more message are in frame
(`PrefixInFrame`, `TailInFrame`, `AddedInFrame`), on sequences of any length; then one
lemma per step of the proxy and of the peers.

`FlowStoreProofs` proves, for every finite set of flows, every number of
replicas and every window and page, under three assumptions of `FlowStore`:

| Theorem | States |
|---|---|
| `StoreTypeCorrect` | `StoreSpec => []StoreTypeOK` |
| `PagesCorrect` | `StoreSpec => []PagesSkipOnlyTies` |

The invariant of the paging is a count: a row that was there all the time and has
neither been shown nor given its place to another of its instant has at least `offset`
rows that are not older (`PageInv`). A page shows the next `Limit` rows in some order
of the ties; if it shows neither that row nor one of its instant, all it shows is
newer, and so is all that came before. Inserted rows only raise the count. A deletion
that began after the client takes rows behind those that stay (`BehindInv`, from
`ClosedInv`: one that is not open has selected nothing), so it never lowers it. Lemmas
about finite sets of rows say what a page past an offset holds, whichever order it is
cut from.

`TrafficProofs` proves, for every finite set of arrivals, every limit and length of a
minute (`ArrivalsAssumption`, `RateAssumption`), every set of sockets, and the
assumptions of `Exchange` and `FlowStore`:

| Theorem | States |
|---|---|
| `RateCorrect` | `RateSpec => []RateBound` |
| `RateTypeCorrect` | `RateSpec => []RateTypeOK` |
| `ReleasedCorrect` | `FeedSpec => []EndedIsReleased`, the safety half of `FeedsAreReleased` |
| `FeedTypeCorrect` | `FeedSpec => []FeedTypeOK` |
| `TypesCorrect` | `MCSpec => []Types` |

For the rate limit, `CounterInv` says of each minute whose counter Redis has not lost
that those admitted are at most as many as the counter says, or that two minutes have
passed since the minute began. The second case is harmless because nobody asks any
more by then (`AskingInv`, the assumption about late pipelines), and the counter
cannot go earlier because every request renews its 120 seconds. Any 60 seconds meet
at most two minutes (`LaterMinute`), so that twice the limit follows from two
cardinalities. `RefusedInv` counts arrivals for the last part: a counter never exceeds
the arrivals of its minute that were answered. `Begins` keeps the products and
quotients by the length of a minute in four lemmas. For the feed, `SocketInv` says
that nothing is held before the subscription, and that only a handler at work has a
pump for which the library subscribes again; `Released` says what a handler that has
ended may leave behind.

`AdministrationProofs` proves about what administrators change in the database. For
every set of authorities and every number of requests, under `CAsAssumption` and
`CaBoundAssumption`:

| Theorem | States |
|---|---|
| `CaTypeCorrect` | `CaSpec => []CaTypeOK` |
| `ActiveCorrect` | `CaSpec => []TwoActiveNeedsInsert` |
| `SoloCorrect` | `CaSpec => SoloKeepsOne` |

The argument is that of the row locks: once `_deactivate_others` has begun, every
row is the request's own, still to be updated, updated and locked, or inserted by a
request that overlaps (`CoverInv`). `OthersInv` keeps a request from its own row,
and `CaRequestInv` says that what a request which runs alone has read still holds.

For all rules, networks and patterns, under the three assumptions of `Policies`:

| Theorem | States |
|---|---|
| `RuleTypeCorrect` | `RuleSpec => []RuleTypeOK` |
| `DryRunCorrect` | `RuleSpec => []DryRunAgrees` |

A network that cannot be parsed is no condition for the engine, whose rule then
matches every client, while the dry run excludes such a rule; the invariant says that
no such rule is in the table or in a request that passed validation. It is the same
order of rules that makes the two agree: both sort by priority and then id. What the
two answer without a rule is compared only for the shipped default: the other settings
are the finding above.

For every set of users and passwords, every number of requests, replicas and starts,
under the assumptions of `Accounts` and `Bootstrap`:

| Theorem | States |
|---|---|
| `BootTypeCorrect` | `BootSpec => []BootTypeOK` |
| `SeedCorrect` | `BootSpec => []SeededOnce` |
| `AccessCorrect` | `BootSpec => OnlyRivalsTakeAccess` |

`UserRequestInv` says what a request knows as long as what it decides on was left
alone (`quiet`): the password a login verified is still the one in the row, and
another admin remains if the request removes one. A commit that takes an admin's
access, or changes the password, ends the quiet of the requests it concerns; for all
other commits the proof shows that they disturb neither. `SeedInv` says that of two
replicas about to add the default rules the second saw the first.

`TypesCorrect`, in this module and in `TrafficProofs`, is about the modules that TLC
runs: `PartsAreIndependent` and `TrafficIsIndependent` show that every behaviour of
`MCSpec` is one of each part, so that the theorems about the parts hold of it.

Only model-checked: every liveness property (`AcceptedIsSettled`,
`ShutdownCompletes`, `EveryClientIsServed`, `TunnelFollowsClient`, `StartupEnds`,
`Converges`, `ExchangesEnd`, `RetentionHolds`, `FeedsAreReleased`), which need
fairness and ENABLED that the prover does not handle. Every invariant and every
action property of the runs is proved.

## 6. Not modelled

Column values, formatting, logging, metrics, certificates and ciphertexts are
data to these models. `PROJECT.json` lists every component with its status. Left out:

* `http1.py`: the text of heads, `parse_authority` and `decode_content`, pure
  functions of one message; `Exchange` takes a message as parsed.
* `packages/core`: `pki`, `SecretBox`, `redaction` and `schemas` are pure functions or
  declarations. What can fail in them is a fault of the action that calls them (an
  authority that cannot be decrypted is the sealed one of `ConfigSync`).
* Body storage: a body is written once under a fresh key and never changed. The
  deletion of bodies is left to the lifecycle of the object store; the local
  store has none, so that its bodies outlive their rows for ever. `get_body` and
  `raw_dump` read one row and one object and report a missing one.
* Statistics, single flows, nodes and health are single reads. The heartbeat
  upserts a row that pages display.
* In `Bootstrap`, which rules an operator adds or deletes: only that the first comes
  and the last goes, since the seed counts no more. `Policies` has the requests. The
  operator's role is treated as the viewer's, since no handler of `users.py` tells
  them apart.
* `delete_ca` reads `is_active` and deletes later: `Authorities` and `ConfigSync` have
  the deletion of a row that was activated in between as an action, and no property
  is about the row that is lost.
* The web console but for the paging of the flow list, deployment manifests but
  for the restart policy, settings, and the legacy prototype, which is not deployed.

Python's memory and scheduling are taken as the language gives them: one event
loop, and no switch between two awaits.

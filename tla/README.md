# A TLA+ model of Labby

Labby is a gateway between MCP clients and many upstream servers, written in
Rust on tokio. It offers their tools through one endpoint, runs JavaScript
("Code Mode") in pooled child processes, and is its own OAuth authorization
server, backed by one Google credential per user that inbound logins and
outbound connections share. This directory holds TLA+ modules translated from
the source, TLC configurations that check them on small instances, and TLAPS
proofs for every instance. Source paths below are relative to the repository.

`PROJECT.json` lists the components, the runs, the source lines each definition
stands for, the hazards of the code, the disagreements found between the code
and its own documents, and the theorems.

## 1. Inventory

| Component | State it keeps | Operations | What is hard about it |
|---|---|---|---|
| Code Mode warm-runner pool (`crates/labby-codemode/src/pool.rs`, `pool/`) | free list of slot indices, a runner per slot, a FIFO semaphore for overflow, executions per runner | checkout, take or spawn, release, recycle, evict, drop of a lease | tasks interleave at every await and may be cancelled there; processes die at any time; slots and permits are returned by destructors |
| Drive loop and runner protocol (`runner_drive.rs`, `runner_drive/`, `runner.rs`, `runner_io.rs`, `protocol.rs`) | pending host calls, two budgets, two deadlines; in the child: the JS runtime, pending promises, a sequence counter | Start, tool and internal calls, inline operations, replies, Done, Error, timeout, kill | a process is reused; two bounded pipes; an answer may arrive after what asked for it is gone |
| OAuth grants and the shared Google credential (`crates/labby-auth/src/token.rs`, `authorize.rs`, `sqlite.rs`, `sqlite/`, `google_refresh.rs`, `upstream/manager.rs`, `upstream/google_store.rs`) | rows of `google_provider_credentials`, `authorization_codes`, `refresh_tokens`; in-memory locks | consent callbacks, code and refresh grants with a claim lease, inbound and outbound refresh, revocation, `/revoke`, cleanup | every SQL statement commits by itself; some paths take the lock and some do not; Google may reject a token while it is replaced; a lease expires under a slow request |
| Authorization server front end (`cimd.rs`, `session.rs`, `state.rs`, `jwt.rs`, ...) | browser sessions, one-time login states, used assertions, key caches | register, authorize, login, verify | single use of states and assertions |
| Upstream OAuth credentials (`crates/labby-auth/src/upstream/`: `manager.rs`, `store.rs`, `refresh.rs`, `cache.rs`; `gateway/oauth_lifecycle.rs`, `api/upstream_oauth.rs`) | per upstream and subject the token row, the registered client and the open states in SQLite; per manager a refresh lock and a record of failures | begin, callback, build a client, check the status, refresh, clear, replace the manager | only some refreshes take the lock, and a reload replaces it; a rotated token whose answer is lost; callbacks repeated by the browser; a restart between any two statements |
| Upstream pool (`crates/labby-gateway/src/upstream/pool/`: `connect*`, `ensure`, `connection`, `lifecycle`, `capability_call`, `entries`, `registration`) | per upstream a catalogue entry, the shared connection and a connect lock; per subject a dedicated connection with a lock in a map of its own; the token of a sweep loop | lazy connect with single flight, call, evict, sweep, reconcile, swap on reload, drain | locks are removed from their maps while they are in use; a connect finishes after the entry was replaced or the pool drained; requests are cancelled at every await |
| Upstream health (`health.rs`, `probe.rs`, `types.rs`) | consecutive failures per capability | record success or failure, heartbeat, reconnect | two layers record one call; a probe races a call and a cleanup |
| Cross-process spawn lock (`spawn_lock.rs`) | a lock file per upstream | acquire, release, break a stale lock | a crash while the lock is held |
| Request relay and cancellation (`relay*.rs`, `http_cancellation.rs`, `tasks.rs`, `notifications.rs`) | relay connections by session and subject, task routes that keep one, requests in flight by id | relay a call, register and use a task, progress, cancel | a connection is shared by key and moved by key; a cancel racing the answer |
| Catalogue aggregation (`tools*.rs`, `resources*.rs`, `prompts*.rs`, `cache_repair.rs`) | cached catalogues | list, read, call, repair | a stale catalogue used for a call |
| Gateway manager (`gateway/manager.rs`, `gateway/manager/`, `gateway/config.rs`, `gateway/runtime.rs`; the file in `crates/labby/src/dispatch/gateway/config_store.rs`) | one configuration three times: the file, memory, the catalogue of the served pool; two mutexes | add, update, remove, approve an import, settings, virtual servers, reload, lazy start of a pool | the three copies change at different awaits; writes outlive cancelled requests; operators edit the file |
| Journal and usage store (`codemode_journal.rs`, `usage.rs`) | append-only SQLite tables | record, query | entries lost at shutdown |
| Code Mode host, workspace and snippets; `labby` binary; OpenAPI upstreams; shared crates; web UI | files, configuration | file I/O, text processing, routing | little state of their own |

How they interact: `run_via_pool` checks a runner out of the pool, hands it to
the drive loop and releases or evicts it by the loop's verdict, so `RunnerPool`
sees an execution as "driving" and "answered", and `RunnerProtocol` opens that
box for one process. The drive loop dispatches host calls to the gateway
manager and the upstream pool. The gateway manager builds, swaps and drains
upstream pools: `GatewayManager` sees a pool as a catalogue that is live,
draining or drained, and `UpstreamPool` opens it for one upstream, with the swap
and the drain as the events that end it. `ConnectionCache` is the part of a pool
that `UpstreamPool` leaves out, the dedicated connections; they meet in the sweep
loop, which keeps a pool alive, and in the drain. The upstream pool obtains
credentials from `upstream/manager.rs`, which for Google upstreams is the same row that the
token endpoint refreshes; both use the process-wide locks of
`google_refresh.rs`, while the consent callbacks use none. For every other
upstream the credential is a row of its own, which `UpstreamOauth` models; a reload
of `GatewayManager` is its `Replace`.

What makes each modelled part correct:

- *Pool*: a slot and a process belong to one execution at a time; a runner whose
  end nobody verified is never offered again; permits are neither lost nor
  created; processes stay within `size + max_overflow`; a queued caller is
  served.
- *Protocol*: an execution's answer, host calls and replies are its own although
  processes are reused; budgets and the settlement watch are sound; every
  execution ends.
- *Grants and credential*: codes and refresh tokens are used once; a revoked
  token never returns; a rotation needs a credential; a rejected refresh deletes
  only what was rejected.
- *Upstream credentials*: a code is presented once and a used state is gone; the
  stored client is the one the tokens belong to; a refresh under the lock presents
  the latest token; a failure that was recorded keeps builds away from the server.
- *Connection caches*: one connect per key at a time; a connection is used by the
  caller whose credential it carries; the caches keep their caps; an open
  connection has one owner that will close it; a task stays on its connection.
- *Upstream pool*: the circuit opens after the threshold and not before; connects
  are serialized; a re-probe closes what failed; a superseded pool leaves no
  upstream behind.
- *Gateway manager*: an acknowledged change is not lost from the file, the memory
  or the served pool; exactly one pool serves; every operation ends.

## 2. Modules

| Module | Models | Extended by |
|---|---|---|
| `RunnerPool` | the warm-runner pool | `MCRunnerPool`, `RunnerPoolProofs` |
| `RunnerProtocol` | drive loop, pipes, and one runner process over several executions | `MCRunnerProtocol`, `RunnerProtocolProofs` |
| `CredentialBroker` | grants and the shared credential of one Google subject | `MCCredentialBroker`, `CredentialBrokerProofs` |
| `GrantStore` | abstract: what the store of codes and refresh tokens promises | instantiated by `CredentialBroker`, extended by `GrantStoreProofs` |
| `UpstreamOauth` | the OAuth credential of one upstream and subject: authorization, callback, refresh, cooldown, deletion, replaced managers, restarts | `MCUpstreamOauth`, `UpstreamOauthProofs` |
| `KeyedCache` | abstract: what the caches of dedicated connections promise | instantiated by `ConnectionCache` |
| `ConnectionCache` | dedicated connections of one upstream, by subject and by session, with task routes, sweep and drain | `MCConnectionCache`, `ConnectionCacheProofs` |
| `UpstreamPool` | one upstream in one pool: breaker, shared connection, connect lock, cleanup, swap, drain | `MCUpstreamPool`, `UpstreamPoolProofs` |
| `GatewayManager` | configuration file, memory and served pool under mutations, reloads and lazy start | `MCGatewayManager`, `GatewayManagerProofs` |

### RunnerPool

`free_slots`, `slots`, `executions` and `permits` are the fields of `RunnerPool`
and `PooledRunner`; `waiters` is the queue inside tokio's semaphore; `pc`,
`index` and `runner` are the locals of each caller's future and the fields of
its `RunnerLease`. The code between two awaits is one action: `Checkout` is the
first poll of `checkout`; `TakeParked`, `SpawnPooled` and `SpawnPooledFails` are
`take_or_spawn_slot`; `SpawnOverflow` and `GiveUpGrant` follow the semaphore
grant; `Release` and `Park` are the two halves of `release`, cut at the slot
lock; `Evict`, `DropLease`, `CancelWait` and `CancelClaim` are the ways a lease
or a checkout ends early; `RunnerDies` is a crash. The history variable
`unverified` holds the processes that were given an execution whose `Done` or
`Error` was not read; no action tests it.

`CancelClaim` is in the code as it is: a checkout cancelled while it awaits
`slots[index].lock()` (`pool.rs:189`) holds the popped index in a local only,
and nothing returns it. The lock is uncontended, so the await yields only when
the task's cooperative budget is spent; the effect is one slot less for the life
of the pool. All other properties are checked and proved with slots lost so.

### RunnerProtocol

The drive loop is `dphase`, `pending`, `calls`, `internal`, `settling`, `reply`;
the child is `rphase`, `rops` (the unsettled promises), `rseq`; `served` is the
pool's execution count, on which the runner is recycled. JavaScript is chosen
step by step: at any point the code starts an operation (`RunnerEmits`), waits
(`RunnerAwaits`), or settles (`RunnerSettles`). `awaits`, chosen once, restricts
it to code that settles only after the operations it started; `Habits` says which
of the two an instance has, and the properties that need the restriction have it
as a premise.

Lines carry the execution they belong to as a history field that no action
tests, and `result[e].first` records whether `e` was the first execution on its
process. Abstractions:

- An *inline* operation stands for the requests the loop answers before it reads
  on (artifacts, snippets, the two round trips of a step, which reuse one
  sequence number).
- `RunnerSettles("bad")` is an oversized or unparsable line.
- `PipeCap` counts lines where the pipe counts bytes.
- Parameters, results, traces and stderr are left out.
- Running without the pool is the case of one execution.

### CredentialBroker and GrantStore

A request is one HTTP request or outbound connection. Each SQL statement or
transaction, each answer of Google and each lock acquisition is one step, and
anything may run between two steps. `seen` is the row a request read and still
uses; `tried` is the refresh token it last presented; `ReadTimes` lets the time a
statement compares with be older than the statement, since `now_unix()` is read
before the wait for a connection. `Cancel` drops the request's lock guard.
`Detach`, `LateSave` and `LateDelete` model `with_conn`: the statement runs on a
blocking thread that cancellation of the request does not stop, so it may commit
after the lock was released (`LateWrites`; at places that hold no lock this is
an ordinary step followed by `Cancel`). `issued` and `revoked` are history.

One subject is modelled, as rows and locks are keyed by it. Google is external:
it accepts exactly the refresh tokens in `valid`, and its refresh answers name
no scope. The reads an outbound connection makes before its refresh are one
`Load`. A cooldown after a failed refresh is one of the failures of
`CallGoogle`. `Rotate` uses one read time for the check and for the new expiry.

`GrantStore` is the promise without rows, claims, leases, clocks or the
credential: a code is taken by one request, which exchanges it for one token or
abandons it; a token is exchanged in the step that removes it; and what left the
store never returns. `ImplementsGrantStore` instantiates it with `Stored` (the
rows of the two tables), `Taken` (the codes of requests between
redeeming and inserting) and `Heirs` (which token was issued for which grant).

### UpstreamOauth

`row`, `reg` and `states` are the three SQLite tables for one upstream and
subject; `manager`, `lock` and `failed` are the managers ever made of the upstream,
their refresh locks and their `RefreshFailureCache`; the other variables are the
locals of the requests. `Begin` to `SaveState` are `begin_authorization`,
`FindOwner` to `Refused` the callback route, `Start` to `Fail` the three functions
that refresh (`build_auth_client`, `build_auth_client_with`, which has the same
steps, and `refresh_auth_client`), `ClearFailures` to `DeleteRegistration`
`clear_credentials`. A statement of SQLite and a call of the server is one step.
`DropWorker`, `LateSave`, `DropCallback` and `BeginFails` are requests that end at
an await, by the 30 s of `TimeoutLayer` or a disconnect; `Restart` keeps the tables
and loses the rest. `UseClient` is a client that was built and asks for its token
before a request, outside the lock; one such refresh is followed per client.

The age of an access token has three values, because the code tells 300 s
(`upstream_oauth_status`) from 30 s (`refresh_due` and the library's own buffer).
The authorization server is external: it accepts a code once, from the client the
URL named, and the latest refresh token of a grant (`live`), from its client. A
token carries its grant, its client and its generation as history that only the
server tests. `unsure` is history too: the grants revoked, refreshed outside the
lock of the present manager, or rotated by a call whose tokens may not have been
stored. Nothing in the program can know of these, and `LockedRefreshLive` exempts
them by name.

### ConnectionCache and KeyedCache

`cache`, `locks` and `route` are the maps `subject_connections` and
`relay_connections`, their two lock maps, and `task_routes`; `lockOf` is the
clone of a lock's `Arc` in a request, so that `StrongCount` is what
`Arc::strong_count` returns; `slot` is the token of the sweep loop and `sweeper`
the loops that run. A connection and a lock are named by the request that made
them. `FastHit`, `FastMiss`, `ResolveLock`, `RecheckHit`, `RecheckMiss`,
`Connected`, `ConnectFails` and `Finish` are the sections of
`acquire_or_connect_subject` and `acquire_or_connect_relay` between two awaits;
the two functions differ in what makes an entry usable and in how the lock entry
is dropped, and share the actions otherwise. `CallTask` is an answer that creates a
task; `TakeForTask` and `RegisterTask` are the two ends of `register_task_response`,
which takes the connection out of the cache and, some awaits later, puts it into the
task's route. In between only the request has it (`taken`), and a cancelled request
closes it. `SweepConnections` and
`SweepLocks` are the two phases of a sweep, `DrainToken` and `DrainConnections`
those of `drain_for_swap` that concern the caches. `SweepPanics` is the `expect`
in `ensure_subject_sweep_task` when a drain takes the token between its store and
its read. `Cancel` drops a request at any await.

`KeyedCache` is the promise without locks or lock maps: per key at most one
request is opening a connection, it ends in a stored connection or in none, a
stored one is never overwritten, and the caps hold. `ImplementsKeyedCache`
instantiates it with the keys that have an entry and, per key, the requests in
phase `connect`.

### UpstreamPool

One upstream in one pool. `listed`, `tools`, `failures` are its catalogue entry
with the breaker of the tools capability; `conn` is its entry in `connections`;
`lock` the one in `lazy_connect_locks`, where a new epoch is a new mutex. The
actions follow `ensure_tools_for_upstream`, `reprobe_tools_for_upstream_as` and
`reprobe_upstream` (`ConnectBegin` to `RecordConnected`), a tool call with the
records its surface adds (`CallBegin` to `Report`), the runtime cleanup with the
reconciliation of the upstream (`CleanupKills`, `Reconcile*`), a subject-scoped
request as far as it arms the sweep loop, and the swap and drain. The pool is
dropped when nobody holds it: no task in an operation, no sweep loop.
`failures` saturates at `Threshold`, above which the code only compares.
`streak` and `reported` observe the upstream and the MCP surface; no action tests
them. Prompts and resources have the same counters and are left out.

### GatewayManager

`file`, `memory`, `pools` and `runtime` are `config.toml`,
`GatewayManager.config` and the pools ever published with the index of the one
that serves. A configuration says of each name a specification, `Off`, `Absent`, or
two entries (`Twice`), whether the pool settings changed, and whether it has a
virtual server of an unregistered service (`stale`). `Begin` copies the memory under
`config_mutation` and edits it: adding, updating and removing upstreams, approving an
import, removing a virtual server, changing settings, and the OAuth callback, which
gives an upstream an `oauth` section and persists it without a reload; `Write` and `WriteFails` are the blocking write,
which cancellation does not stop and which may fail after it replaced the file;
`Load` to `Install` are `reload_with_origin_unlocked` with its three ways (the
pool is kept, extended in place, or rebuilt and swapped). Extending is two steps,
`ReconcileInPlace` and `Extend`, between which requests may seed the pool or publish
another. `ReadConfig` to
`SeedPool` are a request that needs a pool (`ensure_lazy_upstream_pool`);
`Drain` is the task that owns a superseded pool; `EditFile` is an operator.
`acked`, `claim`, `late`, `raced` and `lag` are history: what was acknowledged of
a name and not touched since, and the windows the code leaves open. They are
named in the properties rather than removed from the model:

- `late`: the names which the write of a cancelled request changed after its lock was
  released, until the next operation on the name;
- `raced`: lazy start and reload, under different locks, each publish a pool and
  hide the other's;
- `lag`: the names the serving pool may be behind on, because a reload published
  the pool before it installed the configuration and was cancelled or overtaken
  between, because a request seeded from a configuration read earlier, because a
  quarantine hid the change, because the OAuth callback installed a section without
  a reload, or because the name had two entries.

An approved import is appended without a look at the names there are. If the name is
present it then has two entries, the second of them disabled. The catalogue is seeded
from the first one and the comparison sees the last one (`Served`, `Fingerprint`),
every reload fails in `validate_upstreams` (`Valid`) until one of them is removed, and
the reload after that does not see what became of the first. A third entry of a name
is left out: `Eligible` refuses a second approval of a name that has two.

## 3. Runs

| Run | Configuration | Shows |
|---|---|---|
| `pool` | `RunnerPool.cfg` | all safety properties of the pool, and `WaiterServed` under fairness |
| `protocol` | `RunnerProtocol.cfg` | with any code: `SettlementSound`, the budgets (in `TypeOK`), and that the first execution on a process gets its own answer; with code that awaits its operations: `AwaitedOwnAnswer` for every execution, `OwnCalls`, `ReleasedIdle`, `OwnReplies`, `ExecutionEnds` |
| `protocol_stale_reply` | `RunnerProtocolStaleReply.cfg` | violation of `OwnAnswer` with any code |
| `broker_grants` | `BrokerGrants.cfg` | `RevokedStaysRevoked`, `RotationBacked`, `InboundDeletesWhatFailed`, and the refinement of `GrantStore`, which includes `SingleUse`, with redemptions, refreshes, revocations, leases and late statements, and with outbound refreshes and upstream consents |
| `broker_stale_delete` | `BrokerStaleDelete.cfg` | violation of `DeletesWhatFailed` by the outbound path |
| `cache` | `ConnectionCache.cfg` | `IdentityKept`, `CacheBound`, `OneOwner`, and the refinement of `KeyedCache`, which includes `SingleFlight` |
| `cache_task_route` | `ConnectionCacheTaskRoute.cfg` | violation of `TaskOnItsConnection` |
| `upstream` | `UpstreamPool.cfg` | `PoolCountsOnce`, `ConnectsBounded`, `TakesWhatFailed`, and `DrainedDiesOrSwept` under fairness |
| `upstream_breaker` | `UpstreamPoolBreaker.cfg` | violation of `CircuitNeedsThreshold` |
| `gateway` | `GatewayManager.cfg` | `AckedKept`, `AckedServed`, `OnePoolServes`, and `OperationsEnd` under fairness |
| `gateway_quarantine` | `GatewayQuarantine.cfg` | violation of `RemovedLeavesPool` |
| `oauth` | `UpstreamOauth.cfg` | `ExchangeOnce`, `ReplayForeclosed`, `StoredClientOwns`, `LockedRefreshLive`, `CooldownQuiet` |

### Bounds

- `pool`: four callers for one slot and one overflow permit (`MaxOverflow = 0`
  exercises the clamp), so a slot, a permit and a queue of two exist at once,
  and three process identities against a bound of two. Two executions recycle a
  runner, so both sides of the threshold occur. More slots are left to the
  proofs, which hold for every size.
- `protocol`: three executions are needed for one to leave something behind, the
  next to take it, and the third to run beside the code of the second. Three
  operations exceed both budgets of one; a pipe of two lines fills. The recycle
  threshold of three lets one process serve two executions and still recycle.
- `broker_*`: two of each kind that race, and one of each kind that disturbs
  them. A lease of one tick expires while its holder is under way and a clock of
  three ticks lets a code, a lease and a token expire in turn; `MaxDelay = 1`
  makes a read time older than the lease. `MaxMinted` bounds only Google's
  refresh tokens. The constraint `Races` of `broker_grants` keeps three
  overlapping parts of the state space: all races between grants over the whole
  clock with one Google token and one revocation, of the credential or of a client's
  token; all races for the shared credential with one grant of each kind and two
  Google tokens; and, again with one grant of each kind, those in which the clock
  runs while a refresh, a revoker and an upstream consent are under way, without late
  statements. Requests that start with nothing issued simply do not
  start, so every order of the requests is covered.
- `cache`: three requests, of which two share a key and the third shares the cache
  but not the key, so a cap of one evicts; one fault of the environment (expiry,
  a closed transport, reconciliation) at any moment. The casts cover one subject
  twice, one session with other capabilities, and one session with and without a
  subject. `cache_task_route` needs three requests of one key.
- `upstream`: two tasks, each running operations of its cast again and again, and
  four connections, more than can be held at once. A threshold of two tells "one
  more" from "at once"; one cleanup splits the connect lock once.
- `gateway`: three operations, two names, two specifications and one edit by
  hand. The casts pair mutations of the same name, of different names, a mutation
  with a reload, requests with the lazy start, the approval of a name that is present
  with its removal, and an OAuth callback with an update of its upstream; both a pool
  at start and none;
  both a configuration with a stale virtual server and one without. Operations
  run once, so states in which all have ended are terminal and deadlock is not
  checked there; `OperationsEnd` says nothing else stops.
- `oauth`: the casts choose which requests run beside each other: up to two
  authorizations with two callbacks and a deletion, a callback beside a build and a
  status check, two builds and a status check. The larger casts have one manager,
  the smaller ones (two builds, a build and a check, a callback and a build, a
  deletion) two, of the same or of different modes. Each request runs once and the
  credential of an earlier process may exist at any age, so all requests may end
  and deadlock is not checked. Restarts, revocations and expiry are not bounded.

Symmetry (redeemers, refreshers, flows, callbacks, builders, the two requests of a cast with one caller) is used
in runs without liveness only; the action properties are checked on every step and do not tell the symmetric
requests apart.

### Fairness

- Pool: a runnable task is polled, `release` runs to its end, and an execution
  ends because every wait of the drive loop after Start has a deadline, after
  which the lease is evicted. Nothing is assumed of new checkouts,
  cancellations, crashes or of a parked runner.
- Protocol: the drive task is polled and its timers fire. Nothing is assumed of
  the JavaScript, which may spin for ever, of host calls, or of cancellation.
  `ExecutionEnds` thus rests on the deadline. It has code that awaits its
  operations as its premise, because the write of Start has no deadline
  (`runner_drive.rs:315`): a reused process that still runs earlier code, blocked
  on a full stdout, never reads Start.
- Upstream pool: a task that has begun an operation is polled until the operation
  ends, since each of its waits has a deadline or is cancelled, and the spawned
  drain runs. Nothing is assumed of new operations, of swaps or of the upstream.
- Gateway manager: a task that has begun is polled, the blocking write returns,
  and the spawned drain runs. A mutex of tokio is fair, so a waiter gets it;
  weak fairness of each operation is enough here because each runs once.

### Where the code and its documents disagree

Each is a violation run and a finding in `PROJECT.json`, with the quotation.

1. *A stale reply answers the next execution.* Code that returns without
   awaiting an inline operation leaves that operation's reply to arrive at a
   parked runner, which complains with an Error line; the next execution on the
   process takes it for its own. If the trace continues, the drive loop is one
   execution ahead of the process and dispatches the host calls of one
   execution for the caller of the next.
2. *The outbound path deletes a newer credential.* After a rejection it reads
   the row again and deletes the generation found then.
3. *A task is kept on another connection than its own.* The route takes the
   connection its key has when the task is registered; another request of the
   session may have replaced it since the answer.
4. *One failure counts twice.* The MCP surface records every error of a pooled
   call, which the pool has already judged: one failure may open a circuit with a
   threshold of two, and a valid error answer counts as a failure.
5. *A quarantine hides a removal.* Reload stores the migrated configuration in
   memory before it compares, finds nothing changed and keeps a pool that still
   serves the removed upstream.

Four windows of the broker are in the model and listed as hazards without a run
of their own: a refresh stores the scopes it read before it called Google; a
refresh token is inserted after the credential was checked in another statement;
a lock is chosen before the row exists that decides it; and generations restart
at 1 after a delete, so a failure that observed the old generation 1 may delete
the new one when two locks are in use. `InboundDeletesWhatFailed` therefore has
the stored grant as its premise: the last window is closed while the refresh
token that was presented is stored, since deleting the credential deletes it too,
and open once that token has expired and been cleaned up. In the shortest such
behaviour a revoker then deletes the credential under the lock of a subject
without one, and a consent stores a new credential, again of generation 1, before
the refresh invalidates generation 1.

Five of the upstream credential are in `UpstreamOauth` and stated with its hazards:
two refreshes of one grant can be under way at once, because a client in use takes
no lock and a reload replaces the lock (`refresh.rs:3-7` says the locks prevent it);
a callback uses the client registered last, although `sqlite.rs:704-708` describes a
`client_id` per state, which nothing reads; a status check that refreshes
successfully leaves the recorded failure (`refresh.rs:81-84`); a deletion takes
no lock, so that a refresh under way brings the credential back; and neither does a
callback, so that a refresh under way overwrites the tokens of a new consent with
those of the old one.

## 4. Proofs

`RunnerPoolProofs` proves for every set of callers and processes (the callers
finite), every size, overflow and recycle threshold (`PoolConfigAssumption`,
`FiniteCallersAssumption`): `PoolTypeOK`, `PoolSlotExclusive`,
`PoolRunnerExclusive`, `PoolParkedVerified`, `PoolPermitsConserved` and
`PoolProcessBound`. The inductive invariant `PoolInv` adds to the properties
what makes them inductive:

- `PcShape`: which program counters hold an index and a runner;
- `LeasedSlotEmpty`: the slot of a lease is empty, without which `Park` could
  overwrite a runner and leave a process nobody holds;
- `QueueShape`: the queue holds waiting callers, each once, so a permit handed
  to the head of the queue is counted once;
- `AnsweredVerified`: a runner on its way back is verified;
- `NoOrphan`: a live process is in a slot or a lease.

The bound on processes follows: every live process has a holder, slots and
leases with an index are at most `Size`, those without hold a permit, and
permits are conserved.

`RunnerProtocolProofs` proves every safety property of the run, `ProtocolTypes`
(with the budgets), `ProtocolSettlementSound`, `ProtocolOwnCalls`,
`ProtocolReleasedIdle`, `ProtocolOwnReplies` and `ProtocolOwnAnswer` (which is
`AwaitedOwnAnswer`), for any number of executions and operations and any budgets,
pipe capacity and recycle threshold. `ProtocolInv` is:

- `Counted`: the calls in flight are at most those counted against the budgets,
  and none is in flight between executions;
- `Watch`: `SettlementSound`, and that nothing else is in flight while the reply
  that arms the settlement watch is written;
- `InStep`, for code that awaits its operations: loop and process are together at
  rest, handed a Start that is not yet read, running one execution, or at its
  answer. While they run, `Outstanding` says that every line in either pipe and
  every call in flight belongs to this execution and to an operation its code
  still awaits, and `OnePlace` that each operation is in one place only (asked, in
  flight, being answered, answered). Without `OnePlace` a second reply could
  follow the first and arrive after the execution had settled, which is what
  `protocol_stale_reply` shows of code that does not await;
- `FirstClean`, for any code: on a fresh process the lines up to the first answer
  are of the execution that runs. It says nothing after the answer, and nothing of
  a reused process.

`CredentialBrokerProofs` proves `BrokerTypes`, `BrokerSingleUse`,
`BrokerRevokedStaysRevoked`, `BrokerRotationBacked`,
`BrokerInboundDeletesWhatFailed`, and that the broker implements `GrantStore`
(`BrokerImplementsGrantStore`), for any number of requests of each kind, any
lifetimes, lease and delay, with late statements. `BrokerInv` is `Sorts` (types),
`Places` (which kind of request can be where), `Presented` (what is presented
was issued, and who issued is done), `Unspent` (a live row was not redeemed),
the two invariants themselves, and `Backed`: a refresh about to rotate that still
holds its claim has a credential, because an invalidation deletes the claimed
row in the same transaction. The proof needs none of the locks: single use rests
on the transactions alone.

`BrokerInboundDeletesWhatFailed` adds `Held` (a request that calls Google has a
refresh token, and an attempt is left), `PresentedWhatSeen` (a rejected refresh
presented the token of the row it read) and `Observed`: a refresh whose grant is
stored has read the stored generation or an older one, and of the stored
generation the stored token. `GoneStaysGone` carries it over a deletion: a new
credential starts again at generation 1, but then the grant is gone for good. The
property once exempted only revoked grants; `Observed` is not inductive with that
premise, and `broker_grants` has a behaviour of 24 states against it, the last of
the four windows above, which its earlier bounds left out. No lock is used in this proof either.

The refinement maps each statement to a step of the store or to a stutter; it
rests on `Presented` and `Unspent`, without which an insertion could issue a token
a second time. `GrantStoreProofs` proves of every such store `StoreOneHeir`,
`StoreRevokedFinal` and `StoreGoneForGood`; the last is carried back through the
refinement as `BrokerGoneForGood`.

`ConnectionCacheProofs` proves for any finite set of requests, any sessions,
subjects, casts and caps: `TypesHold`, `SingleFlightHolds`, `IdentityHolds`,
`CacheBoundHolds`, `OneOwnerHolds`, and `CacheRefines`, that the caches implement
`KeyedCache`. `GateInv` is `Typed`; `Names`, that a connection is cached and taken,
and a lock mapped, under the key of the request that made it; and `Gate`: a request
that waits for its lock or has it holds a clone of the lock the map has under its
key, no two requests have the mutex of one lock, and nothing is cached under a key
for which a connect is under way. The heart of the proof is that `StrongCount`
forbids pruning a lock some request has cloned. `OneOwner` needs `Owned` in
addition: an open connection has an owner, nothing is named after a request that has
not connected (`Free`), and no two of the entries, the requests between
`TakeForTask` and `RegisterTask`, and the routes have one connection
(`OwnersDiffer`). The refinement uses `Gate` for `Open` (nobody else opens the key)
and `Store` (nothing is overwritten), and the counting of `CacheBound` for the cap.

`UpstreamPoolProofs` proves `UpstreamPoolTypes`, `PoolCountsOnceHolds`,
`ConnectsBoundedHolds`, `TakesWhatFailedHolds`, and the two invariants behind the
drain, `LiveConnectionsOwned` (a live connection is in the map, in a task or in
the drain) and `DroppedPoolEmpty` (a pool that was dropped has none), for any
finite set of tasks and any threshold, with enough names for the connections that
can be held at once. `Account` says
the pool's count never runs ahead of the failed contacts. `LockInv` is `Shape`,
`Gate` (the tasks in the critical section have locks of different epochs, of which
there are `epoch + 1`) and `Hands` (before the first cleanup, what a re-probe is
about to remove is what it probed, or nothing). `Forgotten` bounds the epochs: those
past, with the cleanups still on their way to the lock, are at most the cleanups
begun, a cancelled one included. `Custody` says who has a connection: live ones are
owned, only a re-probe and a call clone a peer, only the drain holds what it took,
and a dropped pool has an empty map and idle tasks. With it `NameLeft` counts that
a connect always finds a name, so the bound on connections excludes no behaviour.

`GatewayManagerProofs` proves `TypesHold`, `AckedKeptHolds`, `AckedServedHolds`
and `OnePoolServesHolds` for any tasks, names, specifications, casts and edits.
`GatewayInv` is `Typed`; `Exclusive` (a mutation or reload in progress has
`config_mutation`, a request about to publish a pool has `lazy_pool_init`);
`Kept` (what was acknowledged is in memory, in the file and in the copy the lock
holder works on, and what the holder would acknowledge is in its copy and, once
written, in the file, `Agrees`, for every name that is not in `late`); and `Alone` (`OnePoolServes`, and whatever was published
under a request that starts a pool came from a reload). `AckedServed` needs
`InStep` on top: between reloads the serving pool has the upstreams of the memory,
and between a reload's change of the pool and its install (`Ahead`) those of the
configuration it is about to install, except for the names in `lag`; and a reload
between the two steps of an extension has the serving pool in hand, or another was
published lazily, which puts every name into `lag`. Approvals and the removal of a
virtual server install without a reload and change nothing a pool serves
(`InstallsServeSame`), which is why only the OAuth callback adds to `lag`.

`UpstreamOauthProofs` proves every property of the run, `TypesHold`,
`ExchangeOnceHolds`, `ReplayForeclosedHolds`, `StoredClientOwnsHolds`,
`LockedRefreshLiveHolds` and `CooldownQuietHolds`, for any requests, casts and
number of managers (`OauthAssumption`). `OauthInv` is `Typed`, the types and that a
request has the locals its place needs; `LocksHeld`, that a request between `Lock`
and its end has the lock of its manager; `CooldownQuiet`, which is inductive with
it, because only a holder of the lock records a failure; `Opened`, that states,
callbacks and presented codes belong to authorizations whose URL was handed out;
`TakenOnce`, that a state exists only while its code was not presented, and that of
the callbacks of one authorization at most one is between taking the state and
storing the tokens;
`TokensOwned`, that tokens in the row and in the hands of requests are stored under
their own client; `Unissued`, that no token of a grant is in the row or
in a request before a callback stored it; and
`Fresh`, which carries `LockedRefreshLive`: for a grant that is not `unsure`, what
the row has of it is the latest generation, or the one request that has a newer one
holds the lock of the present manager and is about to store it. The last part needs
all the others: it says why neither a callback nor a deletion nor a late statement,
which take no lock, can put an older token of the same grant into the row.

Every invariant and action property of the passing runs is proved. Only
model-checked are the four liveness properties (`WaiterServed`, `ExecutionEnds`,
`DrainedDiesOrSwept`, `OperationsEnd`), because fairness is out of the prover's
reach, and the five violations, which are counterexamples.

## 5. Not modelled

Cryptography, URL and scope syntax, HTTP and JSON encoding, file I/O of the
workspace, snippets and artifacts, source transformation, the web UI and the
command line: they keep no shared state whose order of changes matters. They are
most of the repository's lines; the modules cover the parts that hold shared
state across awaits. Of the modelled parts these are left out: renames, protected
routes, views and enrichment in the gateway manager; progress, elicitation and
cancellation of a relayed request; the counters of prompts and resources, which
repeat those of tools; the transports' handshakes, which are one step that
succeeds or fails; client registration, browser sessions and machine clients in
the authorization server. The signal sent to the process group of a reaped child
(`pool/runner_handle.rs:322`) and the descendants of a child whose shutdown was
cancelled (`connection.rs:139`) would need a model of process identifiers and of
processes that outlive their parents.

## 6. Plan

In this order:

1. `SpawnLock`: the lock file across gateway processes that crash.
2. `Relay`: request ids and cancellation; every request has one outcome.
3. `LoginState`: browser sessions, one-time states, assertion replay and the
   public OAuth relay store.
4. `Journal`: the journal and usage stores with shutdown.
5. An abstract specification of the pool: a bounded set of idle runners, from
   which a caller takes one or starts its own, that `RunnerPool` implements.

Theorems worth proving next: that refinement, in `RunnerPoolProofs`; and, for each
module of the list above, its invariants along with the module.

# A TLA+ model of Redline

Redline is a gateway that ingests open-weight models from an upstream hub, places
them as Nomad allocations on tenants' GPUs and serves inference over them. State
lives in Postgres (rows), Redis (queues, counters, GPU bindings), an object store
(artifacts), Nomad (jobs) and the gateway's and the nodes' memory; goroutines change it one call at a
time, and most of what can go wrong happens between two of those calls. This
directory models those protocols, checks them with TLC on small instances and
proves what matters most with TLAPS for instances of any size.

Contents: [reading conventions](#conventions) · [inventory](#inventory) ·
[modules](#modules) · [runs](#runs) · [what the runs found](#findings) ·
[proofs](#proofs) · [not modelled](#not-modelled) · [plan](#plan).

Run from this directory:

    tlc -workers 2 -config JobQueue_all.cfg MCJobQueue
    tlapm JobQueueProofs.tla

`PROJECT.json` lists every component, the source lines each definition models,
the runs, the mutants of the code that each property rejects, and the hazards.

## Conventions

* **A step is a call.** A Lua script or an SQL statement is one atomic action. A Go
  function that makes several calls is one action per call, with its locals in a
  record (`worker[w]`, `run[j]`, `streamer`, `call[d]`), so that any other actor may
  act in between. Code between two calls is part of the action it leads to.
* **A failing call may have been executed.** Every call to Redis, Postgres or the
  object store can report an error with or without its effect (a lost reply); both
  outcomes are in the model, bounded by `MaxFaults` / `MaxTrouble` / `MaxTroubles`.
* **A Redis command may run twice.** The client is built with `MaxRetries` (3 by
  default, `config.go:82`, `redisclient/client.go:38`) and sends a command again whose
  reply does not come. Where the second run is not harmless it is an action of its own
  (`EnqueueResend`, `DequeueResend`, `SettleResend`, `ReapResend`, `CompleteZeroResend`,
  and the retries of `Admission`).
* **Time is what the code compares.** A deadline is ahead or past, an allocation is
  fresh or idle. Only `Admission` and `TelemetryRetention`, whose code compares
  timestamps with one another, have a clock.
* **Data is what the properties tell apart.** Ids, commits and payloads are model
  values; an artifact's bytes are intact or not.
* **Mutants.** Beside a definition there may be variants introduced by `\* Mutant:`.
  They are what a plausible bug in that code would be; nothing uses them except the
  `mutants` of `PROJECT.json`, which show that each property would notice.
* **What goes wrong is recorded, not assumed away.** Where a property cannot hold of
  one job, device, deployment or key to which something particular happened, a history
  variable names what happened and to which (`astray`, `mishap`, `racing`, `cause`,
  `forced`, `overlap`), the property excuses exactly that one, and everything else is
  still held to it. [Findings](#findings) says what befalls the excused ones. The
  constants `Actors`, `Replace` and `QuickStop` of `Deployment` choose who runs and what
  Nomad does; every run sets the last two, and the theorems hold for all values.
* **History variables** (`acked`, `family`, `barred`, `taken`, `struck`, ...) record what
  happened for a property's sake; no guard of the code's actions reads them.

## Inventory

Paths are below `src/internal/`.

| Component | State | Operations | Talks to | What makes it correct |
|---|---|---|---|---|
| Durable queue `queue/queue.go`, `ops.go` | Redis lists pending, processing, deadletter; zset visibility; a hash per job | Enqueue, Dequeue, Ack, Nack, Reap | worker pool, API handlers, watchdog | nothing lost, one holder, bounded attempts, settled in the end |
| Worker pool `queue/workerpool.go` | goroutines and the job each holds | poll, handle, ack or nack, exit | queue, ingestion handler | survives bad jobs, shutdown leaves no job unreachable |
| GPU binding `scheduler/gpubinding.go` | Redis hash per device | Bind, Release, ZeroDevice, CompleteZero | scheduler, node agent | one tenant per device, no data left between tenants |
| Deployments `db/deployments.go`, `scheduler/state.go` | rows: state, allocation id | Create, UpdateState, SetAllocationID, Terminate | all of the below | only legal moves; terminal states are final |
| Dispatch `api/deployments.go`, `scheduler/degraded.go`, `nomadclient/idempotent.go` | degraded flag, retry queue | Dispatch, SubmitJobIdempotent | Nomad, queue | an accepted deployment is registered or recorded for a retry |
| Status streamer `scheduler/statusstream.go` | the event in hand | handleEvent | Nomad events, rows | records follow allocations |
| Idle reaper `scheduler/idle.go`, `reaper.go` | last request per allocation | Touch, Forget, Reap | Nomad, rows | idle deployments drain and end |
| Orphan reconciler `scheduler/orphan.go` | – | Reconcile | Nomad, rows | stops what has no active record, spares the rest |
| Suspension `policy/suspension.go` | users, keys, rows | Suspend | Nomad, rows | every live workload is stopped or reported |
| Ingestion `api/ingestions.go`, `ingest/orchestrator.go`, `app/app.go` | ingestion_jobs, models | create, run, redeliver | queue, upstream hub | rows tell the truth; one model per commit; terminal in the end |
| Artifact transfer `ingest/pipeline.go`, `retrying_download.go`, `cache/upload.go`, `cache/client.go` | objects, open multipart uploads | download, upload parts, verify, quarantine, retry | upstream, object store | success means the intact artifact is live |
| Placement `scheduler/binpacking.go`, `quant/placement.go`, `retry.go`, `warmpool.go`, `failures.go`, `oom_recovery.go` | VRAM ceilings | SelectNode, SelectPlacement, Decide, NextDelay | scheduler | chosen node fits best; retries are bounded, back-off saturates |
| Rate limiting `ratelimit` | zset per key | Allow | Redis | at most limit per window; a client that waits as told is admitted, up to the header's rounding |
| Abuse escalation `policy/abuse.go`, `escalation.go`, `middleware.go` | violation counter, rate reduction | Inspect, RecordViolation, Escalate | Redis, suspension | tiers follow the violations of the window |
| Chat requests `api/handler.go`, `inference` | handler, producer and watcher goroutines; the backend's registry by request id | stream, cancel | engine, watchdog | every goroutine ends; a finished-looking stream is whole |
| Stuck requests `resilience` | map of in-flight requests by id | Start, Touch, Forget, Sweep | backend, retry queue | a silent request is taken once, a finished one never |
| Local cache `localcache`, `cache/pull.go` | LRU list, reference counts, files | Put, Get, Acquire, Release, Remove | node agent | never evicts what is in use; the byte count is exact |
| LoRA `lora` | the pool's order, the router's set, the engine | Acquire, Resolve | engine | router, pool and engine agree |
| Telemetry `telemetry` | subscribers, channels, sockets | Subscribe, Publish, unsubscribe | browsers, chat requests | slow or dead readers block nobody and go away |
| Telemetry retention `db/telemetry_retention.go` | samples and hourly aggregates | Run | Postgres | no sample is lost before its rollup |
| Sessions, keys, suspension of users `auth`, `api/auth.go`, `apikeys.go`, `policy/suspension.go` | refresh tokens, API keys, the cookie jar | login, refresh, logout, create, revoke, suspend | Postgres, browser | one usable token per login; revoked means refused |
| Migrations `db/migrate.go` | schema_migrations, advisory lock | Migrate | Postgres | each migration once, in order; replicas do not disturb one another |
| Process `cmd/gateway/main.go`, `app/app.go` Run and Close, `httpmw/timeout.go` | servers, database pool, background goroutines | start, serve, drain, close, exit | all of the above | stops when told to; what it reports as served was served |
| Metrics, CRUD handlers, file formats, sandbox, HTTP plumbing | – | – | – | no protocol state |

The gateway process (`app/app.go`) migrates the schema, then starts the HTTP server
and the ingestion pool. The streamer, idle reaper, reconciler, GPU binding, local cache, adapter pool and
artifact pipeline are library components that nothing in `app.go` starts: they are
modelled as their own documentation says they are to be used.

Hard behaviours, in the order in which they shaped the modules: a visibility
deadline that passes while the handler works; scripts whose reply is lost or that
run twice; four
independent writers of `deployments.state`, each with a read before its write; a
release, a zeroing pass and a new bind of the same device; redelivery of an
ingestion that was partly done, racing another job for the same commit; concurrent
part uploads with a quarantine behind them; two tabs rotating one cookie while a
third logs out; scripts that run with stamps older than the entries they prune; three
goroutines and a sweep around one stream, under ids the caller chooses; a subscriber
that leaves while a sample is published.

## Modules

| Module | Models | State ↔ code |
|---|---|---|
| `ReliableDelivery` | the promise of `queue.go`'s package comment | `status`, `tries` of each job |
| `JobQueue` | `queue`, `workerpool.go` | `pending`, `processing`, `visibility`, `deadLetter`, `hash` are the five Redis keys; `caller`, `worker`, `reaper` the goroutines; `astray` (history) the jobs that a repeated or late step may have put in two places |
| `GPUBinding` | `gpubinding.go` | `binding` is the hash `gpu:binding:<device>`; `zeroer` the ZeroDevice calls; `mishap` (history) what befell a device; `allocation` and `vram` what the package protects (external) |
| `Deployment` | create handler, dispatcher, streamer, reaper, reconciler, suspension | `row` is the table, `job`, `alloc`, `events` Nomad (external), one record per background loop |
| `Ingestion` | create handler, queue handler, `Orchestrator.Run` | `row`, `models` are the tables, `run[j]` the handler's position and what it fetched, `status`, `tries` the queue |
| `ArtifactCache` | download, multipart upload, quarantine, retry | `object`, `quarantined`, `uploads` are the bucket; `call[d]` one RetryingDownload with its attempt, parts and errgroup |
| `Account` | login, refresh, logout; keys; suspension | `token`, `key`, `suspended` are the tables, `jar` and `access` the browser's cookies, `req[r]` one handler invocation |
| `Admission` | the sliding window script, the violation counter and escalation | `entries`, `counter` and their TTLs are Redis keys, `clock` the gateways' clock, `req[r]` one request in the guard |
| `Serving` | chat handler, backends, watchdog, sweep | `handler`, `producer`, `watcher` are the goroutines, `inFlight` the backend's registry, `tracked` the watchdog's map |
| `LocalCache` | `localcache/lru.go`, `cache/pull.go` | `order`, `usedBytes`, `refCount` are the cache's fields, `putting` the artifact a `Put` under the mutex is for, `file` the disk |
| `LoraPool` | `lora/pool.go`, `router.go` | `resident`, `routable`; `engine` is external |
| `TelemetryHub` | `hub.go`, `ws_handler.go` | `subs`, `closed`, `buffered`; `handler`, `reader` the goroutines of a socket |
| `TelemetryRetention` | samples and the retention transaction | `raw`, `counted` are the tables, each statement a step of a job |
| `Migration` | `db/migrate.go` | `recorded` is schema_migrations, `lock` the advisory lock, `phase`, `todo` one replica's start |
| `Placement` | `binpacking.go`, `quant/placement.go`, `retry.go` | no state: a question and its answer |
| `Gateway` | `main.go`, `App.Run`, `App.Close`, `Timeout` | `main` the main goroutine, `pool`, `busy` the database pool, `serve`, `reply` the requests, `worker` the ingestion worker |
| `*Proofs` | theorems about the module they extend; `PartsProofs` about the eight small ones (`GPUBinding`, `LocalCache`, `LoraPool`, `TelemetryHub`, `TelemetryRetention`, `Migration`, `Placement`, `Gateway`) | – |
| `MC*` | the instances TLC checks | – |

How they compose: `JobQueue` is checked to implement `ReliableDelivery`, and
`Ingestion` is built on `ReliableDelivery` (`Queue == INSTANCE ReliableDelivery`), so
the ingestion properties do not repeat Redis lists and scripts. `ReliableDelivery` has
a status for jobs gone astray, of which it promises nothing more; `Ingestion`
leaves them out, so its properties are about jobs of which no command was sent twice
and that nobody reaped while they were held. `MCParts` puts eight components that share
no state side by side; a behaviour runs one of them. `Deployment` keeps its retry queue
as a set, since the repository has a producer and no consumer of it.

**JobQueue.** `Enqueue` is two actions (`HSET`, `LPUSH`), `Dequeue`, `Ack`, `Nack` run
one script each, `Reap` is a scan followed by one `Nack` per id it read. `LREM 0`
removes every copy, hence `processing` is a set; `pending` and `deadLetter` are
sequences because a late or repeated `Nack` can put an id there twice. A worker whose
`Dequeue` reports an error stops for good, as in `workerLoop`. A deadline may pass
while its holder is still at work. Each command can also run twice for one call:
`LPUSH` then leaves the id in `pending` twice, `nackScript`, which does not look at what
its `LREM` removed, pushes a second copy and counts a second attempt, and
`dequeueScript` takes a second job. `Reap` is an operation anyone may call up to
`MaxReaps` times, and nobody has to: nothing in the program calls it.

**GPUBinding.** The three scripts with their guards, a lost reply on each, and
`ZeroDevice`'s pass followed by `CompleteZero`. `ZeroDevice` looks at nothing
(`gpubinding.go:153-158`), so in the model anyone calls it for any device at any time,
beside other calls too. `mishap[d]` records what the scripts do not prevent: a tenant
bound a device one of its allocations runs on (`shared`), a pass was begun without a
hold or beside another pass (`misused`), `completeZeroScript` ran twice (`resent`).

**Deployment.** `handleEvent` is `Receive` (SetAllocationID), `ReadState` and
`WriteState`; a batch that carries an error is dropped (`BatchFails`) and a stream
that ends stops the streamer (`StreamCloses`). `Reap` is a listing and, per row, a check,
a stop and a write; `Suspend` lists live rows and stops and terminates each, at any
moment of a create request; `Reconcile` takes its two listings and then stops. `Actors`
says who runs. `SubmitJobIdempotent`'s branch for a job that exists is not taken: the
id is that of a row just inserted and nothing dispatches a deployment twice.
Nomad is external: it places, starts, fails, completes and, with
`Replace`, replaces allocations, and reports each change in order.

**Ingestion.** Each action is one database or upstream call of `Orchestrator.Run`
with the branch that follows it, the config's and the license's fetches included. A job's row may be updated although the call
reported an error, an upstream branch may move between any two requests, and the
process may exit at any point, taking every handler with it.

**ArtifactCache.** A body is intact, damaged or truncated; parts are read in order
and accepted in any order; a mismatch is copied to `quarantine/<key>`, removed and
retried. Resuming an upload is left out: no code does it.

**Account.** One action per database call of each handler, so a refresh is read,
revoke (the conditional `UPDATE`), issue, reply; a suspension marks the user, revokes
the keys and stops the deployments. Tabs share one cookie jar, a reply may be lost, a
token may expire, and every call, of keys and of a suspension too, may fail with or
without effect. `known` are the keys whose plaintext reached their owner, `barred`
says that a suspension has been reported done. Plaintext and hash
stand for their row, both columns being unique.

**Admission.** `Allow` reads the clock, and up to `Delay` later the script prunes,
counts and adds with that stamp: scripts of two requests run out of order. The Redis
client's own retry lets a script or an `INCR` run twice for one call. The wait is
rounded to whole seconds of `Second` time units as `httpmw/ratelimit.go:34` does it.
Flagged requests go on to `INCR`, `EXPIRE` and the tier's action.

**Serving.** A producer offers an event on an unbuffered channel and blocks until the
handler takes it or one of its two cancellations arrives; the two backends differ in
what they watch and how they end. Two requests may carry the same id, so that one
unregisters, cancels or forgets the other. The sweep takes silent entries out of the
map and then cancels and requeues them one at a time.

**LocalCache, LoraPool.** A public call under its mutex is an action, but for a `Put`,
which evicts one entry per step until the artifact fits and may fail at each; a pull to
disk is two, because the file is partial in between. The pool holds its mutex over
the calls to the engine, each of which takes effect before it returns
(`EngineLoads`, `EngineUnloads`); the router's readers do not take it.

**TelemetryHub, TelemetryRetention.** `unsubscribe` is two steps, out of the map and
then close; `Publish` drops a sample for a full buffer. A client may close or vanish
without a frame. The retention job's aggregate, upserts, delete and commit are steps
of a transaction at read committed; time passes between them. A sample's stamp is
taken when its `INSERT` begins and its row is visible when that commits.

**Migration.** Replicas of different releases load their files, queue for the lock,
read the applied versions once and run one transaction per missing one, the least
version first (`LoadMigrations` sorts what it read, so `todo` is a set and `Foremost`
what the loop comes to next). A process
that dies leaves a session (`Ghost`) that keeps the lock, and may still commit, until
the server ends it.

**Placement.** The loops of `SelectNode` and `NextDelay` as recursive functions of the
round, in integers that wrap around past `MaxInt`, against a declarative best fit and
`min(base * 2^(n-1), cap)`.

**Gateway.** The main goroutine's calls in order, each with its error return, beside
requests, some of which `http.TimeoutHandler` may answer while their handler goes on,
and an ingestion job on a context of its own. `Shutdown` waits for unanswered requests
until its deadline, `Close` for running statements only. The job's own fate is
`JobQueue`'s and `Ingestion`'s subject.

## Runs

Every run finishes in less than five minutes with two workers. Bounds are small
because the actors are symmetric and each hazard needs two of them and one thing
going wrong. Deadlock checking is off: all these systems may come to rest.

| Run | Instance | Shows |
|---|---|---|
| `JobQueue_all` | 2 jobs, 2 workers, 2 attempts, 1 reaper that may act once, deadlines that pass at any time, 1 reply lost, call failed or command sent twice, 1 crash or shutdown | `SoleHolder`, `NoJobLost`, refinement of `ReliableDelivery`, `EventuallySettled`. Two workers, the reaper and the fault are enough for each way astray but two reapers at once, which only the theorems cover |
| `Deployment_all` | 1 deployment, 2 allocations; reaper, enforcer, reconciler and streamer; 1 failure, 1 fault (a failed call, a lost batch or a closed stream), 1 restart | `NoReprovision`, `RecordFollows` |
| `Deployment_suspend` | 2 deployments, either of which may be anywhere in its create request, 2 allocations, enforcer and streamer, 2 failing calls, 1 restart | `LiveIsStopped`: of two deployments, one stop fails or the suspension breaks off, and the other is still accounted for |
| `Deployment_resurrect` | 1 deployment, enforcer and streamer | **violation** of `TerminalIsFinal` |
| `Deployment_unlisted` | 1 deployment, 2 allocations, 1 failure, enforcer and streamer | **violation** of `ListsEveryWorkload` |
| `Ingestion_jobs` | 2 jobs over 2 repositories that may be forks at one commit, an input that does not parse, an oversized and a weightless commit, 2 workers, 2 attempts, 1 failing call, push or exit anywhere | `RowCoherent`, `AckedMeansDone`, `LinkedToItsCommit`, `EventuallyResolved` |
| `ArtifactCache_download` | 2 downloads of one key, overlapping or not, 2 parts in flight, 2 attempts, 2 failing requests or cancelled contexts | `CorruptIsTemporary`, `SuccessIsLive`, `LeftInOrder`, `NoSpuriousFailure` |
| `Account_sessions` | 2 requests in flight, 6 in all, 3 tokens, 2 keys: enough for two logins, or a rotation racing a rotation, a logout or a suspension, and a retry after a failure | `OneLivePerLogin`, `LogoutWins`, `SessionKept`, `RevocationTakesHold` |
| `Account_shutout` | the same, 4 requests in all | **violation** of `SuspendedIsShutOut` |
| `Admission_guard` | limit 2 in a window of 4, three time units to a second, scripts up to 1 late, 4 requests, two at once, clock to 5 (past one window and two violation windows), 1 misbehaving call | `BoundedAdmission`, `RetryAfterIsClose`, `SuspendedForCause` |
| `Serving_streams` | 2 requests with equal or different ids, either backend, 1 token, sweeps at any time | `DoneIsWhole`, `CancelOnce`, `Watched`, `StreamsEnd` |
| `Parts_all` | a device, 2 tenants, 3 allocations (two of one tenant), 2 zeroing calls at a time, 2 lost replies, failed passes or repeated scripts; 3 artifacts of sizes 1, 2, 2 in 4 bytes under 2 deployments; 3 adapters on 2 slots; 2 dashboards with buffers of 2; 2 samples and 2 jobs over a clock to 4; 3 replicas, one with a duplicate version, and 2 failures or deaths; all placements on up to 3 nodes and all back-offs of up to 7 attempts in 5-bit integers; a process with a stream, a request under the timeout and a job | `ExclusiveTenancy`, `NoForeignData`, `EventuallyReclaimed`; `CacheSound`; `PoolInStep`; `OpenWhileSubscribed`, `GoneIsUnsubscribed`; `NoSampleLost`; `MigratedInOrder`, `StartsUndisturbed`; `DecisionsRight`; `StopsGracefully` |

Symmetry is used only in runs that check no liveness.

### Fairness

* `JobQueue`: a handler returns, a polling worker is scheduled, its calls are answered,
  and a process that exited is restarted. Enqueueing is not fair: nobody is obliged
  to finish a request. Neither is `Reap`, which nothing in the program calls:
  `EventuallySettled` names the job that is in processing with nobody at work on it as
  an exception, and `ReapScan` and `ReapNack` only interfere.
* `GPUBinding`: allocations stop and are released, `ZeroDevice` is called for a released
  device again and again (strong fairness, because `Zeroers` bounds the calls under way),
  a pass that was begun ends and not every pass fails. These are the callers'
  obligations: nothing in the repository calls the package, and its comments say what
  its callers are to do.
* `Deployment`: none; its properties are safety properties.
* `Ingestion`: requests and handlers run to their end and idle workers poll. Nothing
  forces failures, pushes, exits or a `Reap`: `EventuallyResolved` excuses the job that
  the queue has given up.
* `Serving`: handlers and producers that can run do; a request past admission is
  cancelled in the end, by its client or its time limit; the watcher of a cancelled
  context runs. The engine and the sweep are not forced to anything.
* `TelemetryHub`: goroutines that can run do. Go's `select` picks a ready case at
  random, so a heartbeat or a closed socket that is ready again and again is chosen
  in the end although samples are ready too (strong fairness).
* `Gateway`: the main goroutine runs, the ten seconds of the shutdown pass, and the
  database answers a statement it has accepted. Handlers, streams and jobs may go on
  for ever.

## Findings

Three runs refute statements of the repository; `PROJECT.json` quotes them.

* **A terminated deployment is ready again** (`Deployment_resurrect`). Read,
  validate and an unconditional `UPDATE` are separate calls, and the enforcer's
  `Terminate` fits between them; `state.go` calls the state terminal.
* **A suspension misses a running workload** (`Deployment_unlisted`). The row is failed
  since an allocation failed, Nomad has replaced the allocation, and the enforcer lists
  only rows that are not terminal; `suspension.go` says it stops "every live workload".
* **A suspended user logs in and is served** (`Account_shutout`). `LoginHandler` does not
  look at `SuspendedAt`, the access token passes `JWTAuth`, which reads no table, and a key
  made after the revocation is served, since `APIKeyAuth` looks at the key's row alone;
  `suspension.go` says the account is "unable to authenticate via a fresh login" and that
  "every API-key-authenticated request" is blocked.

Other behaviours met while modelling. They are why some properties carry a
condition; each was seen as a TLC counterexample with the condition removed, unless
marked (read), which is from the code alone.

* Queue, commands sent twice: the reply to Enqueue's `LPUSH` or to a nack is lost, the
  client sends it again, and the id is in `pending` twice: two workers run the job at
  once, although `Dequeue` says that it "stays invisible to other consumers until Ack or
  Nack, or until its visibility timeout expires and Reap makes it available again". A
  nack that ran twice has also counted its attempt twice, so that a job can be
  dead-lettered after fewer than `MaxAttempts` deliveries. A repeated `dequeueScript`
  leaves its first job in processing with nobody at work on it. `SoleHolder` and the
  refinement excuse the job (`astray`), `NoJobLost` holds of it too.
* Queue, nobody reaps: a job in hand when the process exits, or whose reply was lost,
  stays in processing; its deadline passes, and nothing but a test calls `Reap`, although
  `queue.go` says that a job is invisible "only until its visibility timeout expires".
  `EventuallySettled` and `EventuallyResolved` name the case.
* Queue, if somebody reaps: a late ack costs the pool a worker. A job is reaped while
  its handler works, the handler acks and deletes the hash of the requeued id; the next
  worker to pop it cannot parse its attempts and returns from its loop. An acked job is
  delivered again, and with two reapers a stale scan takes a job from its next holder.
* GPU binding: a tenant may bind a device one of its allocations runs on; the record
  keeps the second only, and releasing it frees and zeroes the device under the first
  (`shared`). `ZeroDevice` for a bound device clears the running tenant's memory, and two
  calls for one device let the slower `CompleteZero` free a device that was bound and
  released meanwhile (`misused`): a caller that repeats `ZeroDevice` because the reply to
  `CompleteZero` was lost can do either. The client does the second by itself when it
  sends `completeZeroScript` again (`resent`), although the comment says that `Bind`
  refuses the device "rather than risk handing out VRAM that was never actually cleared".
* Reconciler: after a restart before the streamer recorded an allocation id, it stops
  an allocation whose deployment is active, since it compares ids only.
* Deployments: the reaper can write draining over failed; an allocation that ends
  between the reaper's stop and its write leaves the row draining for good; events sent
  while the gateway is down, after the stream ended or in a batch with an error are lost
  (`RecordFollows` needs `faults` and `restarts` to be 0); a create request that is under
  way when its deployment's job is stopped registers the job afterwards (`racing`);
  nothing reads the retry queue, so a deployment that was put there is never registered,
  although `degraded.go` records it "for a later retry once Nomad is reachable again".
* Ingestion: header and configuration are fetched by branch name, so after a push a
  model row may mix two commits (`LinkedToItsCommit` assumes `moves = 0`); a branch that moved cannot be ingested again, because
  `(repo_url, revision)` is unique; `Run`'s comment promises a terminal state
  "before returning" (`orchestrator.go:65-67`), but a failing `UPDATE`, or a failing `Fail`,
  whose error is dropped, leaves the row pending, downloading or verifying
  (`EventuallyResolved` excuses it once the queue has given the job up); `UpdateProgress` moves a row back to downloading, whatever its
  comment says (read); a cached row keeps the error of an earlier attempt (read).
* Artifacts: the comment of `DownloadToCache` says a corrupted object is never left
  live. A lost reply of the completing request returns an error before verification,
  with the object in place, and a cancelled context makes `Quarantine` itself fail;
  hence `CorruptIsTemporary` assumes `faults = 0`. Two overlapping downloads of one
  key can quarantine each other's good object; hence `Sole` in `SuccessIsLive` and
  `LeftInOrder`.
* Sessions: a refresh whose revocation succeeded and whose insert failed, or whose
  reply was lost, ends the session (`SessionKept` names these causes); so do two tabs
  that refresh at once, when the loser's answer clears the winner's cookie.
* Admission: with stamps up to `Delay` old the script admits up to the limit per
  `Window - Delay`, not per window. A failed `EXPIRE`, or an `INCR` retried by the
  client so that it skips 1, leaves a violation counter that never expires. The
  `Retry-After` header is the wait rounded to the nearest second, so a client that waits
  what it was told may be up to half a second early; no text promises more
  (`RetryAfterIsClose` bounds the error, both ways).
* Serving: the id is the caller's `X-Request-Id`, so a second request with the same id
  replaces the first in the watchdog and the registry, and the first one's end forgets
  and unregisters the second (`Watched` is stated for unshared ids). A sweep while
  the engine has not yet answered cancels nothing, as the stream is not registered
  yet; a request without streaming reports no tokens, so it is requeued while it is
  being served; nobody reads the queue it goes to (read).
* Local cache: replacing a key drops its references, as documented; a replacing `Put`
  that then fails leaves a file that is no longer accounted for, and a `Release` for
  the old reference lowers the new one's count (`forced` excuses both).
* Adapters: an unload or load that took effect and reported an error leaves the pool
  and the engine out of step until the adapter is used again (`astray`).
* Retention: two jobs that overlap count a sample twice (`overlap`); a sample is never
  lost.
* Shutdown: `App.Run` does not wait for the worker pool, so the process may exit while
  a job runs, although `WorkerPool.Run` says that "shutdown never abandons in-flight
  work" (`ExitAndRestart` in `JobQueue`, and `Gateway`); a failure of the metrics server
  alone ends the gateway without draining it.
* Timeout: the telemetry route is under `http.TimeoutHandler`, whose writer cannot be
  hijacked, so as `app.go` wires it the WebSocket upgrade is refused; only the chat
  routes are exempt (read). `TelemetryHub` models the handler as its tests run it.
* Failure classification: `ClassifyAllocationFailure` returns "nil if the allocation is
  not in a failed state", but looks at events first, so a crash before a successful
  restart is reported for a running allocation (read).
* Back-off: with a cap of the largest integer, `NextDelay`'s `backoff + 1` overflows and
  `rand.Int64N` panics (read); the caps in the repository are minutes.

## Proofs

Every safety property that a passing run checks, but for `RecordFollows`, is also a
theorem, for every value of the constants. `MigratesInOrder` has a hypothesis on the
releases; no other theorem restricts callers or schedules. The exceptions are in the
properties themselves, job by job and device by device.

| Theorem | Says, for every value of the constants |
|---|---|
| `JobQueueProofs!QueueInvariant`, `TypeCorrect`, `NothingLost`, `EveryHeldJobHasDeadline` | no enqueued, unacked job is off all lists and every job in processing has a deadline: any number of workers and reapers, late or not |
| `JobQueueProofs!ExclusiveInvariant`, `OneHolder`, `QueueRefinement` | any number of reapers, late handlers and repeated commands: a job that has not gone astray has one holder and no second copy, and the five Redis keys implement `ReliableDelivery` step by step, in which a job goes astray only while it is being sent or held |
| `DeploymentProofs!TypeCorrect` | types, whoever runs |
| `DeploymentProofs!WritersInvariant`, `NeverReprovisioned` | whoever runs: no deployment that was ready, draining or failed returns to provisioning |
| `DeploymentProofs!SuspensionInvariant`, `SuspensionStopsTheLive` | with create requests in flight, failures and restarts: what a suspension came to of the deployments that were live at its listing has no job, is reported, or was still being created when its job was stopped |
| `IngestionProofs!IngestInvariant`, `RowsCoherent`, `AckedIsDone`, `CommitsUnique`, `LinksRight` | rows, links, queue verdicts and models agree, for any number of jobs, workers, attempts, faults, pushes and exits |
| `ArtifactCacheProofs!TypeCorrect`, `CacheInvariant`, `NoCorruptObjectStays`, `SuccessStaysLive`, `EverythingLeftInOrder`, `OnlyFaultsFail` | the four properties of `ArtifactCache_download`, for any downloads, keys, parts, attempts and faults |
| `AccountProofs!TypeCorrect`, `SessionInvariant`, `RotationIsExclusive`, `LogoutIsFinal`, `StaysSignedIn`, `RevokedIsRefused` | the four properties of `Account_sessions`, for any requests in flight, tokens and keys |
| `AdmissionProofs!LimiterInvariant`, `AdmissionIsBounded`, `RetryAfterRounded` | at most `Limit` admissions in any stretch of `Window - Delay`; the whole seconds a rejected client is told are at least one, and enough with half a second more |
| `AdmissionProofs!CounterInvariant`, `SuspensionHasCause` | without a fault on the counter, a suspension takes `SuspendAt` violations within the window |
| `ServingProofs!ServingInvariant`, `DoneMeansWhole`, `CancelledOnce`, `WatchdogIsExact` | the three safety properties of `Serving_streams`, for any requests, ids and tokens |
| `PartsProofs!TypeCorrect`, `OnlyThroughZeroing` | GPU binding: types; a record leaves its tenant only through the zeroing hold. No assumption on callers |
| `PartsProofs!BindingInvariant`, `Exclusive`, `Clean` | one tenant per device that no tenant bound twice; on a device that nothing befell, only its own tenant's data, and free means clean. `ZeroDevice` is called by anyone, at any time |
| `PartsProofs!CacheIsSound` | the local cache never reclaims what is held, and its byte count is the sum of its entries, within the bound |
| `PartsProofs!PoolStaysInStep` | pool, router and engine agree through loads, evictions and failures |
| `PartsProofs!SubscribersAreOpen` | `Publish` meets no closed channel |
| `PartsProofs!NoSampleIsLost` | no sample is lost, or counted twice without an overlap |
| `PartsProofs!MigratesInOrder` | with `ForwardOnly` (releases only add migrations at the end, `migrate.go`'s "one forward-only schema change"): migrations take effect in order, each once, and a replica that serves has all of its own |
| `PartsProofs!StartsAreUndisturbed` | a replica's start fails only for its own troubles, whatever the releases |
| `PartsProofs!DecisionsAreRight` | the best fit at the best precision, and a back-off of `min(base * 2^(n-1), cap)`, for any nodes, policy, attempt and width of the integers |
| `PartsProofs!EveryoneIsServed` | when `Run` reports success every accepted request was answered, none from a pool closed under it (`AllServed`, the safety half of `StopsGracefully`) |

Each rests on an inductive invariant that TLC also holds true on the instances above.

* `QueueInv`. `NoJobLost` alone is not inductive: `nack` moves an id only if it is in
  processing or leaves it where it is, and a worker settles a real job only if it
  has one; hence `HandsFull` and `DeadlineForProcessing`. The proof goes action by
  action over what each script does to the elements of the lists.
* `ExclusiveInv` adds, for each job not astray, that its places are distinct and apart
  (`Apart`), that what a worker holds is its alone (`HeldAlone`), that what `Reap` has read
  is held by nobody and read by no other `Reap` (`Overdue`), that it is nowhere before its
  `LPUSH` (`NotSentYet`) and has no attempts once acked (`Cleared`). It speaks of one job at
  a time, since a job astray may be anywhere: what its copies do must leave every other
  job's part untouched. The refinement maps a job's place to its status; each action is
  one abstract step or none, and the ones that lead astray map to `astray`.
* `BindingInv`. Exclusiveness needs that the record knows who runs (`UseIsRecorded`),
  which only a shared device breaks. Cleanness needs that a pass belongs to the hold it
  found (`PassIsAwaited`, `OnePassPerDevice`) and that the data is the record's tenant's
  (`DataIsOwned`), for devices without a mishap; a mishap stays (`MishapsStay`), so a step
  on one device cannot excuse another.
* `WritersInv`. Between the streamer's read and its write the row may change, as
  `Deployment_resurrect` shows, so the invariant says what each writer has in hand
  (`Hands`): a row about to be written as provisioning was queued when it
  was read and is not one the reaper has listed, so that the enforcer alone can have
  overtaken it.
* `SuspensionInv`. What was live at the listing and is neither to be done, reported nor
  racing has no job and no request under way that could register one; a request that
  has ended never starts again (`StoppedForGood`).
* `IngestInv`. `RowCoherent` and `AckedMeansDone` are about rows, but a row is written
  from a handler's locals; `HeldWhileRun` ties handlers to the queue, `StepKnows` and
  `HasFetched` say what a handler at each step has established, `FetchedSame` that it
  all comes from one commit while no branch moves. The proof restates the invariant
  job by job (`JobInv`), with one lemma for steps that rewrite a row and a handler's
  locals, and one each for the insert, the queue, the clients and the environment.
* `CacheInv`. `Courses` says what one download knows at each step, `Found` what a
  download that is alone on its key finds in the bucket, `LastWorks` why nobody else can
  have touched it. `CorruptIsTemporary` is about overlapping downloads too, and is its own
  invariant given `Courses`.
* `SessionInv`. `OneLivePerLogin` needs `Rotation`: between its `UPDATE` and its `INSERT` a
  rotation is the only one of its login, which has no usable token. `Descent` ties a
  token to its login, and `LogoutWins` is carried along. `CourseInv` adds that a token on
  its way to the browser is nobody else's (`Fresh`) and how far the only session request
  has come (`Course`); `KeysInv` what a revocation has covered at each step.
* `LimiterInv`. `Covered`: an admission younger than `Window - Delay` still has an entry,
  although scripts with older stamps prune, rewrite scores and run twice. With at most
  `Limit` entries (`SortedSet`) that bounds the admissions by an injection.
* `CounterInv`. The count is compared with the violations of the key that exists now
  (`Counted`). Its expiry is set by a second call, so one caller at most is about to set
  it (`OneExpirer`), one is unless something failed (`ExpiryPending`), and what the others
  read meanwhile is not above the counter (`Answered`).
* `ServingInv`. `Streaming` relates a handler's step, its producer's and the finish reason
  the client has read; `Registry` and `Watchdog` say that an entry names a request of
  that id, which is all that holds when two requests share one.
* `LRUInv`: a key's count is the number of its holders unless a holder was overridden
  (`CountsHolders`), and an artifact being put has its file and no entry (`PutOfAFile`).
  The byte count is a sum over a set: `SumsExist`, `SumsAgree`, `TotalIsSum` and
  `TotalOfOneLess` show that the sum exists, does not depend on the order, and changes by
  one entry's size.
* `PoolInv`, `HubInv`: what a call that holds the mutex has established; that a channel
  is closed after its connection left the map.
* `RetentionInv`. `Covers`: what a job read includes every raw row it will delete,
  because its cut-off does not move with the clock and no `INSERT` under way is that
  old; `Alone`: equality while no two jobs
  overlapped.
* `MigrationInv`. `UnderLock`: what the holder has left to do is what the table lacks, and
  what a dead session may still commit is the least version due. `InOrder` says that
  there is no gap below what has taken effect, and needs `ForwardOnly`.
* `GatewayInv`: the pool is open until `Close` and the listener is not after `Shutdown`.
* `Placement` has no invariant to find, but loops: `LoopRuns` shows that a recursion over
  the rounds has a course, `ByRounds` that what each round keeps holds at the end;
  `NodeIsBest` and `BackoffSaturates` say what the loops keep.

Induction is by a least counterexample (`LeastOf`, from the library's `WFMin`): a set of
numbers takes the place of the predicate that the library's induction theorems want as a
parameter.

The assumptions are the `ASSUME`s of the modules: constants have their types and the
null values are not members. Bounds such as `MaxFaults` are arbitrary naturals.

Only model-checked: liveness, since fairness and `ENABLED` are outside the prover
(`EventuallySettled`, `EventuallyReclaimed`, `EventuallyResolved`, `StreamsEnd`,
`GoneIsUnsubscribed`, `StopsGracefully`), and `RecordFollows`, whose inductive invariant
would have to follow every event through the queue.

## Not modelled

* **Redis and Postgres internals, Nomad's scheduler, the object store's consistency**:
  taken as atomic per command, modelled from their use.
* **Jobs astray in `Ingestion`**: two handlers of one job at once, after a command that
  ran twice. `JobQueue` has them; the rows they would write are not followed.
* **Telemetry `INSERT`s that last longer than the retention threshold**: a statement ends
  long before its row is due for the rollup.
* **Ingestion after a move of its branch, and the row left behind when the enqueue of
  an ingestion fails**: in the model's behaviours, but no text promises anything of
  them, so no property does.
* **Byte formats, wording, HTTP plumbing, metrics, static specifications, sandbox
  rules**: no protocol state.
* **VRAM ceilings, warm pool, failure classification** (`oom_recovery.go`, `warmpool.go`,
  `failures.go`): one atomic script, one read, and matching on message texts; nothing in
  the repository calls them.
* **Prompt entropy and allocation churn** (`policy/abuse.go`): whether they flag a
  request is left open in `Admission`.
* **Nomad job specification, benchmarks, costs, model CRUD, configuration**: pure
  construction, single statements and float arithmetic.

## Plan

Done: every component listed as modelled or partly modelled above, its runs, and a
theorem for each safety property that a passing run checks except `RecordFollows`.

Left:

1. `RecordFollows` as a theorem.
2. The least covered sources: `scheduler/failures.go` and `auth/apikey.go`.

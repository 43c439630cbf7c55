# kiro.rs: a TLA+ verification project

kiro.rs is a proxy in Rust that offers the Anthropic Messages API (and parts of the OpenAI API) on
top of pools of Kiro accounts and other upstream providers. Several instances may run against one
PgSQL database and one Redis server. What is hard in it is not the translation of requests; it is the
bookkeeping around them: which account may take one more request, who refreshes an expiring token,
who waits, and what becomes of all that when a call is lost, a task is cancelled or a process dies.
That is what this project models.

Contents: 1 inventory, 2 modules, 3 runs, 4 fairness, 5 proofs, 6 findings and further observations,
7 what is not modelled, 8 plan.

## 1. Inventory

All paths are under `src/src/`. "State" is what outlives one function
call; the parts in bold are modelled.

| Part | State | Operations | What makes it correct |
|---|---|---|---|
| **In-flight leases** `kiro/token_manager/{concurrency,manager}.rs`, Lua scripts in `storage/redis_cache.rs` | Redis: per account and globally an acquired set, a last_seen set and a weight counter; released tombstones; owner sets; heartbeat keys; dispatch blocks. Process: ledger of its own leases, guards, release intents | prepare, acquire, confirm, release, touch, set kind, sweep, clear, heartbeat, reclaim, shutdown | counters equal the held weight, limits are kept, a slot is given back exactly once and never lost |
| **Release dispatcher** `concurrency.rs` | permits, queue of intents, retry times | reserve, enqueue, attempt, retry | a reserved release can always be enqueued and is retried until answered |
| **Dispatch queue** `manager.rs`, `concurrency.rs`, `redis_cache.rs` | process counter `queued_requests`; Redis sorted set with expiry scores | enter, admit, renew, leave, release, prune | the shared limit holds; counter and permits are exact; entries do not stay |
| **Token refresh** `refresh.rs`, `manager.rs`, `redis_cache.rs`, `postgres.rs` | Redis: lock, outcome record with generation, identity and health claim. PgSQL: token, revision. Process: per-account mutex, account in memory | begin, wait, verify, send, compare-and-swap, publish, replay, claim, ack, clean up | one refresh at a time, a published success is usable, no token is lost, one failure counts once |
| **Scheduler snapshot** `redis_runtime.rs`, `manager.rs` | process: view of the leases in Redis, marked accounts, requested and applied full syncs, one background worker | mark, enter, spawn, read, filter, merge, recheck, forced and targeted reads | a snapshot never undoes a local change; no mark is lost; view and Redis come to agree |
| **Redis circuit breaker** `manager.rs` | closed, open or half-open, generation, failure counts, excused timeouts, permits | begin, admit, succeed, fail, excuse, drop, back off | one probe at a time, old results have no say, an outage opens it, it is tried out again |
| Session binding `manager.rs`, `sticky.rs`, `redis_cache.rs` | Redis: session to account with owner and TTL | bind, rebind, count, evict | a session has one account, limits hold |
| Selection, strategies, RPM, cool-down, degradation `selection.rs`, `strategy.rs`, `rpm.rs`, `cooldown.rs`, `degrade.rs`, `capacity.rs` | process: windows and deadlines | choose, record, cool down | no account out of its limits is chosen |
| **Runtime persistence** `manager.rs`, `storage_task.rs`, `storage/postgres.rs` | pending mutations per account, generations, revisions, quarantine; PgSQL: the row and the operation ids | note, queue, coalesce, replay, pop, mark, reload, administer | applied once and in order, nothing is dropped, quarantined while unconfirmed |
| Account events and inventory `storage/account_events.rs`, `storage/credential_inventory.rs` | PgSQL rows, import state | append, aggregate | |
| **External pools** `external_pool.rs`, `external_pool/*`, `redis_cache.rs` | Redis: leases under a coordinator guard with an epoch; PgSQL: the epoch row and an advisory lock; process: cached epoch, pools, health | acquire, heartbeat, release, probe, reconcile | limits hold over a restart of Redis; requests of two epochs are not held together; the guard comes back |
| Provider and retry pipeline `kiro/provider.rs`, `kiro/retry_pipeline.rs`, `anthropic/inference_attempt_budget.rs` | per request: attempts, tried accounts | select, send, classify, retry, rotate | attempts are bounded, failures hit the right account |
| Event-stream decoder `kiro/parser/*` | buffer, state, error count | feed, decode, recover | frames come out as sent, corrupt input ends |
| Request admission and key limits `anthropic/request_admission.rs`, `anthropic/request_key_limits.rs` | permits, windows | admit, release | exact counts |
| Streaming `anthropic/stream.rs`, `anthropic/stop_sequence.rs` | block states, hold-back buffer | emit, stop, finish | well-formed SSE; the earliest stop sequence wins |
| Conversion, caching, usage `anthropic/{converter,cache,prompt_cache,usage,payload_guard,openai}*` | caches, usage counters | translate, estimate | |
| Admin API and UIs `admin/*`, `admin_ui`, `ui/`, `admin-ui/` | PgSQL through the manager | edit, clear, block | |
| Plumbing `main.rs`, `http_client.rs`, `common/*`, `diagnostics/*`, `model/config.rs`, `bin/*` | configuration, signals | start, stop, log | |

How they interact. A request enters through `anthropic/handlers`, passes admission, and asks the
token manager for an account. `manager.rs` selects one, takes an in-flight lease (reserving it in the
process's ledger, then by a Lua script in Redis), or waits in the dispatch queue. It makes sure of the
token, which may start or join a refresh, and the provider sends the request. A failure gives the
lease back and comes round again as a retry. Releases never wait for Redis in the request's path: a
guard's `Drop` hands an intent to the release dispatcher. Workers send heartbeats, sweep leases,
reclaim those of dead instances, and reload accounts. The administrator edits accounts in PgSQL, which
the instances learn through notifications. Instances share nothing but Redis and PgSQL.

What is hard: every call to Redis or PgSQL may be executed although its caller has given up; every
`await` is a place where the task may be cancelled and only `Drop` code runs; the registries are
changed by four kinds of removers; an instance may be killed or paused between any two calls; flags
such as "I am the only instance" are old when they are used. `PROJECT.json` lists these hazards at
their lines.

## 2. Modules

| Module | Models | Code |
|---|---|---|
| `InFlightLease` | leases, guards, ledger, release intents, heartbeat, reclaim, shutdown, clean-up, administration | `concurrency.rs`, the lease parts of `manager.rs`, the lease scripts of `redis_cache.rs` |
| `TokenRefresh` | one account's refresh in all instances | refresh parts of `manager.rs`, refresh scripts of `redis_cache.rs`, the compare-and-swap of `postgres.rs` |
| `DispatchQueue` | the waiting room with its release permits | queue parts of `manager.rs` and `concurrency.rs`, queue scripts of `redis_cache.rs` |
| `RedisBreaker` | the circuit breaker in front of the scheduler's Redis calls | `SchedulerRedisBreaker` in `manager.rs` |
| `SchedulerView` | one process's copy of the leases in Redis | `refresh_scheduler_state_from_redis*` in `manager.rs`, the merge in `redis_runtime.rs`, the tombstones in `concurrency.rs` |
| `RuntimePersistence` | one account's way to PgSQL and back | pending mutations in `manager.rs`, the transactions of `postgres.rs` |
| `ExternalPool` | leases of external pools, coordinator guard, reconciliation | coordination parts of `external_pool.rs`, its scripts in `redis_cache.rs` |
| `BoundedPool` | abstract: what `ExternalPool` promises | |
| `InFlightLeaseProofs`, `TokenRefreshProofs`, `DispatchQueueProofs`, `RedisBreakerProofs`, `SchedulerViewProofs`, `ExternalPoolProofs`, `RuntimePersistenceProofs` | theorems | |
| `MC...` | small instances for TLC | |

One Lua script is one atomic operator (`AcquireScript`, `DropLeases`, `BeginScript`, `AdmitScript`,
...): Redis executes scripts one at a time. Everything between two calls is a step of its own. A call
that may be executed late is a variable (`cmd`, `call`, `cas`): it is sent by one action, executed or
lost by another, and answered or given up by a third. Time is abstract. `stale` and `due` are the sets
of entries whose score has passed; keys with a TTL vanish in actions of their own, restricted only
where the code relates two durations (a tombstone outlives any call on the way; the lock of a refresh
outlives the leader's own deadline unless the process is paused, `Pauses`).

Operators commented "Mutant" are changed versions of the definition that follows them, a bug one
might write there. They are not part of any specification; each was put in place of its definition
to see the property named for it in `PROJECT.json` fail.

### InFlightLease

`lacq, lseen, lcnt` and `gacq, gseen, gcnt` are the two registries; `tomb` the released tombstones;
`owned` the owner sets; `known, live` the instance registry and heartbeat keys; `blocked` the dispatch
blocks. In the processes, `guard` is the state of a request's `InFlightLeaseGuard` (`notStarted`,
`waiting` for the acquire call, `acquired`, commit-`unknown`, `rejected` for one that runs without a
Redis lease, `released`, `dead`), `entry` the ledger, `intent` what the release dispatcher has queued,
`victim` and `todo` a reclaim pass, `alone` the single-instance flag.

| Actions | Code |
|---|---|
| `Prepare`, `SendAcquire`, `ExecuteAcquire`, `LoseAcquire`, `ConfirmAcquired`, `Refused` | `prepare_in_flight_slot`, the breaker's admission, the acquire script, `confirm_redis_acquired`, `confirm_redis_not_acquired` |
| `DispatchWithoutLease`, `DispatchUnknown` | the fall-back of the only instance |
| `Release`, `DispatchRelease` | `InFlightLeaseGuard::release` and `Drop`; one attempt of the dispatcher |
| `Touch`, `TouchInstance`, `ExpireEntry` | touch, set kind, the heartbeat's touch, the ledger's own clean-up |
| `Heartbeat`, `ReclaimRead`, `ReclaimLease`, `ReclaimForget`, `ReclaimAbort`, `CountInstances`, `BeginShutdown` | `heartbeat_and_reclaim_dead_instance_leases`, `release_own_in_flight_leases` |
| `CleanupExpired`, `ClearIdle`, `ClearAll`, `SetBlock` | the sweep, the administrator's operations |
| `Age`, `HeartbeatExpires`, `AccountKeysExpire`, `GlobalKeysExpire`, `TombstoneExpires`, `Crash` | time and failures |

Weights: an account's or a request's weight is a number of units, clamped to the limits as in the
code; the weight of a set is the cardinality of its set of units, which needs no recursion. A lease id
is used once, so a restarted process is another instance.

### TokenRefresh

`lock` and `out` are the two Redis keys, `pg` the account's row, `mem` the account in each instance's
memory, `gate` each instance's mutex. An attempt's program counter `pc` names the point between two
awaits. A token is named after the attempt that obtained it, and the identity digest is the token
with the other authentication fields (`ctx`) it was computed from; the revision is not part of it, as
in `RefreshAttemptIdentity`. The four kinds of attempt are `auto` (the token is expired), `lead`
(refreshed ahead of expiry), `recover` (the upstream rejected it) and `forced` (administrator). They
differ in when they take the mutex, whether they read the authority again, which write conflicts they
accept and whether they merge before or after publishing; each is a guard in the actions. `Cancelled`,
`CleanupRead`, `Cleanup` and `CleanupFails` are `RedisRefreshLeaseDropGuard` and the task it spawns.
Only the most recent outcome record exists in Redis, so `out` is one record. `NoOutcome` also resets
the generation, as the deletion or expiry of the key does.

### DispatchQueue

`queue` is the sorted set, `local` the `queued_requests` counters, `permits` and `intent` the release
dispatcher's, `st` the state of a request with its `DispatchQueueGuard`. How a slot is confirmed is the
subject of InFlightLease; here `FreeSlot` is a counter of abstract slots. The limit applies to first
dispatches, retries (`try > 0`) have none. `Single` (the only instance on its Redis) is a constant
here and a changing, possibly outdated flag in InFlightLease. `MaxTries` bounds the retries of one request.

### RedisBreaker

`phase`, `generation`, `failures` and `excused` are the fields of `SchedulerRedisBreakerState` (the
half-open phase and an open one whose back-off has passed, `due`, are phases of their own); `st`, `tag`
and `probe` are an operation's admission. `Begin` is `begin_until` up to the semaphore, `Admit` the
second look after it. A report has two halves, as in the code: the counter of excused timeouts is an
atomic touched before the lock (`Answered`, `TimedOutLate`, `Failed`), the rest is done under it
(`CompleteSuccess`, `CompleteFailure`). `Drop` is the admission's `Drop`, at any await. `silent` is a
history variable: timeouts since anything answered.

### SchedulerView

`view` is the union of the entries' `in_flight_leases`, `owned` those flagged `locally_owned`, `tombs`
the tombstones of released ones, `dirty` and `pending` the marks. The worker is a program counter with
one action per await or lock: start, collect, read, filter, apply, check, exit, recheck. Several workers
may be between the store to `sync_in_flight` and their recheck (`leaving`). `direct` is a read past the
worker. `astray` is history: accounts whose event was lost or that a direct read overwrote since the
worker last read them. The two full-sync counters are only compared, so they are a Boolean.

### RuntimePersistence

`row` and `done` are PgSQL, `entry` the account in the process with its flags `degraded`,
`quarantined` and `disabled`, `queue` the pending mutations. `Persist` decides between duplicate, stale,
ahead and apply, as `prepare_credential_runtime_mutation` does; `Effect` is the update each kind makes.
Every pair of locks in the code is two actions: a result is noted and then queued
(`NoteSuccess`/`NoteFailure`/`NoteQuota`, `EnqueueReport`), a deferred command is queued and then applied
to the entry (`AdminEnqueue`, `AdminPatch`), the worker takes, writes, pops and marks. `FlushFails` is a
write that failed, or succeeded without an answer. `owed`, `last`, `overtaken` are history.

### ExternalPool and BoundedPool

`run`, `epoch`, `recovering`, `reg`, `greg`, `stale`, `tomb` are Redis; `rowRun`, `rowEpoch`, `lock`,
`leak`, `orphan` are PgSQL; `cEpoch`, `cRun`, `mode` the cached guard; `rc` and `seen` the place in
`reconcile_external_pool_coordinator_guard`; `st`, `tag`, `cmd`, `intent` a lease.

`Restart` brings back what Redis has saved: the epoch of now, one that some process or lease still
remembers, or none, and any of the leases. The restart that keeps the epoch and loses the in-flight sets
is one of these (`external_pool/tests.rs:10254-10262`); a process whose cached epoch is not due for a
probe is then granted leases by a Redis it has not probed. `Probe` is the expiry of the 5 s interval
together with the read of the run id.

`RecoveryEnds` is the expiry of the barrier's key, which has a fixed life of 35 s. By then a heartbeat of
every lease (30 s interval, 2 s for the call) has been answered or has failed. It fails if the process is
`Hampered`: its calls fail (`Faulty`), or it waits for an advisory lock that another process has left
behind, since a heartbeat first asks for the epoch. A failed heartbeat changes nothing for up to 358 s
(`LossDeadline`), so the barrier does not wait for these; it waits only for those that are answered.

`Cancel` drops the reconciliation's future, which leaves the session's advisory lock on a connection of
the pool (`leak`), or the statement that waits for it (`orphan`), which gets the lock later
(`OrphanLocks`), until the pool closes the connection or the same process takes the lock again; `late`
holds install commands whose sender is gone.

A request is `Held` until its lease is known to be lost. One that is lost may linger until its stream
notices, which no property forbids; its score may then grow old. Two sets are history: `blind`, the
leases granted by a Redis that their process had not probed (the probe window), and `missed`, those that
were held under another epoch as a barrier ended. `Sound` requests are the held ones in neither set.

`BoundedPool` promises: a lease starts at most one request, requests over all processes keep to the
limit of their pool and to the global one, an ended request does not run again. `KeepsLimits` is the
refinement, with `running` mapped to the sound held requests and `ended` to all that are lost or ended,
or no longer sound.
It is not a copy of the script's comparison: after a restart Redis has forgotten what runs.

## 3. Runs

`tlc -config X.cfg MCModule`; each finishes within three minutes on two workers.

| Run | Properties | Instance | Distinct states |
|---|---|---|---|
| `lease_accounting` | `TypeOK`, `CountersAgree`, `WithinLimits`, `ReleasedStaysReleased`, `NoSlotIsLeaked` | two leases (weights 2, 1) of two instances on two accounts, limits 2 and 2; ages, key expirations of one account, administrator, shutdown and kill of `i1` | 463 000 |
| `lease_crash` | `DispatchedWithinLimits`, `HeldIsRegistered`, `DeadLeasesReclaimed`, `ReleasesDrain` | three leases, no age limit; `i2` outlives `i1` and serves two requests that do not fit together | 9 100 |
| `refresh_wave` | `TypeOK`, `SingleFlight`, `HealthAtMostOnce` | three attempts in two instances, one forced, one cancelled anywhere | 647 000 |
| `refresh_writes` | `LockMatchesOutcome`, `AnnouncedSuccessIsReal`, `NoTokenReturns` | two attempts, one forced, both faulty; pauses, kill, expiring token, administrator's new token | 1 504 000 |
| `queue_shared` | `TypeOK`, `NewWithinLimit`, `LocalCountExact`, `PermitsExact`, `QueuedIsCounted`, `QueueDrains` | three requests of two instances, one slot, limit one, one retry each; one renews, one is paused, `i2` may die | 212 000 |
| `breaker` | `TypeOK`, `SingleProbe`, `OnlyCurrentCounts`, `OutageOpens`, `TriedOutAgain` | three operations, two permits, two failures to open, one excuse, three openings | 81 000 |
| `pool` | `TypeOK`, `OneEpochRuns`, `RunningIsCounted`, `KeepsLimits` | two leases of two processes on one pool, limits 1 and 1, one restart of Redis with any loss, one fault | 2 323 000 |
| `pool_restored` | `GuardRestored` | the same with one lease, under fairness | 268 000 |
| `view` | `OwnedIsExact`, `MarkIsNoticed`, `QuietViewIsFresh`, `ViewConverges` | one account, one own and one foreign lease, one caller, one worker leaving | 722 000 |
| `runtime` | `TypeOK`, `QuarantineHeld`, `NothingForgotten`, `AppliedOnceInOrder`, `ReportsDrain` | two results of any kind, a local and a remote command, two failures to disable, one warm-up request | 415 000 |
| `lease_key_expiry`, `runtime_replay` | violated; see 6 | | |

Why the bounds are enough to be of interest. Two leases are needed for one to purge or exclude the
other, two instances for one to reclaim from the other; the weights 2 and 1 let a limit be missed by
one unit. Three leases matter where two requests of the surviving instance compete with the slot of
the dead one (`lease_crash`). In a refresh two attempts meet in every pair of points of the workflow,
and a third is needed for a clean-up task to overlap with a leader and a waiter. In the queue, two
requests of one process and one of another fill local and shared limit differently. The breaker needs
an operation of an old generation, a probe and one more for the permits, and a second opening for a
result to be two generations late. In the pool one restart separates two epochs, and one fault places
a cancellation, a failure or a kill at any point of the reconciliation of that restart; the second
process, whose own calls succeed, is the one that must not be granted a lease too early. In the view one account suffices because accounts
are merged independently; a full and a targeted sync of it, a direct read and an own and a foreign
lease meet in every order. In the persistence two results make one coalesce with, or overtake, the
other, and a command on either side of them changes the generation. All the state spaces are finite:
lease ids, attempts, tries, results and commands are used up; the named bounds are `MaxTries`,
`MaxGeneration` (openings of the breaker), `MaxRestarts`, `MaxFaults` and `MaxLeaving`. Deadlock is
checked where the system cannot stop (`breaker`); elsewhere all requests or attempts may be used up.

What the properties exclude on purpose: `DispatchedWithinLimits` and `HeldIsRegistered` are stated
for instances that keep up their heartbeat and without age limit and administrator's clearing, because
those take slots of running requests away by design. `NoSlotIsLeaked` is checked with key expirations of
one account only; with both see 6. `SingleFlight` is checked without pauses: a leader
that outlives its lock runs beside the next one, and `NoTokenReturns`, checked with pauses, says why that
does no harm to the stored token. `OneEpochRuns`, `RunningIsCounted` and `KeepsLimits` exempt the leases
whose heartbeats a barrier has outrun and, except the second, those of a probe window: the code grants
them, and the properties say that nothing else goes wrong. `RunningIsCounted` has no exemption for the
probe window: it says that the window ends, with everything counted or fenced, as soon as one process
has probed and checked the new Redis. `QuarantineHeld` and `NothingForgotten` name their exceptions; see 6.

## 4. Fairness

`InFlightLease!Fairness`: the release dispatcher retries an intent, with bounded back-off, until it is
answered, so its answered attempt is strongly fair (answers may be lost, not for ever). Redis executes
or loses every call on the way. The heartbeat worker ticks every five seconds and starts a reclaim pass;
a pass may time out, the next one tries again, so its calls are strongly fair. The heartbeat key of a
dead process has a TTL and goes. Nothing is assumed of requests, of the administrator or of the age
limit; in particular no request need ever finish.

`DispatchQueue!Fairness`: the same for releases and calls; an entry's score passes; an expired key goes.

`RedisBreaker!Fairness`: every operation runs under a deadline and so ends, and its report or its `Drop`
follows; time passes; requests and the preflight keep asking for admission. Nothing says that a
permit is ever granted.

`SchedulerView!Fairness`: the spawned worker runs; its read, tried again as long as a mark is left, is
answered in the end (strong fairness: it may fail in between); selections go on and are now and then
more than the minimum interval apart; releases that have begun are finished; a direct read that has its
answer merges it. Direct reads themselves, events and full-sync requests need not happen.

`RuntimePersistence!Fairness`: the worker runs every few seconds, PgSQL answers it in the end (strong
fairness), and a thread between two locks goes on. No result, command or reload need happen.

`ExternalPool!Fairness`: calls end; requests keep coming, so that a stale guard is noticed, and the probe
interval passes (`Probe` in `Reconcile`); a waiter for the advisory lock is served when it is free again
and again; the connection pool closes idle connections; requests end; the barrier expires.

## 5. Proofs

`InFlightLeaseProofs` proves, for every set of instances, accounts and leases, all weights and limits
(`ConstantsAssumption`: finitely many leases, weights between 1 and `MaxWeight`, limits natural
numbers, 0 for none), with pauses, kills, key expirations and administration at will:

| Theorem | Statement | Argument |
|---|---|---|
| `TypeCorrect` | `Spec => []TypeOK` | inductive as it stands |
| `ReleaseIsFinal` | `Spec => []ReleasedStaysReleased` | from `LeaseInv`, below |
| `CountersExact` | `Spec => []CountersAgree` | `CountInv == CountersAgree /\ WithinLimits`, with `TypeOK` and `LeaseInv` |
| `LimitsKept` | `Spec => []WithinLimits` | the same |
| `SlotsAreListed` | no lease of a mortal process is on an account in `KeyExpiry` `=> (Spec => []NoSlotIsLeaked)` | from `ListedInv` and `CrashInv`, below |
| `HeldStaysRegistered` | `Pauses = {} /\ ~MaxAge /\ ~Admin => (Spec => []HeldIsRegistered)` | from `ReclaimInv` and `HeldInv`, below |
| `DispatchKeepsLimits` | the same with `Stoppable = {}` `=> (Spec => []DispatchedWithinLimits)` | from those, `AloneInv` and `RoomInv`, below |

`ReleasedStaysReleased` speaks of a lease whose release has reached Redis, and is not inductive: the
acquire call of that lease may still be on the way. `LeaseInv` says for every lease what its guard
implies about the call, the intent, the tombstone and the registries: a lease whose call is on the way
is registered nowhere; only a guard that is waiting, dispatched as unknown, released or dead has a call
on the way; a guard that owes Redis a plain release has none; and a released one with no intent left is
registered nowhere and has a tombstone as long as its call is on the way. The tombstone is thus exactly what closes the gap.

The counters are the harder half. Each remover subtracts what it removed from a counter it does not
recompute, in two registries whose sets differ; that the subtractions are exact follows from lemmas on
weights (`Weight` of a disjoint union, of a difference, of a subset, of a singleton, its finiteness)
that count units as a finite set. With exact counters the script's comparison with the limit is one
with the real weight, and both limits follow.

The last three theorems have hypotheses, and each names a behaviour of the code that breaks the
property by design or by finding 1. `SlotsAreListed` excludes what `lease_key_expiry` shows: the keys of
an account expire under a request whose process is then killed. `CrashInv` ties a dead guard to a dead
process, so that a slot whose owner set has been lost still has a ledger that will release it.
`HeldStaysRegistered` excludes the three operations that take the slots of running requests on purpose:
the reclaim from a process that is only paused, the sweep by age and the administrator's clear. What is
left is to show that a reclaim pass, which works on a list it read earlier, never holds a lease of a
running process (`ReclaimInv`), and that a slot is registered from the script's answer on, before the
guard knows (`HeldInv`). `DispatchKeepsLimits` is about requests, not about Redis: an instance that
believes itself alone goes on without a lease. `AloneInv` shows that the belief, though a cached flag, is
right as long as no other instance starts (in the model all are registered from the first state), and
`RoomInv` that its ledger alone keeps to the limits. With a shutdown it does not hold: the instance that
stops deregisters while its requests still run, and TLC finds the counterexample with `Stoppable = {i1}`.

`TokenRefreshProofs` proves, for every set of instances and attempts of every kind, with all faults
(`RefreshAssumption`: tokens of attempts, of the administrator and the first one are told apart; a forced
attempt applies no health action, as the code passes `caller_can_claim_health = false`):

| Theorem | Statement | Argument |
|---|---|---|
| `TypeCorrect` | `Spec => []TypeOK` | inductive as it stands |
| `KeysConsistent` | `Spec => []LockMatchesOutcome` | inductive given the types: one lemma per script |
| `RefreshIsSingleFlight` | `~Pauses => (Spec => []SingleFlight)` | from `LeaderInv`, below |
| `TokensStayReplaced` | `Spec => NoTokenReturns` | from `NewsInv`, below |
| `HealthActionsRunOnce` | `Spec => []HealthAtMostOnce` | from `HealthInv`, below |
| `SuccessesAreReal` | no attempt of kind `lead`, or no edit of the context `=> (Spec => []AnnouncedSuccessIsReal)` | from `NewsInv`, below |

`SingleFlight` only says that no two attempts are between send and write. That the next leader's begin
keeps it needs to know that the attempt under way still holds the lock: `LeaderInv` says so for every
state between the begin answer and the publication, and each script is shown to take no lock from
another attempt (`BeginScriptKeeps`, `FailureScriptKeeps`, ...). The assumption `~Pauses` enters at one
place only, the step `LockExpires`. The other theorems do not need it.

`HealthAtMostOnce` speaks of a counter that several attempts may increase for the same failure. A claim
may expire and be taken by another waiter while the first is about to acknowledge it, and the record may
be gone or be another one by then. `HealthInv` follows an action from the record to the attempt that
acknowledged it: a failure on record is the last thing its attempt publishes (`RecordInv`, with
`Over`: it never begins again), a claim in the record is on the failure its holder means (`AckInv`), an
acknowledged action is with one attempt and cannot be handed out again (`ApplyInv`), nor can one that has
run (`RanInv`). The step that publishes a failure is the delicate one: its attempt leads, so it is not
`Over`, so nothing of it was handed out before.

`AnnouncedSuccessIsReal` compares the token of the announced identity with the token in PgSQL, and is
kept only because a token once replaced never comes back. That is a statement about the history of the
row, which the state does not hold; the invariant says that there is a set of tokens that can be that
history: `NewsInv` contains `\E P : TokenInv(P)`, where the present token is not in `P`, every account in
memory, in an attempt's hands or on its way to the row carries a token of `P` or the present one, an attempt whose own
token is among these was sent with one of `P`, and whoever has a success to announce began with one of
`P`. A write adds the replaced token to `P`; the new token was never there because its precondition
compares with the present one. The last part, on successes, holds only under the hypothesis of
`SuccessesAreReal` (`Renewing`), which is needed in one place, `ConflictNews`; the observation on
refreshes ahead of expiry in 6 is the counterexample without it.

`NoTokenReturns` is what the rest of the invariant gives without any hypothesis: a token that a write
brings into PgSQL is remembered by no process and no attempt. A write may be sent twice, be executed
after its attempt has given up or lost its lock, and meet edits and tokens of later refreshes; its guard
compares with the token it was sent with, and only the history of the row says that this token, once
replaced, cannot be there again for the late write to replace.

`RedisBreakerProofs` proves, for every finite set of operations, every number of permits, of tolerated
failures, of excuses and of openings (`BreakerAssumption`) and for all three kinds of breaker:

| Theorem | Statement | Argument |
|---|---|---|
| `TypeCorrect` | `Spec => []TypeOK` | part of `Inv` |
| `ProbeSafety` | `Spec => []SingleProbe` | from `Inv`, below |
| `GenerationSafety` | `Spec => []OnlyCurrentCounts` | the same |
| `OutageSafety` | `Spec => []OutageOpens` | the same, with `SilenceCounted` |

`SingleProbe` and `OnlyCurrentCounts` need each other: that a failing probe finds the breaker in its own
generation is what makes it leave half-open, and that there is no other probe is what keeps the probe
current. `SilenceCounted` says that the timeouts nobody answered are covered by the excuses and the
failures counted so far, which the two halves of a report change at different times.

`DispatchQueueProofs` proves, for every finite set of requests on any processes, all limits, permits and
tries and with all faults (`QueueAssumption`):

| Theorem | Statement | Argument |
|---|---|---|
| `TypeCorrect` | `Spec => []TypeOK` | needs `LocalCountExact`: a counter that is decremented is positive |
| `CounterExact` | `Spec => []LocalCountExact` | from `CountInv`, below |
| `PermitsKept` | `Spec => []PermitsExact` | the same |
| `WaitersCounted` | `Spec => []QueuedIsCounted` | from `AdmittedInv`: an entry is in the queue from the moment the script says yes, before the waiter knows |
| `LimitKept` | `Spec => []NewWithinLimit` | by cardinality: only the script adds an entry, after it has pruned and counted |

`CountInv` adds to the two counting statements `IntentInv`: a release is queued only for a dispatch that
is over. Without it a release queued twice for the same entry would be one element of the set of queued releases and
one permit would be gone. The actions of a request are reduced once, in `RequestShape`, to
what each does to the guard, the permit and the try; the counting lemmas are about that shape, not about
the fourteen kinds of step.

`SchedulerViewProofs` proves, for every set of accounts, own and foreign leases and callers
(`ViewAssumption`):

| Theorem | Statement | Argument |
|---|---|---|
| `OwnedSafety` | `Spec => []OwnedIsExact` | inductive together with the types |
| `MarkSafety` | `Spec => []MarkIsNoticed` | inductive given the types |
| `FreshSafety` | `Spec => []QuietViewIsFresh` | from `FreshInv`, below |

`QuietViewIsFresh` says nothing of a snapshot on its way from Redis to the entries, which is where a
release is forgotten. `SnapInv` does: a foreign lease in the worker's snapshot is still in Redis, or its
account has an event under way, a mark, or is astray. `FullInv` is needed for the full sync, whose flag
is cleared by a forced read of somebody else while the worker has not read yet: then all accounts are
astray. `JobsInv` keeps every snapshot within the accounts it was asked for.

`ExternalPoolProofs` proves, for every set of processes, every finite set of leases on any pools, all
limits, restarts and faults (`PoolAssumption`):

| Theorem | Statement | Argument |
|---|---|---|
| `TypeCorrect` | `Spec => []TypeOK` | inductive as it stands |
| `CountedSafety` | `Spec => []RunningIsCounted` | from `CountedInv`, with `GuardInv` and `LeaseInv` |
| `OneEpochSafety` | `Spec => []OneEpochRuns` | from `PoolInv` and `OneInv`, below |
| `ImplementsBoundedPool` | `Spec => KeepsLimits` | from `LimitInv`, below; the refinement of `BoundedPool` step by step |

All of it is about `Promised`: the requests that are held and those whose grant is on its way back, which
no property mentions and every proof needs. An epoch is installed once: one that a process, or the
command it left behind, will still install is `Unused` by everybody (`PendingInv`), and one that is to be
installed without a barrier finds that no epoch was ever used (`FirstInv`).

A restart may keep an epoch and lose what it stood for. What makes an epoch trustworthy is the run id:
the epoch in Redis is `Live` if the row, a process or a lease ties it to the Redis that runs now. A
restart makes every epoch dead (`RestartKills`, from `RunInv`: nobody has a run id still to come, and the
row is of the Redis that the holder of the lock has read), and only the installation of a new one makes
the epoch live again (`LiveStep`). A live epoch counts all its promises (`CountedInv`), and without a
barrier it is the epoch of all promises that no barrier has outrun (`BarrierInv`); a new epoch has no
promises yet, and goes with a barrier unless it is the first. A grant that is not blind is made under a
live epoch, so the sound promises are of one epoch (`OneInv`), all counted, and the script's test for
room is exact for them (`LimitInv`). No theorem has a hypothesis on the environment; the exemptions are
per lease, in the history variables. The refinement maps the arrival of a grant to `BoundedPool`'s start
if the lease is sound; the loss or end of a request, or the moment it stops being sound, to its end; and
everything else, restarts and reconciliation included, to a stutter.

`RuntimePersistenceProofs` proves, for every finite set of results and commands of this and of other
processes (`RuntimeAssumption`):

| Theorem | Statement | Argument |
|---|---|---|
| `TypeCorrect` | `Spec => []TypeOK` | from `Types`: also snapshots and answers under way carry no revision ahead of the row |
| `NothingIsForgotten` | `Spec => []NothingForgotten` | with `FrontInv`, below |
| `QuarantineSafety` | `Spec => []QuarantineHeld` | from `QuarantineInv`, below |
| `ReplayOnceInOrder` | `Spec => AppliedOnceInOrder` | from `OrderInv`, below |

The steps are first reduced to three shapes (lemma `Moves`): a step `Aside` the queue, one that `Puts` a
mutation into it, once and with the next number, and the worker's. `FrontInv` says that the front of the
queue is still what the worker copied, although successes may be merged into it meanwhile, and that the
worker removes it only once PgSQL owes it nothing. `OrderInv` puts the number of everything not applied
above that of everything that was; a write that went without an answer is in `done` and has no effect
again. `QuarantineInv` is about the flag, not about `disabled` itself: reloads, answers and commands
recompute `disabled` from it (`Keeps`), and the worker's computed flags agree with the queue unless a
mutation was queued in between, which is what `overtaken` records.

Only model-checked: the liveness properties (`DeadLeasesReclaimed`, `ReleasesDrain`, `QueueDrains`,
`TriedOutAgain`, `GuardRestored`, `ViewConverges`, `ReportsDrain`), which are out of the prover's reach.
Every invariant and every safety action property of the passing runs is a theorem. Each inductive
invariant was checked by TLC on the constants of the runs before it was proved.

## 6. Findings and further observations

Two statements of the repository have a run in which TLC finds the counterexample.

1. `lease_key_expiry`. `README.md:269` promises that an inactive slot is released automatically. The
   registry keys of an account get their EXPIRE when a lease is acquired and are not extended when one
   is touched. They expire under a long request; the next touch removes the lease from the global
   last_seen set and the heartbeat drops it from the owner set; if the process is then killed, the
   global acquired set holds a slot that no sweep, purge or reclaim will find. It is given back only
   when the global keys themselves expire, that is after a time without any acquire at all.
2. `runtime_replay`. `feature/issues/high-concurrency-low-rpm-runtime-quarantine.md:121` says that the
   pending mutations finally reach zero. A command given during a recovery is queued with the generation
   read before, and the entry's generation is increased separately. If another process has advanced the
   row meanwhile, or the command is replayed between its two halves, the entry ends up ahead of the row;
   what is queued then is refused at every replay as ahead ("generation 超前"), and reloads leave the account
   alone while anything is pending. The account stays quarantined until a restart.

Further observations, made with the same modules under other constants or while writing them:

- Shutdown (`redis_cache.rs:5858`) releases what it read of the owner set, then deletes the set and the
  registration; a request past the stopping check may acquire in between and is lost to the reclaim
  (`DeadLeasesReclaimed` with a stoppable instance, without age limit).
- A refresh ahead of expiry accepts a write conflict because the stored token is not expired, although
  it is the old one and only another field was edited: `AnnouncedSuccessIsReal` fails with
  `Kind <- AheadOfExpiry` and `Edits = {"context"}` (`manager.rs:9584`, comment at 9592).
- `merge_refresh_fields` (`manager.rs:9364`) copies token and revision into memory without comparing
  revisions; `MemoryNeverRegresses` of `TokenRefresh` states what fails. The next reload repairs it.
- `types.rs:128-129` bounds the queue by its limit plus the slots, with at most one retry per slot just
  released. A new request may take the slot just released and fail in turn, so retries accumulate.
- In the view, a lease released between the filter and the merge of a snapshot comes back as a foreign
  one until the next sync (`concurrency.rs:37-38` says that it does not). `ViewConverges` shows that it
  leaves again.
- The worker's flags are computed under one lock and written under another (`manager.rs:11302-11332`): a
  disabling queued in between loses its quarantine until the flags are computed again. `QuarantineHeld`
  excludes exactly that case (`overtaken`).
- A success merged into a mutation that the worker has copied already is lost with the pop
  (`manager.rs:2261-2281`).
- A restart of Redis that keeps the epoch and loses the leases lets a process with a cached epoch be
  granted leases over the limit until its next probe, up to 5 s later (`external_pool.rs:5674-5679`). The
  document says so (`external-pool-redis-coordination-and-release.md:101`); `blind` marks these leases.
- The heartbeat of an external-pool lease tolerates errors for up to 358 s, while the barrier is a key with
  a fixed life of 35 s (`redis_cache.rs:4676-4679`). A process that is cut off from Redis thus goes on with
  its requests of the old epoch after the barrier; and so does one whose own calls all succeed, if another
  process has left the advisory lock on a pooled connection: that one takes the lock again on the same
  session and installs the new epoch, while the heartbeats of the other wait for the lock
  (`external_pool.rs:8863`, `5737`), time out and are tolerated (4054-4071). `FencedFirst` of `ExternalPool`
  states what `external_pool/tests.rs:10332` ("new lease must not precede old upstream fencing") and
  `feature/issues/external-pool-redis-coordination-and-release.md:39` promise; line 100 there excepts only
  a process that stands still for longer than the margin. TLC refutes it on the constants of `pool` in
  24 states. `missed` marks the requests concerned.

## 7. Not modelled

Conversion between APIs, prompt caching, token estimates, usage figures, administration pages, HTTP and
TLS, configuration, logging and metrics have no concurrent protocol and are left out, as are the web
front ends, tools and scripts. They are most of the repository's lines.

Of the modelled parts: an instance that starts while another one believes itself alone, the choice of
the account (a lease's account is given), the values of time-outs and TTLs (only their order), the text of errors, the release
dispatcher's back-off and batching, and its kinds of intents other than leases and queue entries. The
scheduler breaker appears in the lease, queue and view modules as the choice that a call does not start;
its own behaviour is `RedisBreaker`. In the view, everything but leases. In the persistence, refresh
failures, the variants that write before they return, and changes of other fields. In the external
pools, cooldowns, pool breakers, quality samples, the degraded local fall-back and failover.

Smaller omissions, none of which a property depends on unless said so: a queue entry whose renewal fails
although its waiter is not paused (`manager.rs:6213`; `QueuedIsCounted` assumes that it succeeds); the
acquire script's purge by age, which publishes no event (`ForeignReleases` always does, so
`QuietViewIsFresh` is about released leases), and the merge's own filter by age
(`redis_runtime.rs:170-172`); the worker's start without a tokio runtime (`manager.rs:12207-12211`); the
reload's check of the storage revision (10483-10485; the model reloads more often); an administrator who
puts an old token back, or tokens that an identity provider issues twice (`NoTokenReturns` assumes that
they are told apart). Merged into one step are: EXISTS and ZRANGE of a reclaim (`ReclaimRead`), the
local counter's increment and its rollback without a permit (`EnterQueue`), and the read of the
generation with the check for a recovery (`AdminStart`).

Not modelled yet: session binding, selection and its strategies, cooldowns and auto-heal, the provider's
retry budget, request admission, streaming, the event-stream decoder and the refresh bucket.

## 8. Plan

In the order of importance:

1. Proofs: the hypotheses of `HeldStaysRegistered` and `DispatchKeepsLimits`, lease by lease instead of
   for the whole system; the step invariants of the liveness arguments.
2. Instances that start later in `InFlightLease`, with the gap until the next heartbeat of the others.
3. `SessionBinding`, `RequestAdmission`: small protocols with one script or one lock each.
4. `RefreshBucket`, `EventStreamDecoder`, `StopSequence`: algorithms, checked against reference
   definitions over bounded inputs.
5. `ReleaseDispatcher`: the worker itself, with back-off, coalescing and shutdown.
6. A weighted semaphore as abstract specification of the leases, and a single-flight cell for the refresh.

# A TLA+ model of cve_management

cve_management is a FastAPI service (`src/backend-py`) with PostgreSQL, Redis
and a Next.js frontend. It mirrors CVE data from public providers, matches it
against an inventory of products, and tracks the resulting *findings* through a
triage workflow with risk acceptances, dashboards and webhooks. Several
replicas may run; each has its own APScheduler. What is hard in it is not a
computation but what happens when replicas, requests and jobs meet in the same
rows and keys, with no lock held across their steps. That is what most of the
modules are about; a few more check the computations that decisions rest on
(version ranges, scores, due dates) against what they should satisfy.

All source paths below are relative to `src/backend-py/app/` unless they start
with `src/` or `docs/`.

## 1. Inventory

| Component | State | Operations | Hard part |
|---|---|---|---|
| **Product sync queue** `workers/sync_job_worker.py`, `workers/product_sync.py`, `api/routers/products.py` | `sync_jobs` (status, attempts, locked_until, scheduled_at, completed_at), `products.sync_status` | enqueue (create, manual, resync-all), claim, sync, complete, fail, purge | replicas race for rows; locks expire; workers vanish; answers are lost |
| **Finding lifecycle** `api/routers/findings.py`, `risk_acceptance.py`, `workers/risk_acceptance_expirer.py` | `findings.status`, `findings_history`, `risk_acceptances` | PATCH, request, decide, delete product, sync upsert, daily expiry, the retention's cascade | reads outside the transaction that writes; rows that go meanwhile |
| **Leader election** `core/leader.py`, `main.py` | Redis key `scheduler:leader`, `is_leader` per process | acquire, refresh, release, cron jobs | late answers, partitions, expiry, cancelled calls |
| **Webhook delivery** `workers/webhook_worker.py`, `services/webhooks.py` | `webhook_deliveries`, `webhooks.enabled` | create, enqueue, claim, post, record, retry, purge, pause, delete | an attempt that outlives its lock; a crash after the post |
| **Circuit breaker** `ingestion/circuit_breaker.py` | state, failure count, opened_at, per provider and process | call, success, failure; callers that look at the state first | overlapping calls |
| **Ingestion** `ingestion/ingest_worker.py`, `vulncheck_client.py`, `nvd_client.py` | `cves`, `sync_state` checkpoint | bulk, delta, NVD fallback | changes during a run; failed batches under an advancing checkpoint |
| **Enrichment** `ingestion/enrichment.py`, `epss_client.py`, `kev_client.py`; retention in `workers/scheduler.py` | `cves.epss_*`, `is_kev`, `epss_history` | EPSS and KEV refresh, retention | retention against a KEV mark that is not there yet |
| **Exploitability** `ingestion/exploitability_refresh.py`, `vulnx_client.py`, `query/vulnx_enricher.py`, `api/routers/intel.py` | `cves.has_public_poc`, `has_nuclei_template`, `exploitability_updated_at`, `findings.priority_score`, Redis in-flight keys, a daily counter | daily refresh, lazy refresh, intel refresh, recomputation of scores | a budget shared by all paths; a page that must not fill up; scores read and written on two connections |
| **Query engine, CIRCL** `query/query_engine.py`, `circl_client.py`, `local_query.py`, `api/routers/circl_router.py`, `ingestion/rate_governor.py` | `cves`, `findings`, Redis `circl:*`, a token bucket | local query, CIRCL fallback, search page | two writers of one key; what was committed before a failure; the bucket |
| **Response caches, OpenCVE** `core/cache.py`, `query/opencve_client.py` | Redis `cves:product:*` | fill, invalidate | a cache filled after it was invalidated |
| **CPE resolution** `resolution/cpe_normalizer.py`, `resolution_cache.py` | `resolution_cache` table and Redis | resolve | no caller in the application at this commit |
| **Version matcher** `resolution/version_matcher.py` | none | compare, range, verdict | pre-releases, patch letters, missing parts, wildcards |
| **Scoring and SLA** `models/priority.py`, `services/sla.py`, `api/routers/cves.py`, `dashboard.py`, `sla.py` | none | score in Python and in SQL, due date, SLA state | two implementations of one formula; boundaries |
| **Auth** `services/auth_service.py`, `api/routers/auth.py`, `api/dependencies/auth.py` | `users`, `audit_log`, JWTs that nobody keeps | login, refresh, bearer check, role check | role changes against live tokens and between the awaits of a login |
| **Snapshot** `workers/daily_snapshot.py` | `exec_snapshots` | capture | once per day over restarts, leaders and late firings; counts read at different moments |
| Read routers, audit, HTTP and SSRF wrappers, configuration, frontend | none of their own | reads, logging | — |

Interactions: the routers and the queue share `sync_jobs`; a sync writes
findings; the deletion of a product closes findings and so meets the sync and
the sweep; leader election gates the cron jobs (delta, EPSS, KEV, retention,
cleanup, snapshot, expiry) while the two queues are drained by every replica;
the breakers stand between the jobs and query engine and the providers.

What makes each component correct, in short: a product is synced by one replica
at a time and no waiting job is lost (though a more urgent one may starve it); an
acceptance in force was granted by
somebody else than its requester and comes to an end; two replicas lead at once
only while one of them has not heard from Redis for a TTL; a delivery is posted
a bounded number of times and ends; a breaker opens at its threshold and closes
again when the provider is well; the mirror never goes back to an older version
of a CVE, keeps the KEV ones, and catches up with the feeds; what vulnx says
reaches the scores within its budget; an answer that names CIRCL shows findings,
and CIRCL is asked no more often than allowed; a range of versions is an
interval and may be cut in two, a worse CVE never scores lower, and the two views of a score or of a
due date agree; authority outlives its withdrawal by a known time only, and
logins are on record; a day of the trend has its row, or a known reason why not.

## 2. Modules

| Module | Models | Extended by |
|---|---|---|
| `SerialSync` | abstract: syncs of a product are serial and only they move its status | instantiated by `SyncQueue` |
| `SyncQueue` | the sync queue | `MCSyncQueue`, `SyncQueueProofs` |
| `FindingLifecycle` | findings, history, acceptances | `MCFindingLifecycle`, `FindingLifecycleProofs` |
| `LeaderElection` | the elector, Redis' key, the gated jobs | `MCLeaderElection`, `PolicyProofs` |
| `BoundedDelivery` | abstract: a delivery as its receiver sees it, with attempts granted, spent and settled | instantiated by `WebhookDelivery` |
| `WebhookDelivery` | the delivery queue | `MCWebhookDelivery`, `WebhookDeliveryProofs` |
| `CircuitBreaker` | one breaker with its callers | `MCCircuitBreaker`, `PolicyProofs` |
| `CveMirror` | delta ingestion, KEV refresh, retention and on-demand inserts on the `cves` rows | `MCCveMirror`, `CveMirrorProofs` |
| `Exploitability` | the paths from vulnx to the flags and scores, with the product sync that writes scores too | `MCExploitability`, `ExploitabilityProofs` |
| `CirclFallback` | the query engine's tiers 1 and 2, the CIRCL client, the bucket, the search page | `MCCirclFallback`, `CirclFallbackProofs` |
| `Auth` | login, refresh, bearer and role check, the audit rows of logins | `MCAuth`, `AuthProofs` |
| `VersionMatcher`, `Scoring` | pure functions, with a variable that holds one set of arguments | `MCScoring`, `PolicyProofs` |
| `DailySnapshot` | the capture job in all replicas | `MCScoring`, `PolicyProofs` |

Conventions: one action per statement or transaction that other actors can
come between; a handler that reads on one connection and writes later in a
transaction is two actions; a transaction is one. Time is relative: instead of
timestamps a row holds how long a lock still lasts or how far a date is away,
and `Tick` (or `NextDay`) moves all of them, so that the state space is finite
without cutting behaviours off. Definitions called *Mutant* are variants with a
plausible mistake; they are used by no specification.

**SyncQueue.** `jobs` is the table (a row not inserted yet is "absent", one
dropped by the cleanup "purged"; ids never run out, so an element of `Job` is one
row after another: `Free`), `products` holds `sync_status`, `workers` the
place of each replica inside `process_one_job`. `Claim` is `_CLAIM_SQL` with its
order; `BeginSync`, `NoCandidates`, `RecordResult`, `InvalidateCaches` the
committed writes of `sync_product`; `Complete`, `Fail` the two recording
statements, both by id only. `CompleteUnacknowledged` is a commit whose answer
is lost, so that the except branch runs on a completed job; `Abandon` a replica
that vanishes (crash, cancelled poll, or a failing `_FAIL_SQL`). The unique index
`uq_sync_jobs_active` is `IndexRefuses`.

**FindingLifecycle.** `request` holds what a two-step handler has read.
`PatchRead`/`PatchCommit` is `update_finding`; `CreateRead`/`CreateCommit` and
`DecideRead`/`DecideCommit` the acceptance handlers; `SweepFetch`/`SweepCommit`
the expiry transaction, which locks `risk_acceptances` rows but not findings;
`DeleteProduct`, `SyncUpsert` and `RetentionCleanup` single transactions. The
retention's DELETE of old CVEs cascades to findings and from there to their
acceptances, but not to `findings_history`: a finding with a history row makes it
fail (`HistoryAllows`). A later sync inserts the pair again, under a new id, so a
finding is identified by its id and a pair may have several, one at a time; what a
handler has read may have gone when it commits.

**LeaderElection.** Names that other modules have too carry the prefix
`Elector`. A Redis command takes effect when it is sent or not at all,
and its answer (`call[n].answer`) comes later, or is an error whatever the
effect was. `leader[n]` is the flag; `lease[n]` is auxiliary: the time since
Redis last extended the key for n, counted down from the TTL. `Cut` and `Heal`
separate a process from Redis; `job` is the set of processes inside a cron job.

**WebhookDelivery.** `rows` is the table, `tasks` the coroutines of
`_attempt_delivery` in any replicas, with the age of their claim; `posts` counts
requests sent per delivery; `hook` is the webhook, created, paused and deleted
through the router. A task that fails records it (`RecordFailure`), may then
update the webhooks row (`BumpFailure`), and whatever raises ends in the handler of
`_bounded`, which records a failure too (`HandleError`), be it for the second time.
At this commit nothing calls `enqueue_delivery`; it is modelled as the operation it offers. `BoundedDelivery` forgets the locks, the
backoffs, the clock and the webhooks row: a claim is a `Grant`, which the task
spends by posting or loses (`Spend`), and a row becomes delivered only by a task
that heard a 2xx (`Hear`, `Record`).

**CircuitBreaker.** `caller` is each coroutine's place in `call`; the ones in
`Guarded` look at `.state` first and turn away if it is OPEN. `provider` is the
condition of the provider, which may change during a call.

**CveMirror.** `upstream` is what the feeds have (`Change` is external),
`cves` the rows with the three columns the writers' conditions read,
`checkpoint` the two seeded `sync_state` rows. `run[r]` is a process inside
`run_smart_delta`: its source, its window and the next page's index, and the
batch in hand. A page has one record; it is asked for by index in what the window
holds *at that moment*, so a record that leaves the window shifts the others.
`Flush`, `FlushFails`, `Checkpoint`, `PageFails` are the outcomes of
`_upsert_batched` and its caller; `open` the processes whose VulnCheck breaker
is open, which no delta run ever closes (see `BreakerGuarded`). `KevRead` and
`KevWrite` are the two connections of `run_kev_refresh`; `Retention` and
`LiveInsert` (CIRCL, OpenCVE) single transactions. The clock counts upstream
changes, so every change between two moments can be told.

**Exploitability.** What vulnx holds of a CVE is a version number, and a score
is the pair of versions (flags, other signals) it was computed from, so that a
score made from old data can be told. A `task` is the daily job, a background
refresh, an intel request or a sync; all ask in batches that `consume` debits
first (`AskBatch`, `Answer`, `BatchFails`), then `Store`, `Stamp`,
`ReadForRecompute` and `Recompute` are its statements, in the order each path
has (`JobAfter`, `LazyAfter`, `IntelAfter`). CVEs are numbered in the order of
the job's SELECT, so a page or a batch is `First(S, n)`, the n most urgent of a
set; `todo` is what a task has still to claim or to ask, and after its batches
what it never asked because the budget refused. `row.age` counts days up to the
limit of staleness. A `Day` passes when the day's run and midnight have come.

**CirclFallback.** One vendor and product, so one Redis key; products that share
it. `Ask` is tier 1 and the tests before tier 2, `Lookup` the cache, `Link` the
hit, `Wait` and `Fetch` a page through the bucket, `Store`, `Fill`, `Requery` the
rest. Tokens are counted in fractions, `Cost` to a request. `born` and `sent`
say since when, and how often, this process has asked. `purged` marks a query
during which the retention ran. The breaker's refusal is a parameter of `Ask`.

**Auth.** `tokens` are all that were ever handed out; `req` the handlers between
their awaits, with the row they have read. `held` is auxiliary: when a user was
last active in a role. `MaxWait` is an assumption, the longest a handler takes
from reading the row to minting; nothing in the code bounds it (the pool's
`acquire` has no timeout).

**VersionMatcher, Scoring.** Operators with the names of the source. A version
is a sequence of parts, a part its number, the shape of what follows and the rank
of that text. A verdict is asked for on entries of any kind and on a range given
whole and in two; EPSS is counted in 80ths, CVSS in tenths, age in half days, so
that every rounding and every boundary of the code occurs.

**DailySnapshot.** `run[n]` is the capture of replica n between its statements,
`due` the `next_run_time` of its job, `missed` the days whose turn came and went
without a capture. Time does not wait for a job that is due: `Fire` may come late,
then stands for all turns gone by (APScheduler coalesces), captures nothing if its
turn is more than `Grace` ago (`misfire_grace_time`, which the code leaves at one
second), and takes the date when the coroutine starts. Whether the replica leads at
that moment is chosen freely.

## 3. Runs

| Run | Expect | Shows |
|---|---|---|
| `SyncQueue` | pass | 2 products queued again without limit, 2 rows in the table at once, 2 replicas, 2 attempts, 1 vanishing worker. `OneActiveJobPerTarget`, `NoConcurrentSync`, `RetryBudget`, `PendingSettles`, and the refinement `ImplementsSerialSync` |
| `SyncQueueStuck` | violation | `StuckJobsAreReclaimed`: docs/RUNBOOK.md:55-57 says a running row with an expired lock is claimed again; the claim takes pending rows only |
| `FindingLifecycle` | pass | one pair with two findings one after the other, 4 requests, 2 acceptances, 2 users, 2 days. `SegregationOfDuties`, `StatusIsOnRecord`, `ApprovalsRunOut` |
| `LeaderElection` | pass | 2 processes, TTL 3, 2 partitions. `OneFreshLeader`, `LockIsNotStolen`, `LeadershipIsRegained`, `StaleLeaderStepsDown` |
| `WebhookDelivery` | pass | 1 delivery, 3 tasks, 3 attempts. `PostsWithinBudget`, `FreshClaimIsExclusive`, `DeliverySettles`, and the refinement `ImplementsBoundedDelivery` |
| `CircuitBreaker` | pass | 4 callers of which 1 guarded, threshold 3. `OpenLastsRecovery`, `BreakerRecovers` |
| `BreakerGuarded` | violation | `BreakerRecovers` with guarded callers only, which is how the circl and vulncheck breakers are used: once open, never closed |
| `CveMirror` | pass | 2 CVEs of which one is of an earlier year and exploited, 2 processes, 1 change, 1 failure. `NoRegression`, `KevIsMarked`, `MirrorCatchesUp` |
| `Exploitability` | pass | 2 CVEs in pages of one, one task of each kind, a budget of two CVEs a day, staleness after 2 days, 2 changes or faults. `IntelIsItsOwn`, `StaleIsRefreshed`, `ScoresCatchUp` (the budget is in `TypeOK`) |
| `Scoring` | pass | versions of up to two of six kinds of part, ranges cut at four versions of which two are the same one spelled differently, the CVSS, EPSS and age values on both sides of every boundary, and two replicas that take snapshots over two days. `CompareIsAnOrder`, `RangeIsAnInterval`, `SplitRangeIsWhole`, `ScoreIsMonotone`, `ScoresAgreeOffTheEdges`, `SlaViewsAgree`, `RiskScoreIsAPercentage`, `NoUnexplainedGap` |
| `Auth` | pass | 1 user with two roles, 2 handlers, access tokens of 2 and refresh tokens of 4 units. `AuthorityIsRecent`, `LoginIsOnRecord` |
| `CirclFallback` | pass | 2 products, 2 CVEs and an id that is none in two pages, 2 queries, 1 search, a burst of two requests. `GovernedBudget`, `CirclAnswerHasFindings` |

The properties `DeadIsFinal`, `CompletesWhatItSynced`, `DeliveredIsFinal`
(which `ImplementsBoundedDelivery` implies too), `KevIsKept`, `ClosedBelowThreshold`, the append-only history of findings, the
bound of `MaxAttempts` posts per delivery and the type invariants of `SyncQueue`,
`FindingLifecycle`, `LeaderElection`, `CircuitBreaker` and `CveMirror` are proved for all values of the constants
(section 4); no run repeats them.

**Bounds.** Two of everything that competes (replicas, jobs, tasks, requests)
is where the races are; the third task of `WebhookDelivery` is there because a
late failure clears the lock of the task that took over, and only a third task
can profit from that. `Job` is no bound on how often a product is queued: a row that
is dropped makes room for another one, so jobs of resync-all (priority 100) may come
again after each of their completions while a job of priority 10 waits.
`PendingSettles` therefore says that a waiting job settles *unless* jobs of
resync-all keep waiting beside it; without the exception TLC finds it violated by
exactly that starvation. In `FindingLifecycle` all findings are of one product and
CVE, so that the second takes the place of one the retention removed. A day of
`DailySnapshot` has two steps and the grace time is one, so that a firing may be in
time, too late, and on the next day. Four requests allow a creation, two racing decisions and
a PATCH in between. `MaxAttempts` keeps a first, and a last, attempt apart;
`LockTtl`, `Lock`, `Recovery` and `Ttl` are scaled down, with the orders between
them kept. `MaxAbandons`, `MaxCuts`, `Request` and `MaxDay` bound how often the
environment acts; in `CveMirror` one change is enough for a batch to be older than
another one, for a record to leave a window and for a change to fall into a gap,
and one failure for a page, a batch or a process to be lost. `MaxEvents` of
`Exploitability` allows a change while a task holds an older answer, or a change
and a fault; a page of one and a budget of two make both overflow. In `Auth` time
reaches past a refresh after an access token has run out, and four tokens are
two sessions or a session and its refresh; in `CirclFallback` a burst empties the
bucket and time refills it, and the entry expires. `MaxAbandons`, `MaxCuts`, `MaxFailures` and
`MaxEvents` must be finite for the liveness properties to make sense. Deadlock is
checked except in the runs of `FindingLifecycle`, `Scoring`, `Auth` and
`CirclFallback`, whose requests and clocks are finite.

**Fairness.** Replicas that are up run their 5 s polls and finish what they
began (`WorkerStep`, `TaskStep`), the leader's refresh loop wakes up and its
commands return or raise (`Wake`, `Return`, `Released`), the daily jobs run
(`QueueCleanup`, `SweepFetch`, `SweepCommit`), so do the delta sync and the KEV
refresh (`DeltaStep`, `KevRead`, `KevWrite`) and the vulnx refresh with its tasks
(`Progress` of `Exploitability`), Redis expires keys, callers keep calling a breaker,
and clocks run. APScheduler and asyncio give that much to a process that is up.
Nothing is assumed of users, of failures or of providers; a claim of a webhook
row is fair per row because the drain takes 20 rows at a time.

## 4. Proofs

Checked by TLAPS, for all values of the constants allowed by the modules'
`ASSUME`s.

* `SyncQueueProofs`. `IInv` = `TypeOK`, `RetryBudget`, `OneActiveJobPerTarget`
  and `Ownership`: a replica inside the sync holds a row that is running, one in
  the except branch a row that is running, completed or purged, and no two
  replicas hold the same row. `NoConcurrentSync` is not
  inductive alone because exclusion comes from the row, not from the lock:
  two syncing replicas hold running rows, running rows of one product are one
  row (the unique index), and one row has one holder. `DeadIsFinal` needs that
  nobody holds a dead row. `SyncView` adds that a job's product exists and that the
  product of a replica that has begun is 'syncing' or 'synced' according to its
  place; with it,
  `QueueImplementsSerialSync` shows every step to be a step of `SerialSync` or
  a stutter.
* `FindingLifecycleProofs`. What a request has read is stale when it commits, so
  `IInv` says what stays true of it (`RequestsAreSound`): the row it saw is still
  there; the status a PATCH compared with is the initial one or on record, which
  is why the unlogged write of a stale comparison still ends in a status that
  `StatusIsOnRecord` finds; a decision to approve carries a user other than the
  requester, who never changes (`SegregationOfDuties`). `AcceptancesHaveFindings`
  and `SweepIsLocked` (the sweep's rows stay approved until it commits, and are
  finitely many) are what the sweep needs. `RecordOnlyGrows` is the append-only
  audit trail as an action property; a finding with a history row never leaves its
  table, because nothing cascades to its history, and that is why a status that a
  PATCH has seen and the history names cannot go before the PATCH commits. An
  unlogged PATCH writes to the pair rather than the id, so it needs `OnePerPair`,
  the UNIQUE constraint, to hit the row it read or none with a record. The module's
  assumption says that
  `Acceptance` is finite, as a table is: the sweep writes a history row for each
  acceptance it expires.
* `WebhookDeliveryProofs`. `IInv` = `TypeOK`, `AbsentIsUntouched`,
  `ClaimsAreCounted`, `FreshIsNewest` and `PostsArePaid`. A coroutine that has
  outlived its lock writes to the row blindly, so exclusion cannot come from the
  lock column: `FreshIsNewest` says that a fresh claim has a higher attempt number
  than every other task on the row, and `ClaimsAreCounted` that until its lock
  would have run out the lock, `scheduled_at` or the attempts keep further claims
  away (`Guarded`). The last attempt but one is the exception (`GivingUp`,
  `HandedOn`): its failure makes the row due at once, and while the coroutine that
  recorded it is still about to update the webhooks row, or in the handler, another
  may own the last attempt. The second record then clears that owner's lock; what
  still holds is that no further claim can follow, for the attempts are used up. `PostsArePaid` counts the tasks that may still post.
  `NeverMoreThanMaxAttempts` goes on to hold when the row has been dropped.
  Needed: every backoff delay is at least as long as the lock.
  For `QueueImplementsBoundedDelivery` the tasks at "claimed" are those with a
  grant to spend, the ones at "accepted" those that have heard; `ReceiverView`
  adds what the mapping needs: a task waiting for an answer has posted, and a
  deleted webhook has no rows left, so that the success which is recorded for it
  (`WebhookGone`) marks nothing. `LeavingIsSpending`, `RecordingIsRecord`,
  `ClaimIsGrant`, `AnswerIsHeard` and `DroppingIsDrop` are the cases.
* `PolicyProofs` holds the proofs of the five components that decide without
  tables of their own; no two of their modules define the same name.
  - `CircuitBreaker`: `TypeOK` and `ClosedBelowThreshold` together are inductive:
    a success resets the count or, when it comes late to an open breaker, leaves
    both alone.
  - `DailySnapshot`: `NoUnexplainedGap` speaks of the days before today and is not
    inductive: midnight adds a day. `SettledUpToTurn` speaks of the days before
    that of the next turn, which a firing moves past itself (`TurnFacts`: the turn
    it stands for lies between the one that was due and now).
    `RiskIsAPercentage` is the arithmetic of the capped and rounded score, for
    counts that need not fit together.
  - `VersionMatcher`: `FirstDifferenceDecides` turns `compare_versions` into
    "agree everywhere, or the first position that differs decides"; antisymmetry
    and transitivity follow from those of a component's order, and
    `RangeIsConvex` from them, for every combination of bounds of any length (the
    run has one-part bounds). `SplitCovers` is the order again: what is below the
    version two ranges meet at is in the lower one, what is not in the upper one,
    whatever its spelling; `VerdictOf` carries it to the verdict on a list.
  - `LeaderElection`: `ElectorInv` = the types and `LeaseIsTheKey`: a process
    whose lease has not run out owns the key, with exactly that time to live. Two
    fresh leaders would own one key. Every step of a process is shown to be a
    `KeyStep`, the only ways in which the key and the leases change, from which
    `LockIsNotStolen` follows.
  - `Scoring`: each factor is monotone and agrees with its SQL counterpart off its
    edge; the sums follow. Signals are any within the columns' ranges.
* `CveMirrorProofs`. `RowStep` says what a step may do to a row: leave it,
  bring a newer version with the same mark, insert it, mark it, or delete it
  unmarked. It needs `IInv` = `TypeOK` and `MarkedIsMirrored`, that a mark is
  on a row that is there: without it an insert could drop one.
* `AuthProofs`. `AuthInv` = `TypeOK`, `HeldNow` (an active user's role is held
  now), `ReadRecently` (what a handler has read was held when it read it, at most
  `MaxWait` ago) and `TokenIsRecent` (an access token ends within `MaxWait` and a
  lifetime of the time its role was held): the chain from the table over the
  handler and the token to the request. `RecordInv` counts logins that have
  committed and not answered yet, which `LoginIsOnRecord` alone does not see.
* `ExploitabilityProofs`. `IInv` = `TypeOK`, `EventsAreCounted` (no version is
  ahead of the events spent, so a version stays within its bound),
  `IntelIsItsOwn` and `TasksAreSound`, which carries `IntelIsItsOwn` over to what
  tasks hold: an answer is no newer than its own CVE's upstream version, and a
  plan names versions its own CVEs have had. Flags and signals never go back
  behind a task, so what was sound when it was read is sound when it is written.
  Of `First` the proofs use one fact, `FirstIsPart`: a page or batch is a part of
  the set it is taken from.
* `CirclFallbackProofs`. `BudgetInv` states the budget at the last refill, with
  what is left in the bucket: time that has been credited is never credited
  again, whoever refilled. `CirclAnswerHasFindings` follows from what a query
  carries between `Store` and `Requery`: rows of its product that only the
  retention takes away. `TypeOK` contains the foreign key from findings to
  `cves`: `Link` fails as a whole on an id that is not there, `Store` inserts the
  CVEs before the findings, and the retention's cascade takes both.

Every invariant, action property and refinement of a passing run is the statement
of a theorem. Only model-checked are the liveness properties (`PendingSettles`,
`ApprovalsRunOut`, `LeadershipIsRegained`, `StaleLeaderStepsDown`,
`DeliverySettles`, `BreakerRecovers`, `KevIsMarked`, `MirrorCatchesUp`,
`StaleIsRefreshed`, `ScoresCatchUp`): they rest on fairness, which is beyond this
prover. Pages, batches and lists of CVEs are sets rather than sequences, because
what `SelectSeq` makes of a list is an induction over it that the provers cannot
do.

## 5. Behaviour of the code that a reader of its docs may not expect

Two disagreements are runs: `SyncQueueStuck` (docs/RUNBOOK.md:55-57 says a
running row with an expired lock is claimed again) and `BreakerGuarded`
(docs/RUNBOOK.md:29-30 says an open breaker is probed). A third, between two
statements of the code about the audit row of a login, is in the run `Auth`, which
shows the one that the code keeps. The models contain the following too, as the code
has it.

Queue, findings, leader, webhooks, breaker, mirror:

* `_FAIL_SQL` never sets `completed_at`, so the cleanup drops no dead job
  (`workers/scheduler.py:189` says after 30 days).
* A retry's backoff is in `scheduled_at`, which the claim does not test; it is
  the leftover lock that delays a retry.
* The claim orders by priority before age, and resync-all queues every product at
  priority 100 again as soon as its last job is done: requested often enough it
  starves creations and manual syncs (priority 10).
* PATCH on a finding writes no history row if the status asked for is the one
  it read before its transaction, although another request changed it since.
* Approval and product deletion record 'open' as the old status.
* `sync_product` and resync-all ignore `is_deleted`: a deleted product may get
  open findings.
* A leader that cannot reach Redis keeps `is_leader`
  (`core/leader.py:20-21` says it loses it).
* The wait after the first failed webhook attempt is 30 minutes, not one.
* The expiry sweep locks `risk_acceptances` only: it reopens a finding that a
  PATCH closed after it had fetched the status.
* The source name of VulnCheck's delta runs, `vulncheck_nvd`, is not the one of
  the seeded `sync_state` row, `vulncheck`: the checkpoint is never found, and
  every VulnCheck run starts from the first of January. That is also why
  `MirrorCatchesUp` holds with it in spite of lost batches and shifted pages.
* A CVE deleted by the retention before it entered the KEV catalog comes back
  only if it is modified or asked for again.
* HALF_OPEN lets every caller through, not one probe.
* Two racing decisions on one acceptance both write: a rejected one may become
  approved although `api/routers/risk_acceptance.py` calls rejection terminal.
* A leader that lost its key runs on in the cron job it is in, next to the new
  leader's ("Exactly one", `main.py:168`).
* `_record_failure` counts the attempt the claim has counted already: the last
  but one is recorded as given up, and the row is taken at once once more. If the
  update of the webhooks row that follows the record raises, `_bounded` records the
  failure again and clears the lock of the replica that has taken the row meanwhile.
* What changes while an NVD run is paging lies after its window and before its
  checkpoint: without VulnCheck it is missed until it changes again.
* A row that CIRCL inserts without a date carries the time of the insert as its
  modification time, and earlier versions of the feeds do not replace it.
* `findings_history` has no cascade: one old CVE whose finding has history makes
  the whole retention fail.
* The ON CONFLICT of `bulk_import` (`api/routers/products.py:157`) names columns
  no unique index covers since migration 0011: every row of an import is refused.
* `products.sync_status` is never 'error', which the dashboard counts; the expiry
  of all due acceptances is one transaction; a finding with a second approved
  acceptance is reopened when the first runs out.
* Redis runs with `allkeys-lru`: it may drop the leader's key early. The model
  has no eviction.

Exploitability and scores:

* The timestamp for "not found" is given to every CVE without an answer, those
  in failed batches and those beyond the budget too, although
  `exploitability_refresh.py:64-66` says vulnx was asked about them; they wait
  `vulnx_staleness_days` for the next try.
* `release_inflight` deletes a key another task may have set since.
* The intel page stores flags and recomputes no score; CVEs vulnx does not know
  are never recomputed, so a sync's score stays on them. A sync's score leaves the
  flags out; the next refresh makes up for it.
* With more than page x staleness (35 000) CVEs the end of the list is never
  reached. The counter is each process's own and starts again with it.
* SQL and Python scores differ where EPSS falls on half a point, within the day
  after 30, 90 and 365 days, and for v2 scores of 9.0 and more.
* `compute_due_date` has no caller: due dates come from PATCH alone. An accepted
  risk past its date is "breached" in `/findings/sla` and not counted elsewhere.
* An installed version "n/a" or "-" counts as equal to every bound, so an
  exclusive one filters the CVE out, with certainty, although
  `resolution/version_matcher.py:132` says that an unknown version cannot disprove; "1.2-3" has a part that is
  a pre-release of 0; an empty name matches every product.

Snapshot, sign-in, CIRCL:

* "Runs at 00:05 UTC" (`workers/daily_snapshot.py`) is an interval of 24 hours
  from the start of each replica, and only if it leads at that moment; after a
  change of leaders days may have no row, or two captures of which the later
  write stays. The scheduler sets no `misfire_grace_time` (`workers/scheduler.py:51`,
  267-273), so APScheduler 3 drops a run that starts more than a second late: a
  leader that is up and idle may miss a day, with a warning of the library in its log
  and none of the application's. The date is taken when the coroutine starts
  (`workers/daily_snapshot.py:104`): one that starts after midnight writes the next
  day's row and leaves its own day without.
* Tokens are neither rotated nor revoked; a deactivated user's access token lives
  on. The docstring of `api/routers/auth.py` (lines 11-14) says of the audit rows of
  successful and failed logins that they are best-effort and never block the answer.
  That is so of failed ones only; a successful login commits its row first and is
  refused if it cannot, as the comment at lines 109-110 says, and that is what
  `LoginIsOnRecord` states. Two replicas
  that seed the first administrator at once meet the unique index.
* The client keeps ids and the search page keeps records under the same key: until
  it expires the one raises on the other's entry. The search page keeps the empty
  list of an error too, and takes no tokens from the bucket.
* On a cache hit the engine links findings and still answers `local_only`; an id
  in the entry that is not in `cves` makes all of the linking fail.
* A list cut short by 429 or a lost connection is kept like a full one, and the
  product, having findings, never asks CIRCL again.
* `query_cves_for_product` has no caller at this commit; it is modelled as the
  operation it offers.

## 6. Plan

1. Proofs: an abstract specification of the mirror (each row a version some feed
   has had), in the manner of `SerialSync` and `BoundedDelivery`; the safety half
   of `StaleLeaderStepsDown` (what a stale leader may still do).
2. EPSS: the history and the limit of its stale list, in `CveMirror`.
3. The response caches: fill against invalidation.

## Not modelled

Read-only routers and dashboards (SQL reports, but for the score and SLA
expressions in `Scoring`), the listing of the audit log, outbound HTTP, SSRF and
secrets helpers (stateless string checks), slowapi's rate limit (external),
configuration, logging, metrics, migrations, and the frontend. CPE resolution and
its cache, the VulnCheck bulk load and OpenCVE's subscriptions have no caller at
this commit (OpenCVE's inserts are `LiveInsert` of `CveMirror`). How texts are split (versions, CPE names,
slugs) is string processing; the matcher starts from the parts.
`PROJECT.json` lists all of them with the reasons.

----------------------------- MODULE SyncQueue -----------------------------
(***************************************************************************)
(* The sync_jobs table and everything that reads or writes it: the product *)
(* router, which enqueues product_sync jobs; the replicas' queue pollers   *)
(* (sync_job_worker.process_one_job calling product_sync.sync_product);    *)
(* and the daily queue cleanup of the scheduler.                           *)
(*                                                                         *)
(* Time is relative: a row keeps how long its lock still lasts, how far    *)
(* away scheduled_at is, and how old completed_at is.  One unit is 30 s.   *)
(***************************************************************************)
EXTENDS Integers, FiniteSets

CONSTANTS
    Product,        \* ids of rows of the products table
    Job,            \* bound: rows the sync_jobs table holds at once
    Worker,         \* replicas; APScheduler runs one poll at a time in each
    NoJob,          \* an idle worker's job
    MaxAttempts,    \* sync_jobs.max_attempts
    LockTtl,        \* _LOCK_TTL
    KeepCompleted,  \* age at which the cleanup drops completed rows
    KeepDead,       \* age at which the cleanup drops dead rows
    Horizon,        \* scheduled_at further in the past is not told apart
    MaxAbandons     \* bound: workers that vanish between claim and record

ASSUME QueueAssumption ==
    /\ NoJob \notin Job
    /\ Product # {}
    /\ MaxAttempts \in Nat \ {0}
    /\ LockTtl \in Nat \ {0}
    /\ KeepCompleted \in Nat
    /\ KeepDead \in Nat
    /\ Horizon \in Nat
    /\ MaxAbandons \in Nat

VARIABLES
    jobs,       \* the sync_jobs rows
    products,   \* per product: is the row there, and its sync_status
    workers,    \* per replica: the step of process_one_job it is at
    abandons    \* how many workers vanished so far

vars == <<jobs, products, workers, abandons>>

-----------------------------------------------------------------------------
\* Rows and values.

Active == {"pending", "running"}
Status == Active \cup {"absent", "completed", "dead", "purged"}
Priority == {10, 100}
NullTime == -1      \* completed_at IS NULL

JobRow == [status : Status, target : Product, priority : Priority,
           attempts : 0..MaxAttempts, locked : 0..LockTtl, due : Int,
           age : {NullTime} \cup Nat]

Phase == {"idle", "claimed", "scanning", "invalidating", "completing", "failing"}
SyncStatus == {"absent", "pending", "syncing", "synced"}

TypeOK ==
    /\ jobs \in [Job -> JobRow]
    /\ products \in [Product -> SyncStatus]
    /\ workers \in [Worker -> [phase : Phase, job : Job \cup {NoJob}]]
    /\ \A w \in Worker : workers[w].phase = "idle" <=> workers[w].job = NoJob
    /\ abandons \in 0..MaxAbandons

IdleWorker == [phase |-> "idle", job |-> NoJob]

\* A row that is not in the table: not inserted yet, or dropped.
NoRow(status) ==
    [status |-> status, target |-> CHOOSE p \in Product : TRUE, priority |-> 10,
     attempts |-> 0, locked |-> 0, due |-> 0, age |-> NullTime]

Init ==
    /\ jobs = [j \in Job |-> NoRow("absent")]
    /\ products = [p \in Product |-> "absent"]
    /\ workers = [w \in Worker |-> IdleWorker]
    /\ abandons = 0

-----------------------------------------------------------------------------
\* The product router: POST /products, /bulk, /resync-all, /{id}/sync.

ActiveJobs(p) == {j \in Job : jobs[j].target = p /\ jobs[j].status \in Active}

FreshRow(p, prio) ==
    [status |-> "pending", target |-> p, priority |-> prio,
     attempts |-> 0, locked |-> 0, due |-> 0, age |-> NullTime]

\* The table's ids never run out: an element of Job stands for one row after
\* another, the next one once the cleanup dropped the row before it and no
\* replica remembers that row's id.
Free(j) ==
    /\ jobs[j].status \in {"absent", "purged"}
    /\ \A w \in Worker : workers[w].job # j

\* _enqueue_sync: INSERT ... WHERE NOT EXISTS an active job of the product.
\* Two requests that both pass the NOT EXISTS test meet the unique index
\* uq_sync_jobs_active, so inserting is atomic with the test.
EnqueueSync(p, prio) ==
    /\ ActiveJobs(p) = {}
    /\ \E j \in Job :
          /\ Free(j)
          /\ jobs' = [jobs EXCEPT ![j] = FreshRow(p, prio)]

\* create_product: the product and its first job, in one transaction.  (Since
\* migration 0011 the ON CONFLICT of bulk_import names no index of the table:
\* every row of an import is refused and nothing is enqueued.)
CreateProduct(p) ==
    /\ products[p] = "absent"
    /\ products' = [products EXCEPT ![p] = "pending"]
    /\ EnqueueSync(p, 10)
    /\ UNCHANGED <<workers, abandons>>

\* manual_sync (priority 10) and each iteration of resync_all (priority 100),
\* whose inserts commit one by one.
RequestSync(p, prio) ==
    /\ products[p] # "absent"
    /\ EnqueueSync(p, prio)
    /\ UNCHANGED <<products, workers, abandons>>

-----------------------------------------------------------------------------
\* process_one_job.

\* Mutant: a claim that takes over running rows whose lock ran out.
ClaimableTakesOver(j) == jobs[j].status \in Active /\ jobs[j].locked = 0

\* Mutant: a claim that leaves rows on their last attempt alone.
ClaimableSpares(j) ==
    jobs[j].status = "pending" /\ jobs[j].locked = 0 /\ jobs[j].attempts < MaxAttempts - 1

Claimable(j) == jobs[j].status = "pending" /\ jobs[j].locked = 0

\* ORDER BY priority DESC, scheduled_at ASC.
Precedes(i, j) ==
    \/ jobs[i].priority > jobs[j].priority
    \/ jobs[i].priority = jobs[j].priority /\ jobs[i].due < jobs[j].due

FirstInLine(j) ==
    /\ Claimable(j)
    /\ \A i \in Job : Claimable(i) => ~Precedes(i, j)

\* (scheduled_at is read of pending rows only; of others due is 0.)
Claim(w) ==
    /\ workers[w].phase = "idle"
    /\ \E j \in Job :
          /\ FirstInLine(j)
          /\ jobs' = [jobs EXCEPT ![j].status = "running",
                                  ![j].locked = LockTtl,
                                  ![j].attempts = @ + 1,
                                  ![j].due = 0]
          /\ workers' = [workers EXCEPT ![w] = [phase |-> "claimed", job |-> j]]
    /\ UNCHANGED <<products, abandons>>

Target(w) == jobs[workers[w].job].target

Advance(w, from, to) ==
    /\ workers[w].phase = from
    /\ workers' = [workers EXCEPT ![w].phase = to]

SetSyncStatus(p, s) == products' = [products EXCEPT ![p] = s]

\* Mutant: the 'syncing' write is missing.
BeginSyncUnmarked(w) ==
    /\ Advance(w, "claimed", "scanning")
    /\ UNCHANGED <<jobs, products, abandons>>

\* sync_product, step 1: load the product, then sync_status = 'syncing'.
BeginSync(w) ==
    /\ Advance(w, "claimed", "scanning")
    /\ SetSyncStatus(Target(w), "syncing")
    /\ UNCHANGED <<jobs, abandons>>

\* No candidate CVE: 'synced' at once, and the caches are left alone.
NoCandidates(w) ==
    /\ Advance(w, "scanning", "completing")
    /\ SetSyncStatus(Target(w), "synced")
    /\ UNCHANGED <<jobs, abandons>>

\* Candidates: the findings and the product's stats in one transaction, or
\* only the status when the version matcher filtered all of them out.
RecordResult(w) ==
    /\ Advance(w, "scanning", "invalidating")
    /\ SetSyncStatus(Target(w), "synced")
    /\ UNCHANGED <<jobs, abandons>>

\* The dashboard:* and cves:product:* keys are deleted from Redis.
InvalidateCaches(w) ==
    /\ Advance(w, "invalidating", "completing")
    /\ UNCHANGED <<jobs, products, abandons>>

\* A statement of sync_product or _COMPLETE_SQL raised without taking effect
\* (delete_pattern swallows what Redis raises).
SyncError(w) ==
    /\ workers[w].phase \in {"claimed", "scanning", "completing"}
    /\ workers' = [workers EXCEPT ![w].phase = "failing"]
    /\ UNCHANGED <<jobs, products, abandons>>

Completed(j) == jobs' = [jobs EXCEPT ![j].status = "completed", ![j].age = 0]

Complete(w) ==
    /\ workers[w].phase = "completing"
    /\ Completed(workers[w].job)
    /\ workers' = [workers EXCEPT ![w] = IdleWorker]
    /\ UNCHANGED <<products, abandons>>

\* _COMPLETE_SQL committed but the connection broke before the answer (or on
\* its release to the pool): the except branch runs on a completed job.
CompleteUnacknowledged(w) ==
    /\ Advance(w, "completing", "failing")
    /\ Completed(workers[w].job)
    /\ UNCHANGED <<products, abandons>>

\* Mutant: off by one in the test against max_attempts.
ExhaustedLate(j) == jobs[j].attempts > MaxAttempts

Exhausted(j) == jobs[j].attempts >= MaxAttempts

\* Mutant: the unique index is not there.
NoIndex(j) == FALSE

\* Another active job of the target makes uq_sync_jobs_active refuse 'pending'.
IndexRefuses(j) == ActiveJobs(jobs[j].target) \ {j} # {}

\* 30 s x 2^(attempts-1), in units of 30 s.
Backoff(attempts) == 2^(attempts - 1)

FailSql(j) ==
    \/ /\ jobs[j].status = "purged" \/ (~Exhausted(j) /\ IndexRefuses(j))
       /\ UNCHANGED jobs
    \/ /\ jobs[j].status # "purged" /\ Exhausted(j)
       /\ jobs' = [jobs EXCEPT ![j].status = "dead"]
    \/ /\ jobs[j].status # "purged" /\ ~Exhausted(j) /\ ~IndexRefuses(j)
       /\ jobs' = [jobs EXCEPT ![j].status = "pending",
                               ![j].due = Backoff(jobs[j].attempts)]

\* The except branch: _FAIL_SQL, by id, whatever the row has become.
Fail(w) ==
    /\ workers[w].phase = "failing"
    /\ FailSql(workers[w].job)
    /\ workers' = [workers EXCEPT ![w] = IdleWorker]
    /\ UNCHANGED <<products, abandons>>

\* The replica crashes, its shutdown cancels the poll (CancelledError is not
\* an Exception), or _FAIL_SQL itself raises: nothing is recorded.
Abandon(w) ==
    /\ workers[w].phase # "idle"
    /\ abandons < MaxAbandons
    /\ abandons' = abandons + 1
    /\ workers' = [workers EXCEPT ![w] = IdleWorker]
    /\ UNCHANGED <<jobs, products>>

-----------------------------------------------------------------------------
\* The scheduler's _queue_cleanup, and the passing of 30 s.

Purgeable(j) ==
    \/ jobs[j].status = "completed" /\ jobs[j].age # NullTime /\ jobs[j].age >= KeepCompleted
    \/ jobs[j].status = "dead" /\ jobs[j].age # NullTime /\ jobs[j].age >= KeepDead

QueueCleanup ==
    /\ \E j \in Job : Purgeable(j)
    /\ jobs' = [j \in Job |-> IF Purgeable(j) THEN NoRow("purged") ELSE jobs[j]]
    /\ UNCHANGED <<products, workers, abandons>>

\* The rows of j's priority that were scheduled before it.
Ahead(j) == {i \in Job : /\ jobs[i].status = "pending"
                         /\ jobs[i].priority = jobs[j].priority
                         /\ jobs[i].due < jobs[j].due}

\* How far in the past scheduled_at is told apart: the horizon, and further
\* for the rows scheduled before others, whose order never gets lost.
Oldest(j) == Cardinality(Ahead(j)) - Horizon

LaterRow(j) ==
    [jobs[j] EXCEPT !.locked = IF @ > 0 THEN @ - 1 ELSE 0,
                    !.due = IF jobs[j].status = "pending" /\ @ > Oldest(j)
                            THEN @ - 1 ELSE @,
                    !.age = IF @ # NullTime /\ @ < KeepCompleted THEN @ + 1 ELSE @]

Tick ==
    /\ jobs' = [j \in Job |-> IF jobs[j].status \in {"absent", "purged"}
                              THEN jobs[j] ELSE LaterRow(j)]
    /\ UNCHANGED <<products, workers, abandons>>

-----------------------------------------------------------------------------
WorkerStep(w) ==
    \/ Claim(w) \/ BeginSync(w) \/ NoCandidates(w) \/ RecordResult(w)
    \/ InvalidateCaches(w) \/ SyncError(w) \/ Complete(w)
    \/ CompleteUnacknowledged(w) \/ Fail(w)

Next ==
    \/ \E p \in Product : CreateProduct(p) \/ \E prio \in Priority : RequestSync(p, prio)
    \/ \E w \in Worker : WorkerStep(w) \/ Abandon(w)
    \/ QueueCleanup
    \/ Tick

Spec == Init /\ [][Next]_vars

\* Every replica polls every 5 s and finishes what it started, the cleanup
\* runs daily and time passes; users and failures owe nothing.
FairSpec ==
    /\ Spec
    /\ \A w \in Worker : WF_vars(WorkerStep(w))
    /\ WF_vars(QueueCleanup)
    /\ WF_vars(Tick)

-----------------------------------------------------------------------------
\* Properties.

\* A product never has two jobs that are pending or running, whatever the
\* retries, lost answers and purges: not even a retry recorded on a job that
\* had completed brings a second one back (uq_sync_jobs_active).
OneActiveJobPerTarget ==
    \A i, j \in Job :
        /\ jobs[i].status \in Active /\ jobs[j].status \in Active
        /\ jobs[i].target = jobs[j].target
        => i = j

Syncing(w) == workers[w].phase \in {"claimed", "scanning", "invalidating", "completing"}

\* Two replicas never run sync_product for the same product at the same
\* time, although neither _COMPLETE_SQL nor _FAIL_SQL checks who holds the
\* job and the lock may run out while sync_product is still working.
NoConcurrentSync ==
    \A v, w \in Worker :
        Syncing(v) /\ Syncing(w) /\ Target(v) = Target(w) => v = w

\* What the retry policy promises: a job waiting to be run has an attempt
\* left, and one that is dead has used exactly max_attempts of them.
RetryBudget ==
    \A j \in Job :
        /\ jobs[j].status = "pending" => jobs[j].attempts < MaxAttempts
        /\ jobs[j].status = "running" => jobs[j].attempts > 0
        /\ jobs[j].status = "dead" => jobs[j].attempts = MaxAttempts

\* A worker about to mark its job completed sees its product 'synced': no
\* other replica's 'syncing' was written over the result it publishes.
CompletesWhatItSynced ==
    \A w \in Worker :
        workers[w].phase \in {"invalidating", "completing"} =>
            products[Target(w)] = "synced"

\* The replicas inside sync_product, per product.
Syncers == [p \in Product |-> {w \in Worker : Syncing(w) /\ Target(w) = p}]

\* What the queue is for: the syncs of a product are serial, and only the
\* replica inside one moves the product's sync_status (SerialSync).
Serial == INSTANCE SerialSync WITH syncer <- Syncers, status <- products

\* The queue implements the serial product sync: no step of any interleaving
\* of replicas, retries, lost answers and crashes does what SerialSync forbids.
ImplementsSerialSync == Serial!Spec

\* A dead job never runs again: it stays dead until the cleanup drops it.
DeadIsFinal ==
    [][\A j \in Job : jobs[j].status = "dead" => jobs'[j].status \in {"dead", "purged"}]_vars

\* A running row that no replica is working on: its worker vanished.
Orphaned(j) == jobs[j].status = "running" /\ \A w \in Worker : workers[w].job # j

\* The job has been run until it is completed or dead, or the replica that
\* took it vanished.
Settled(j) == jobs[j].status \in {"completed", "dead", "purged"} \/ Orphaned(j)

\* A job of priority 10 while one of resync-all waits: the claim's ORDER BY
\* priority DESC passes over it.
HeldBack(j) ==
    /\ jobs[j].priority = 10
    /\ \E i \in Job : jobs[i].status = "pending" /\ jobs[i].priority = 100

\* Failures, lost answers, the other replicas and later jobs delay a waiting
\* job but never lose it: it settles unless jobs of resync-all keep waiting
\* beside it.  A job of resync-all always settles, and so does every job once
\* resync-all is no longer requested; one requested again after each of its
\* completions starves the jobs of priority 10 for ever.
PendingSettles ==
    \A j \in Job : jobs[j].status = "pending" ~> Settled(j) \/ HeldBack(j)

\* docs/RUNBOOK.md on a job whose worker vanished: a running row whose lock
\* ran out is picked up by another worker on the next tick of the poll.
StuckJobsAreReclaimed ==
    \A j \in Job : (jobs[j].status = "running" /\ jobs[j].locked = 0)
        ~> jobs[j].status # "running"
=============================================================================

-------------------------- MODULE SyncQueueProofs --------------------------
(***************************************************************************)
(* Proofs about SyncQueue, for every set of products, jobs and replicas    *)
(* and every value of the bounds.                                          *)
(***************************************************************************)
EXTENDS SyncQueue, TLAPS

\* A replica's job is running while it syncs; in the except branch it may
\* have completed (and been dropped).  Two replicas never hold the same job.
Ownership ==
    /\ \A w \in Worker : Syncing(w) => jobs[workers[w].job].status = "running"
    /\ \A w \in Worker : workers[w].phase = "failing" =>
          /\ jobs[workers[w].job].status \in {"running", "completed", "purged"}
          /\ jobs[workers[w].job].status # "purged" => jobs[workers[w].job].attempts > 0
    /\ \A v, w \in Worker :
          workers[v].phase # "idle" /\ workers[v].job = workers[w].job => v = w

\* The inductive invariant.
IInv == TypeOK /\ RetryBudget /\ OneActiveJobPerTarget /\ Ownership

-----------------------------------------------------------------------------
\* A syncing replica holds a job; an idle one holds none.
LEMMA BusyHasJob ==
    ASSUME TypeOK, NEW w \in Worker, workers[w].phase # "idle"
    PROVE  workers[w].job \in Job
  BY QueueAssumption DEF TypeOK

\* What stands for a row that is not in the table is a row by type.
LEMMA NoRowType ==
    ASSUME NEW s \in Status
    PROVE  NoRow(s) \in JobRow
  <1>1. (CHOOSE p \in Product : TRUE) \in Product
    BY QueueAssumption
  <1> QED
    BY <1>1, QueueAssumption DEF NoRow, JobRow, Priority, NullTime

\* The initial state satisfies the invariant: no row, no busy replica.
LEMMA InitIInv == Init => IInv
  <1> SUFFICES ASSUME Init PROVE IInv
    OBVIOUS
  <1>1. NoRow("absent") \in JobRow
    BY NoRowType DEF Status
  <1>2. \A j \in Job : jobs[j].status = "absent"
    BY DEF Init, NoRow
  <1>3. TypeOK
    BY <1>1, QueueAssumption DEF Init, TypeOK, IdleWorker, Phase, SyncStatus
  <1>4. RetryBudget /\ OneActiveJobPerTarget
    BY <1>2 DEF RetryBudget, OneActiveJobPerTarget, Active
  <1>5. Ownership
    BY DEF Init, Ownership, Syncing, IdleWorker
  <1> QED
    BY <1>3, <1>4, <1>5 DEF IInv

\* Inserting a job (the router's two handlers) preserves the invariant.
LEMMA EnqueueStep ==
    ASSUME IInv, NEW p \in Product, NEW prio \in Priority, EnqueueSync(p, prio),
           products' \in [Product -> SyncStatus], UNCHANGED <<workers, abandons>>
    PROVE  IInv'
  <1>1. PICK j \in Job : /\ Free(j)
                         /\ jobs' = [jobs EXCEPT ![j] = FreshRow(p, prio)]
    BY DEF EnqueueSync
  <1>2. FreshRow(p, prio) \in JobRow
    BY QueueAssumption DEF FreshRow, JobRow, Status, Active, NullTime
  <1>3. TypeOK'
    BY <1>1, <1>2 DEF IInv, TypeOK
  <1>4. \A i \in Job : jobs'[i] = IF i = j THEN FreshRow(p, prio) ELSE jobs[i]
    BY <1>1 DEF IInv, TypeOK
  <1>5. RetryBudget'
    BY <1>4, QueueAssumption DEF IInv, RetryBudget, FreshRow
  <1>6. OneActiveJobPerTarget'
    BY <1>4 DEF IInv, OneActiveJobPerTarget, EnqueueSync, ActiveJobs, FreshRow, Active
  <1>7. Ownership'
    <2>1. \A w \in Worker : workers[w].phase # "idle" =>
              workers[w].job # j /\ workers[w].job \in Job
      BY <1>1, BusyHasJob DEF IInv, Free
    <2> QED
      BY <2>1, <1>4 DEF IInv, Ownership, Syncing
  <1> QED
    BY <1>3, <1>5, <1>6, <1>7 DEF IInv

\* A replica moving between steps of process_one_job, or leaving it, without
\* touching a job row preserves the invariant.
LEMMA WorkerMoveStep ==
    ASSUME IInv, NEW w \in Worker, NEW r \in [phase : Phase, job : Job \cup {NoJob}],
           workers[w].phase # "idle",
           \/ r = IdleWorker
           \/ /\ r.job = workers[w].job
              /\ r.phase # "idle"
              /\ workers[w].phase # "failing",
           workers' = [workers EXCEPT ![w] = r],
           jobs' = jobs, products' \in [Product -> SyncStatus], abandons' \in 0..MaxAbandons
    PROVE  IInv'
  <1>1. \A v \in Worker : workers'[v] = IF v = w THEN r ELSE workers[v]
    BY DEF IInv, TypeOK
  <1>2. workers[w].job \in Job
    BY BusyHasJob DEF IInv
  <1>3. TypeOK'
    <2>1. workers' \in [Worker -> [phase : Phase, job : Job \cup {NoJob}]]
      BY DEF IInv, TypeOK
    <2>2. r.phase = "idle" <=> r.job = NoJob
      BY <1>2, QueueAssumption DEF IdleWorker
    <2> QED
      BY <1>1, <2>1, <2>2 DEF IInv, TypeOK
  <1>4. RetryBudget' /\ OneActiveJobPerTarget'
    BY DEF IInv, RetryBudget, OneActiveJobPerTarget
  <1>5. Ownership'
    <2>1. Syncing(w)
      \/ workers[w].phase = "failing"
      BY DEF IInv, TypeOK, Syncing, Phase
    <2>2. workers[w].phase # "failing" => jobs[workers[w].job].status = "running"
      BY <2>1 DEF IInv, Ownership
    <2>3. workers[w].phase # "failing" => jobs[workers[w].job].attempts > 0
      BY <2>2, <1>2 DEF IInv, RetryBudget
    <2>4. \A u, v \in Worker :
            workers'[u].phase # "idle" /\ workers'[u].job = workers'[v].job => u = v
      BY <1>1, <1>2, QueueAssumption DEF IInv, TypeOK, Ownership, IdleWorker
    <2>5. \A v \in Worker : (Syncing(v))' => jobs'[workers'[v].job].status = "running"
      BY <1>1, <2>2 DEF IInv, Ownership, Syncing, IdleWorker
    <2>6. \A v \in Worker : workers'[v].phase = "failing" =>
            /\ jobs'[workers'[v].job].status \in {"running", "completed", "purged"}
            /\ jobs'[workers'[v].job].status # "purged" => jobs'[workers'[v].job].attempts > 0
      BY <1>1, <2>2, <2>3 DEF IInv, Ownership, IdleWorker
    <2> QED
      BY <2>4, <2>5, <2>6 DEF Ownership
  <1> QED
    BY <1>3, <1>4, <1>5 DEF IInv

\* Claiming: the row was pending, so nobody holds it.
LEMMA ClaimStep ==
    ASSUME IInv, NEW w \in Worker, Claim(w)
    PROVE  IInv'
  <1>1. PICK j \in Job :
          /\ FirstInLine(j)
          /\ jobs' = [jobs EXCEPT ![j].status = "running",
                                  ![j].locked = LockTtl,
                                  ![j].attempts = @ + 1,
                                  ![j].due = 0]
          /\ workers' = [workers EXCEPT ![w] = [phase |-> "claimed", job |-> j]]
    BY DEF Claim
  <1>2. jobs[j].status = "pending"
    BY <1>1 DEF FirstInLine, Claimable
  <1>3. jobs[j].attempts \in 0..MaxAttempts /\ jobs[j].attempts < MaxAttempts
    BY <1>2 DEF IInv, TypeOK, JobRow, RetryBudget
  <1>4. \A i \in Job : i # j => jobs'[i] = jobs[i]
    BY <1>1 DEF IInv, TypeOK
  <1>5. /\ jobs'[j].status = "running"
        /\ jobs'[j].target = jobs[j].target
        /\ jobs'[j].attempts = jobs[j].attempts + 1
    BY <1>1 DEF IInv, TypeOK, JobRow
  <1>6. /\ workers'[w] = [phase |-> "claimed", job |-> j]
        /\ \A v \in Worker : v # w => workers'[v] = workers[v]
    BY <1>1 DEF IInv, TypeOK
  <1>7. TypeOK'
    <2>1. jobs' \in [Job -> JobRow]
      BY <1>1, <1>3, QueueAssumption DEF IInv, TypeOK, JobRow, Status, Active
    <2>2. workers' \in [Worker -> [phase : Phase, job : Job \cup {NoJob}]]
      BY <1>1 DEF IInv, TypeOK, Phase
    <2> QED
      BY <2>1, <2>2, <1>6, QueueAssumption DEF IInv, TypeOK, Claim
  <1>8. RetryBudget'
    BY <1>3, <1>4, <1>5 DEF IInv, RetryBudget
  <1>9. OneActiveJobPerTarget'
    BY <1>2, <1>4, <1>5 DEF IInv, OneActiveJobPerTarget, Active
  <1>10. Ownership'
    <2>1. \A v \in Worker : workers[v].phase # "idle" =>
             workers[v].job # j /\ workers[v].job \in Job
      BY <1>2, BusyHasJob DEF IInv, TypeOK, Ownership, Syncing, Phase
    <2>2. workers[w].phase = "idle"
      BY DEF Claim
    <2>3. \A v \in Worker : workers[v].job # j
      BY <2>1, QueueAssumption DEF IInv, TypeOK
    <2>4. \A u, v \in Worker :
            workers'[u].phase # "idle" /\ workers'[u].job = workers'[v].job => u = v
      BY <1>6, <2>3 DEF IInv, Ownership
    <2>5. \A v \in Worker : (Syncing(v))' => jobs'[workers'[v].job].status = "running"
      BY <1>4, <1>5, <1>6, <2>1 DEF IInv, Ownership, Syncing
    <2>6. \A v \in Worker : workers'[v].phase = "failing" =>
            /\ jobs'[workers'[v].job].status \in {"running", "completed", "purged"}
            /\ jobs'[workers'[v].job].status # "purged" => jobs'[workers'[v].job].attempts > 0
      BY <1>4, <1>6, <2>1 DEF IInv, Ownership
    <2> QED
      BY <2>4, <2>5, <2>6 DEF Ownership
  <1> QED
    BY <1>7, <1>8, <1>9, <1>10 DEF IInv

\* Completing: the replica's own running row; it goes idle, or on to the
\* except branch when the answer was lost.
LEMMA CompleteStep ==
    ASSUME IInv, NEW w \in Worker, Complete(w) \/ CompleteUnacknowledged(w)
    PROVE  IInv'
  <1> DEFINE j == workers[w].job
  <1>1. /\ workers[w].phase = "completing"
        /\ jobs' = [jobs EXCEPT ![j].status = "completed", ![j].age = 0]
        /\ products' = products /\ abandons' = abandons
    BY DEF Complete, CompleteUnacknowledged, Completed, Advance
  <1>2. j \in Job /\ jobs[j].status = "running"
    BY <1>1, BusyHasJob DEF IInv, Ownership, Syncing
  <1>3. \A i \in Job : i # j => jobs'[i] = jobs[i]
    BY <1>1 DEF IInv, TypeOK
  <1>4. /\ jobs'[j].status = "completed"
        /\ jobs'[j].attempts = jobs[j].attempts
    BY <1>1, <1>2 DEF IInv, TypeOK, JobRow
  <1>5. \/ workers' = [workers EXCEPT ![w] = IdleWorker]
        \/ workers' = [workers EXCEPT ![w].phase = "failing"]
    BY DEF Complete, CompleteUnacknowledged, Advance
  <1>6. /\ \/ workers'[w] = IdleWorker
           \/ workers'[w].phase = "failing" /\ workers'[w].job = j
        /\ \A v \in Worker : v # w => workers'[v] = workers[v]
    BY <1>5 DEF IInv, TypeOK
  <1>7. jobs[j].attempts > 0
    BY <1>2 DEF IInv, RetryBudget
  <1>8. TypeOK'
    <2>1. jobs' \in [Job -> JobRow]
      BY <1>1, <1>2 DEF IInv, TypeOK, JobRow, Status, NullTime
    <2>2. workers' \in [Worker -> [phase : Phase, job : Job \cup {NoJob}]]
      BY <1>5 DEF IInv, TypeOK, Phase, IdleWorker
    <2> QED
      BY <2>1, <2>2, <1>1, <1>2, <1>6, QueueAssumption DEF IInv, TypeOK, IdleWorker
  <1>9. RetryBudget' /\ OneActiveJobPerTarget'
    BY <1>3, <1>4 DEF IInv, RetryBudget, OneActiveJobPerTarget, Active
  <1>10. Ownership'
    <2>1. \A v \in Worker : v # w /\ workers[v].phase # "idle" =>
             workers[v].job # j /\ workers[v].job \in Job
      BY <1>1, BusyHasJob DEF IInv, Ownership
    <2>2. \A u, v \in Worker :
            workers'[u].phase # "idle" /\ workers'[u].job = workers'[v].job => u = v
      BY <1>1, <1>2, <1>6, QueueAssumption DEF IInv, TypeOK, Ownership, IdleWorker
    <2>3. \A v \in Worker : (Syncing(v))' => jobs'[workers'[v].job].status = "running"
      BY <1>3, <1>6, <2>1 DEF IInv, Ownership, Syncing, IdleWorker
    <2>4. \A v \in Worker : workers'[v].phase = "failing" =>
            /\ jobs'[workers'[v].job].status \in {"running", "completed", "purged"}
            /\ jobs'[workers'[v].job].status # "purged" => jobs'[workers'[v].job].attempts > 0
      BY <1>3, <1>4, <1>6, <1>7, <2>1 DEF IInv, Ownership, IdleWorker
    <2> QED
      BY <2>2, <2>3, <2>4 DEF Ownership
  <1> QED
    BY <1>8, <1>9, <1>10 DEF IInv

\* Recording a failure: dead, pending again, or refused by the unique index.
LEMMA FailStep ==
    ASSUME IInv, NEW w \in Worker, Fail(w)
    PROVE  IInv'
  <1> DEFINE j == workers[w].job
  <1>1. /\ workers[w].phase = "failing"
        /\ workers' = [workers EXCEPT ![w] = IdleWorker]
        /\ products' = products /\ abandons' = abandons
    BY DEF Fail
  <1>2. j \in Job
    BY <1>1, BusyHasJob DEF IInv
  <1>3. CASE UNCHANGED jobs
    BY <1>1, <1>3, WorkerMoveStep, QueueAssumption DEF IInv, TypeOK, IdleWorker, Phase
  <1>4. ASSUME NEW st \in {"dead", "pending"}, NEW d \in Int,
               jobs' = [jobs EXCEPT ![j].status = st, ![j].due = d],
               st = "dead" => Exhausted(j),
               st = "pending" => ~Exhausted(j) /\ ~IndexRefuses(j)
        PROVE  IInv'
    <2>1. \A i \in Job : i # j => jobs'[i] = jobs[i]
      BY <1>4 DEF IInv, TypeOK
    <2>2. /\ jobs'[j].status = st
          /\ jobs'[j].target = jobs[j].target
          /\ jobs'[j].attempts = jobs[j].attempts
      BY <1>2, <1>4 DEF IInv, TypeOK, JobRow
    <2>3. jobs[j].attempts \in 0..MaxAttempts
      BY <1>2 DEF IInv, TypeOK, JobRow
    <2>4. /\ workers'[w] = IdleWorker
          /\ \A v \in Worker : v # w => workers'[v] = workers[v]
      BY <1>1 DEF IInv, TypeOK
    <2>5. TypeOK'
      <3>1. jobs' \in [Job -> JobRow]
        BY <1>2, <1>4 DEF IInv, TypeOK, JobRow, Status, Active
      <3>2. workers' \in [Worker -> [phase : Phase, job : Job \cup {NoJob}]]
        BY <1>1 DEF IInv, TypeOK, Phase, IdleWorker
      <3> QED
        BY <3>1, <3>2, <1>1, <2>4 DEF IInv, TypeOK, IdleWorker
    <2>6. RetryBudget'
      <3>1. st = "pending" => jobs[j].attempts < MaxAttempts
        BY <1>4, <2>3, QueueAssumption DEF Exhausted
      <3>2. st = "dead" => jobs[j].attempts = MaxAttempts
        BY <1>4, <2>3, QueueAssumption DEF Exhausted
      <3>3. ASSUME NEW i \in Job
            PROVE  /\ jobs'[i].status = "pending" => jobs'[i].attempts < MaxAttempts
                   /\ jobs'[i].status = "running" => jobs'[i].attempts > 0
                   /\ jobs'[i].status = "dead" => jobs'[i].attempts = MaxAttempts
        <4>1. CASE i = j
          BY <4>1, <3>1, <3>2, <2>2
        <4>2. CASE i # j
          BY <4>2, <2>1 DEF IInv, RetryBudget
        <4> QED
          BY <4>1, <4>2
      <3> QED
        BY <3>3 DEF RetryBudget
    <2>7. OneActiveJobPerTarget'
      <3>1. st = "pending" => \A i \in Job :
              jobs[i].target = jobs[j].target /\ jobs[i].status \in Active => i = j
        BY <1>4 DEF IndexRefuses, ActiveJobs
      <3>2. st = "dead" => st \notin Active
        BY DEF Active
      <3> QED
        BY <1>2, <3>1, <3>2, <2>1, <2>2 DEF IInv, OneActiveJobPerTarget
    <2>8. Ownership'
      <3>1. \A v \in Worker : v # w /\ workers[v].phase # "idle" =>
               workers[v].job # j /\ workers[v].job \in Job
        BY <1>1, BusyHasJob DEF IInv, Ownership
      <3> QED
        BY <3>1, <2>1, <2>4, QueueAssumption DEF IInv, TypeOK, Ownership, Syncing, IdleWorker
    <2> QED
      BY <2>5, <2>6, <2>7, <2>8 DEF IInv
  <1>5. CASE /\ jobs[j].status # "purged" /\ Exhausted(j)
             /\ jobs' = [jobs EXCEPT ![j].status = "dead"]
    <2>1. jobs' = [jobs EXCEPT ![j].status = "dead", ![j].due = jobs[j].due]
      BY <1>2, <1>5 DEF IInv, TypeOK, JobRow
    <2>2. jobs[j].due \in Int
      BY <1>2 DEF IInv, TypeOK, JobRow
    <2> QED
      BY <1>4, <1>5, <2>1, <2>2
  <1>6. CASE /\ jobs[j].status # "purged" /\ ~Exhausted(j) /\ ~IndexRefuses(j)
             /\ jobs' = [jobs EXCEPT ![j].status = "pending",
                                     ![j].due = Backoff(jobs[j].attempts)]
    <2>1. jobs[j].attempts \in Nat /\ jobs[j].attempts > 0
      BY <1>1, <1>2, <1>6, QueueAssumption DEF IInv, TypeOK, JobRow, Ownership
    <2>2. \A n \in Nat : n > 0 => 2^(n - 1) \in Int
      OBVIOUS
    <2>3. Backoff(jobs[j].attempts) \in Int
      BY <2>1, <2>2 DEF Backoff
    <2> QED
      BY <1>4, <1>6, <2>3
  <1> QED
    BY <1>3, <1>5, <1>6 DEF Fail, FailSql

\* The cleanup drops rows that are completed, never one that is active.
LEMMA CleanupStep ==
    ASSUME IInv, QueueCleanup
    PROVE  IInv'
  <1>1. \A j \in Job : jobs'[j] = IF Purgeable(j) THEN NoRow("purged") ELSE jobs[j]
    BY DEF QueueCleanup
  <1>2. \A j \in Job : jobs'[j].status = IF Purgeable(j) THEN "purged" ELSE jobs[j].status
    <2>1. NoRow("purged").status = "purged"
      BY DEF NoRow
    <2> QED
      BY <1>1, <2>1
  <1>3. \A j \in Job : Purgeable(j) => jobs[j].status \in {"completed", "dead"}
    BY DEF Purgeable
  <1>4. workers' = workers /\ products' = products /\ abandons' = abandons
    BY DEF QueueCleanup
  <1>5. TypeOK'
    <2>1. jobs' \in [Job -> JobRow]
      <3>1. NoRow("purged") \in JobRow
        BY NoRowType DEF Status
      <3> QED
        BY <3>1 DEF QueueCleanup, IInv, TypeOK
    <2> QED
      BY <2>1, <1>4 DEF IInv, TypeOK
  <1>6. RetryBudget' /\ OneActiveJobPerTarget'
    BY <1>1, <1>2 DEF IInv, RetryBudget, OneActiveJobPerTarget, Active
  <1>7. Ownership'
    <2>1. \A w \in Worker : workers[w].phase # "idle" => workers[w].job \in Job
      BY BusyHasJob DEF IInv
    <2> QED
      BY <1>1, <1>2, <1>3, <1>4, <2>1 DEF IInv, Ownership, Syncing
  <1> QED
    BY <1>5, <1>6, <1>7 DEF IInv

\* Time changes neither a status, nor a target, nor the number of attempts.
LEMMA TickStep ==
    ASSUME IInv, Tick
    PROVE  IInv'
  <1>1. \A j \in Job : /\ jobs'[j].status = jobs[j].status
                       /\ jobs'[j].target = jobs[j].target
                       /\ jobs'[j].attempts = jobs[j].attempts
    BY DEF Tick, LaterRow, IInv, TypeOK, JobRow
  <1>2. workers' = workers /\ products' = products /\ abandons' = abandons
    BY DEF Tick
  <1>3. TypeOK'
    <2>1. ASSUME NEW j \in Job PROVE LaterRow(j) \in JobRow
      <3> DEFINE r == jobs[j]
      <3>1. r \in JobRow
        BY DEF IInv, TypeOK
      <3>2. (IF r.locked > 0 THEN r.locked - 1 ELSE 0) \in 0..LockTtl
        BY <3>1, QueueAssumption DEF JobRow
      <3>3. (IF jobs[j].status = "pending" /\ r.due > Oldest(j)
             THEN r.due - 1 ELSE r.due) \in Int
        BY <3>1 DEF JobRow
      <3>4. (IF r.age # NullTime /\ r.age < KeepCompleted THEN r.age + 1 ELSE r.age)
               \in {NullTime} \cup Nat
        BY <3>1, QueueAssumption DEF JobRow, NullTime
      <3> QED
        BY <3>1, <3>2, <3>3, <3>4 DEF LaterRow, JobRow
    <2>2. jobs' \in [Job -> JobRow]
      BY <2>1 DEF Tick, IInv, TypeOK
    <2> QED
      BY <2>2, <1>2 DEF IInv, TypeOK
  <1>4. RetryBudget' /\ OneActiveJobPerTarget'
    BY <1>1 DEF IInv, RetryBudget, OneActiveJobPerTarget
  <1>5. Ownership'
    <2>1. \A w \in Worker : workers[w].phase # "idle" => workers[w].job \in Job
      BY BusyHasJob DEF IInv
    <2> QED
      BY <1>1, <1>2, <2>1 DEF IInv, Ownership, Syncing
  <1> QED
    BY <1>3, <1>4, <1>5 DEF IInv

\* Every step preserves the invariant.
LEMMA NextIInv == IInv /\ [Next]_vars => IInv'
  <1> SUFFICES ASSUME IInv, [Next]_vars PROVE IInv'
    OBVIOUS
  <1>1. ASSUME NEW p \in Product, CreateProduct(p) PROVE IInv'
    <2>1. products' \in [Product -> SyncStatus]
      BY <1>1 DEF CreateProduct, IInv, TypeOK, SyncStatus
    <2> QED
      BY <1>1, <2>1, EnqueueStep DEF CreateProduct, Priority
  <1>2. ASSUME NEW p \in Product, NEW prio \in Priority, RequestSync(p, prio) PROVE IInv'
    BY <1>2, EnqueueStep DEF RequestSync, IInv, TypeOK
  <1>3. ASSUME NEW w \in Worker,
               BeginSync(w) \/ NoCandidates(w) \/ RecordResult(w)
                 \/ InvalidateCaches(w) \/ SyncError(w)
        PROVE  IInv'
    <2>1. PICK ph \in Phase \ {"idle"} : workers' = [workers EXCEPT ![w].phase = ph]
      BY <1>3 DEF BeginSync, NoCandidates, RecordResult, InvalidateCaches, SyncError,
                  Advance, Phase
    <2>2. workers[w].phase \notin {"idle", "failing"}
      BY <1>3 DEF BeginSync, NoCandidates, RecordResult, InvalidateCaches, SyncError, Advance
    <2>3. products' \in [Product -> SyncStatus] /\ jobs' = jobs /\ abandons' = abandons
      BY <1>3 DEF BeginSync, NoCandidates, RecordResult, InvalidateCaches, SyncError,
                  SetSyncStatus, IInv, TypeOK, SyncStatus
    <2> DEFINE r == [workers[w] EXCEPT !.phase = ph]
    <2>4. /\ r \in [phase : Phase, job : Job \cup {NoJob}]
          /\ r.job = workers[w].job /\ r.phase = ph
      BY <2>1 DEF IInv, TypeOK
    <2>5. workers' = [workers EXCEPT ![w] = r]
      BY <2>1 DEF IInv, TypeOK
    <2>6. abandons' \in 0..MaxAbandons
      BY <2>3 DEF IInv, TypeOK
    <2> HIDE DEF r
    <2> QED
      BY <2>1, <2>2, <2>3, <2>4, <2>5, <2>6, WorkerMoveStep
  <1>4. ASSUME NEW w \in Worker, Abandon(w) PROVE IInv'
    <2>1. /\ IdleWorker \in [phase : Phase, job : Job \cup {NoJob}]
          /\ abandons' \in 0..MaxAbandons
          /\ products' \in [Product -> SyncStatus]
      BY <1>4, QueueAssumption DEF Abandon, IdleWorker, Phase, IInv, TypeOK
    <2> QED
      BY <1>4, <2>1, WorkerMoveStep DEF Abandon
  <1>5. CASE UNCHANGED vars
    BY <1>5 DEF vars, IInv, TypeOK, RetryBudget, OneActiveJobPerTarget, Ownership, Syncing
  <1> QED
    BY <1>1, <1>2, <1>3, <1>4, <1>5, ClaimStep, CompleteStep, FailStep, CleanupStep, TickStep
    DEF Next, WorkerStep

\* The inductive invariant holds in every reachable state.
THEOREM InvariantTheorem == Spec => []IInv
  BY InitIInv, NextIInv, PTL DEF Spec

-----------------------------------------------------------------------------
\* The tables and the replicas always have the shape the code gives them.
THEOREM TypeCorrect == Spec => []TypeOK
  <1>1. IInv => TypeOK
    BY DEF IInv
  <1> QED
    BY <1>1, InvariantTheorem, PTL

\* A product never has two pending or running jobs, for any number of
\* products, jobs and replicas.
THEOREM OneActiveJob == Spec => []OneActiveJobPerTarget
  <1>1. IInv => OneActiveJobPerTarget
    BY DEF IInv
  <1> QED
    BY <1>1, InvariantTheorem, PTL

\* The retry policy's accounting is exact.
THEOREM RetryBudgetKept == Spec => []RetryBudget
  <1>1. IInv => RetryBudget
    BY DEF IInv
  <1> QED
    BY <1>1, InvariantTheorem, PTL

\* Two syncing replicas hold running rows, of one target only if the rows,
\* and then the replicas, are the same.
LEMMA SerialByIInv == IInv => NoConcurrentSync
  <1> SUFFICES ASSUME IInv, NEW v \in Worker, NEW w \in Worker,
                      Syncing(v), Syncing(w), Target(v) = Target(w)
               PROVE  v = w
    BY DEF NoConcurrentSync
  <1>1. workers[v].job \in Job /\ workers[w].job \in Job
    BY BusyHasJob DEF IInv, Syncing
  <1>2. workers[v].job = workers[w].job
    BY <1>1 DEF IInv, Ownership, OneActiveJobPerTarget, Active, Target
  <1> QED
    BY <1>2 DEF IInv, Ownership, Syncing

\* No product is ever synced by two replicas at once.
THEOREM SyncIsExclusive == Spec => []NoConcurrentSync
  BY SerialByIInv, InvariantTheorem, PTL

-----------------------------------------------------------------------------
\* A dead row is held by no replica, is not claimable and only a dropped row's
\* place is taken by another, so no step brings it back.
LEMMA DeadStep ==
    ASSUME IInv, [Next]_vars, NEW j \in Job, jobs[j].status = "dead"
    PROVE  jobs'[j].status \in {"dead", "purged"}
  <1>1. \A w \in Worker : workers[w].phase # "idle" =>
           workers[w].job # j /\ workers[w].job \in Job
    BY BusyHasJob DEF IInv, TypeOK, Ownership, Syncing, Phase
  <1>2. ASSUME NEW p \in Product, NEW prio \in Priority, EnqueueSync(p, prio)
        PROVE  jobs'[j] = jobs[j]
    BY <1>2 DEF EnqueueSync, Free, IInv, TypeOK
  <1>3. ASSUME NEW w \in Worker, WorkerStep(w)
        PROVE  jobs'[j] = jobs[j]
    <2>1. CASE Claim(w)
      BY <2>1 DEF Claim, FirstInLine, Claimable, IInv, TypeOK
    <2>2. CASE Complete(w) \/ CompleteUnacknowledged(w)
      BY <1>1, <2>2 DEF Complete, CompleteUnacknowledged, Completed, Advance, IInv, TypeOK
    <2>3. CASE Fail(w)
      BY <1>1, <2>3 DEF Fail, FailSql, IInv, TypeOK
    <2>4. CASE BeginSync(w) \/ NoCandidates(w) \/ RecordResult(w)
                 \/ InvalidateCaches(w) \/ SyncError(w)
      BY <2>4 DEF BeginSync, NoCandidates, RecordResult, InvalidateCaches, SyncError
    <2> QED
      BY <1>3, <2>1, <2>2, <2>3, <2>4 DEF WorkerStep
  <1>4. CASE QueueCleanup
    <2>1. NoRow("purged").status = "purged"
      BY DEF NoRow
    <2> QED
      BY <1>4, <2>1 DEF QueueCleanup
  <1>5. CASE Tick
    BY <1>5 DEF Tick, LaterRow, IInv, TypeOK, JobRow
  <1>6. ASSUME NEW w \in Worker, Abandon(w) PROVE jobs'[j] = jobs[j]
    BY <1>6 DEF Abandon
  <1>7. CASE UNCHANGED vars
    BY <1>7 DEF vars
  <1> QED
    BY <1>2, <1>3, <1>4, <1>5, <1>6, <1>7
    DEF Next, CreateProduct, RequestSync, Priority

\* A dead job never runs again.
THEOREM DeadStaysDead == Spec => DeadIsFinal
  <1>1. IInv /\ [Next]_vars =>
          [\A j \in Job : jobs[j].status = "dead" => jobs'[j].status \in {"dead", "purged"}]_vars
    BY DeadStep
  <1> QED
    BY <1>1, InvariantTheorem, PTL DEF Spec, DeadIsFinal

-----------------------------------------------------------------------------
\* The product's side: jobs in the table are of products that exist, and a
\* replica's step shows in the status of the product it syncs.
SyncView ==
    /\ \A j \in Job : jobs[j].status \notin {"absent", "purged"} =>
                        products[jobs[j].target] # "absent"
    /\ \A w \in Worker : workers[w].phase = "scanning" => products[Target(w)] = "syncing"
    /\ CompletesWhatItSynced

\* A step of one replica's sync changes the status of its own product, which
\* no other replica is syncing.
LEMMA SyncViewStep == IInv /\ SyncView /\ [Next]_vars => SyncView'
  <1> SUFFICES ASSUME IInv, SyncView, [Next]_vars PROVE SyncView'
    OBVIOUS
  <1> USE DEF SyncView, CompletesWhatItSynced
  <1>1. \A w \in Worker : workers[w].phase # "idle" => workers[w].job \in Job
    BY BusyHasJob DEF IInv
  <1>2. \A w \in Worker : Syncing(w) => jobs[workers[w].job].status = "running"
    BY DEF IInv, Ownership
  <1>t. TypeOK
    BY DEF IInv
  <1>3. ASSUME NEW p \in Product, NEW prio \in Priority, EnqueueSync(p, prio),
               UNCHANGED workers,
               \/ products[p] # "absent" /\ products' = products
               \/ products[p] = "absent" /\ products' = [products EXCEPT ![p] = "pending"]
        PROVE  SyncView'
    <2>1. PICK j \in Job : /\ Free(j)
                           /\ jobs' = [jobs EXCEPT ![j] = FreshRow(p, prio)]
      BY <1>3 DEF EnqueueSync
    <2>2. \A i \in Job : i # j => jobs'[i] = jobs[i]
      BY <2>1, <1>t DEF TypeOK
    <2>3. jobs'[j].target = p
      BY <2>1, <1>t DEF TypeOK, FreshRow
    <2>4. /\ products'[p] # "absent"
          /\ \A q \in Product : products[q] # "absent" => products'[q] = products[q]
      BY <1>3, <1>t DEF TypeOK
    <2>5. \A i \in Job : jobs[i].target \in Product
      BY <1>t DEF TypeOK, JobRow
    <2>6. \A w \in Worker : Syncing(w) => workers[w].job # j
      BY <2>1 DEF Free
    <2>7. \A i \in Job : jobs'[i].status \notin {"absent", "purged"} =>
                        products'[jobs'[i].target] # "absent"
      BY <2>2, <2>3, <2>4, <2>5
    <2>8. \A w \in Worker : Syncing(w) => products'[Target(w)'] = products[Target(w)]
      BY <1>1, <1>2, <1>3, <2>2, <2>4, <2>5, <2>6 DEF Syncing, Target
    <2> QED
      BY <1>3, <2>7, <2>8 DEF Syncing
  <1>4. ASSUME NEW w \in Worker,
               BeginSync(w) \/ NoCandidates(w) \/ RecordResult(w)
        PROVE  SyncView'
    <2>1. PICK st \in {"syncing", "synced"} :
             /\ products' = [products EXCEPT ![Target(w)] = st]
             /\ st = "syncing" => workers' = [workers EXCEPT ![w].phase = "scanning"]
             /\ st = "synced" => \/ workers' = [workers EXCEPT ![w].phase = "completing"]
                                 \/ workers' = [workers EXCEPT ![w].phase = "invalidating"]
      BY <1>4 DEF BeginSync, NoCandidates, RecordResult, SetSyncStatus, Advance
    <2>2. Syncing(w) /\ jobs' = jobs
      BY <1>4 DEF BeginSync, NoCandidates, RecordResult, Advance, Syncing
    <2>3. Target(w) \in Product
      BY <1>1, <1>t, <2>2 DEF Target, TypeOK, JobRow, Syncing
    <2>4. \A v \in Worker : v # w /\ Syncing(v) => Target(v) # Target(w)
      BY <2>2, SerialByIInv DEF NoConcurrentSync
    <2>5. /\ \A v \in Worker : v # w => workers'[v] = workers[v]
          /\ workers'[w].job = workers[w].job
          /\ workers'[w].phase = "scanning" => st = "syncing"
          /\ workers'[w].phase \in {"invalidating", "completing"} => st = "synced"
      BY <2>1, <1>t DEF TypeOK
    <2>6. /\ products'[Target(w)] = st
          /\ \A q \in Product : q # Target(w) => products'[q] = products[q]
      BY <2>1, <2>3, <1>t DEF TypeOK
    <2>7. \A v \in Worker : v # w /\ Syncing(v) => Target(v) \in Product
      BY <1>1, <1>t DEF Target, TypeOK, JobRow, Syncing
    <2>8. \A v \in Worker : Target(v)' = Target(v)
      BY <2>2, <2>5 DEF Target
    <2>9. \A j \in Job : jobs[j].target \in Product
      BY <1>t DEF TypeOK, JobRow
    <2>10. \A j \in Job : jobs'[j].status \notin {"absent", "purged"} =>
                        products'[jobs'[j].target] # "absent"
      BY <2>2, <2>6, <2>9
    <2> QED
      BY <2>4, <2>5, <2>6, <2>7, <2>8, <2>10 DEF Syncing
  <1>5. ASSUME products' = products,
               \A j \in Job : \/ jobs'[j].status \in {"absent", "purged"}
                              \/ /\ jobs[j].status \notin {"absent", "purged"}
                                 /\ jobs'[j].target = jobs[j].target,
               \A w \in Worker : (workers'[w].phase \in {"scanning", "invalidating", "completing"}) =>
                   /\ jobs'[workers'[w].job].target = jobs[workers'[w].job].target
                   /\ workers'[w].job = workers[w].job
                   /\ \/ workers'[w].phase = workers[w].phase
                      \/ workers'[w].phase = "completing" /\ workers[w].phase = "invalidating"
        PROVE  SyncView'
    BY <1>5 DEF Target
  <1>6. ASSUME NEW w \in Worker, Claim(w) PROVE SyncView'
    <2>1. PICK j \in Job :
          /\ FirstInLine(j)
          /\ jobs' = [jobs EXCEPT ![j].status = "running",
                                  ![j].locked = LockTtl,
                                  ![j].attempts = @ + 1,
                                  ![j].due = 0]
          /\ workers' = [workers EXCEPT ![w] = [phase |-> "claimed", job |-> j]]
      BY <1>6 DEF Claim
    <2>2. jobs[j].status = "pending"
      BY <2>1 DEF FirstInLine, Claimable
    <2>3. /\ \A i \in Job : i # j => jobs'[i] = jobs[i]
          /\ jobs'[j].target = jobs[j].target
      BY <2>1, <1>t DEF TypeOK, JobRow
    <2>4. /\ \A v \in Worker : v # w => workers'[v] = workers[v]
          /\ workers'[w].phase = "claimed"
      BY <2>1, <1>t DEF TypeOK
    <2>5. \A v \in Worker : workers[v].phase \in {"scanning", "invalidating", "completing"} =>
             workers[v].job # j
      BY <1>2, <2>2 DEF Syncing
    <2>6. products' = products
      BY <1>6 DEF Claim
    <2> QED
      BY <1>1, <1>5, <2>2, <2>3, <2>4, <2>5, <2>6
  <1>7. ASSUME NEW w \in Worker, Complete(w) \/ CompleteUnacknowledged(w) PROVE SyncView'
    <2> DEFINE j == workers[w].job
    <2>1. /\ workers[w].phase = "completing"
          /\ jobs' = [jobs EXCEPT ![j].status = "completed", ![j].age = 0]
          /\ products' = products
          /\ \/ workers' = [workers EXCEPT ![w] = IdleWorker]
             \/ workers' = [workers EXCEPT ![w].phase = "failing"]
      BY <1>7 DEF Complete, CompleteUnacknowledged, Completed, Advance
    <2>2. j \in Job /\ jobs[j].status = "running"
      BY <1>1, <1>2, <2>1 DEF Syncing
    <2>3. \A i \in Job : jobs'[i].target = jobs[i].target /\ (i # j => jobs'[i] = jobs[i])
      BY <2>1, <2>2, <1>t DEF TypeOK, JobRow
    <2>4. /\ \A v \in Worker : v # w => workers'[v] = workers[v]
          /\ workers'[w].phase \in {"idle", "failing"}
      BY <2>1, <1>t DEF TypeOK, IdleWorker
    <2> QED
      BY <1>1, <1>5, <2>1, <2>2, <2>3, <2>4
  <1>8. ASSUME NEW w \in Worker, Fail(w) PROVE SyncView'
    <2> DEFINE j == workers[w].job
    <2>1. /\ workers[w].phase = "failing" /\ j \in Job
          /\ products' = products
          /\ workers' = [workers EXCEPT ![w] = IdleWorker]
      BY <1>1, <1>8 DEF Fail
    <2>2. \A i \in Job : jobs'[i].target = jobs[i].target /\ (i # j => jobs'[i] = jobs[i])
      BY <1>8, <2>1, <1>t DEF Fail, FailSql, TypeOK, JobRow
    <2>3. jobs[j].status \notin {"absent"}
      BY <2>1 DEF IInv, Ownership
    <2>4. jobs[j].status = "purged" => jobs' = jobs
      BY <1>8 DEF Fail, FailSql
    <2>5. /\ \A v \in Worker : v # w => workers'[v] = workers[v]
          /\ workers'[w].phase = "idle"
      BY <2>1, <1>t DEF TypeOK, IdleWorker
    <2> QED
      BY <1>1, <1>5, <2>1, <2>2, <2>3, <2>4, <2>5
  <1>9. ASSUME NEW w \in Worker, InvalidateCaches(w) \/ SyncError(w) \/ Abandon(w) PROVE SyncView'
    <2>1. /\ products' = products /\ jobs' = jobs
          /\ \/ workers' = [workers EXCEPT ![w] = IdleWorker]
             \/ workers' = [workers EXCEPT ![w].phase = "failing"]
             \/ /\ workers' = [workers EXCEPT ![w].phase = "completing"]
                /\ workers[w].phase = "invalidating"
      BY <1>9 DEF InvalidateCaches, SyncError, Abandon, Advance
    <2>2. /\ \A v \in Worker : v # w => workers'[v] = workers[v]
          /\ \/ workers'[w].phase \in {"idle", "failing"}
             \/ /\ workers'[w].phase = "completing" /\ workers[w].phase = "invalidating"
                /\ workers'[w].job = workers[w].job
      BY <2>1, <1>t DEF TypeOK, IdleWorker
    <2> QED
      BY <1>5, <2>1, <2>2
  <1>10. CASE QueueCleanup
    <2>1. NoRow("purged").status = "purged"
      BY DEF NoRow
    <2>2. \A j \in Job : \/ jobs'[j] = jobs[j]
                         \/ jobs'[j].status = "purged" /\ jobs[j].status # "running"
      BY <1>10, <2>1 DEF QueueCleanup, Purgeable
    <2>3. \A w \in Worker : Syncing(w) => jobs'[workers[w].job] = jobs[workers[w].job]
      BY <1>1, <1>2, <1>10 DEF QueueCleanup, Purgeable, Syncing
    <2> QED
      BY <1>5, <1>10, <2>2, <2>3 DEF QueueCleanup, Syncing
  <1>11. CASE Tick
    <2>1. \A j \in Job : jobs'[j].status = jobs[j].status /\ jobs'[j].target = jobs[j].target
      BY <1>11, <1>t DEF Tick, LaterRow, TypeOK, JobRow
    <2> QED
      BY <1>1, <1>5, <1>11, <2>1 DEF Tick
  <1>12. CASE UNCHANGED vars
    BY <1>12 DEF vars, Target
  <1> QED
    BY <1>3, <1>4, <1>6, <1>7, <1>8, <1>9, <1>10, <1>11, <1>12
    DEF Next, WorkerStep, CreateProduct, RequestSync, Priority

\* No replica's result is overwritten by another's 'syncing' before its job
\* is recorded as completed.
THEOREM ViewTheorem == Spec => []SyncView
  <1>1. Init => SyncView
    <2>1. NoRow("absent").status = "absent"
      BY DEF NoRow
    <2> QED
      BY <2>1 DEF Init, SyncView, CompletesWhatItSynced, IdleWorker
  <1> QED
    BY <1>1, SyncViewStep, InvariantTheorem, PTL DEF Spec

\* A replica that is about to mark its job completed (_COMPLETE_SQL) sees the
\* product 'synced', for any number of products, jobs and replicas.
THEOREM CompletedIsPublished == Spec => []CompletesWhatItSynced
  <1>1. SyncView => CompletesWhatItSynced
    BY DEF SyncView
  <1> QED
    BY <1>1, ViewTheorem, PTL

-----------------------------------------------------------------------------
\* Refinement: the queue implements SerialSync.

\* A step that changes neither who is syncing what nor a status is a stutter.
LEMMA SameSyncers ==
    ASSUME IInv,
           \A w \in Worker : Syncing(w)' <=> Syncing(w),
           \A w \in Worker : Syncing(w) => Target(w)' = Target(w)
    PROVE  Syncers' = Syncers
  <1>1. \A p \in Product : {w \in Worker : Syncing(w)' /\ Target(w)' = p}
                           = {w \in Worker : Syncing(w) /\ Target(w) = p}
    OBVIOUS
  <1> QED
    BY <1>1 DEF Syncers

\* A product being synced has exactly one replica syncing it.
LEMMA SoleSyncer ==
    ASSUME IInv, NEW w \in Worker, Syncing(w)
    PROVE  Target(w) \in Product /\ Syncers[Target(w)] = {w}
  <1>1. Target(w) \in Product
    BY BusyHasJob DEF IInv, TypeOK, JobRow, Target, Syncing
  <1>2. {v \in Worker : Syncing(v) /\ Target(v) = Target(w)} = {w}
    BY SerialByIInv DEF NoConcurrentSync
  <1> QED
    BY <1>1, <1>2 DEF Syncers

\* A replica that stops syncing while the others go on leaves its product.
LEMMA LeaveStep ==
    ASSUME IInv, NEW w \in Worker, Syncing(w), ~Syncing(w)', products' = products,
           \A v \in Worker : v # w => (Syncing(v)' <=> Syncing(v)),
           \A v \in Worker : v # w /\ Syncing(v) => Target(v)' = Target(v)
    PROVE  Serial!Leave(Target(w), w)
  <1>1. Target(w) \in Product /\ Syncers[Target(w)] = {w}
    BY SoleSyncer
  <1>2. \A p \in Product : {v \in Worker : Syncing(v)' /\ Target(v)' = p}
          = IF p = Target(w) THEN {} ELSE {v \in Worker : Syncing(v) /\ Target(v) = p}
    BY SerialByIInv DEF NoConcurrentSync
  <1>3. Syncers' = [Syncers EXCEPT ![Target(w)] = {}]
    BY <1>1, <1>2 DEF Syncers
  <1> QED
    BY <1>1, <1>3 DEF Serial!Leave

\* Every step of the queue is a step of SerialSync or changes nothing it sees.
LEMMA RefineStep == IInv /\ SyncView /\ [Next]_vars => [Serial!Next]_(Serial!vars)
  <1> SUFFICES ASSUME IInv, SyncView, [Next]_vars
               PROVE  Serial!Next \/ (Syncers' = Syncers /\ products' = products)
    BY DEF Serial!vars
  <1>t. TypeOK
    BY DEF IInv
  <1>1. \A w \in Worker : workers[w].phase # "idle" => workers[w].job \in Job
    BY BusyHasJob DEF IInv
  <1>2. \A w \in Worker : Syncing(w) =>
          /\ workers[w].job \in Job
          /\ jobs[workers[w].job].status = "running"
    BY <1>1 DEF IInv, Ownership, Syncing
  <1>3. ASSUME NEW p \in Product, NEW prio \in Priority, EnqueueSync(p, prio), UNCHANGED workers
        PROVE  Syncers' = Syncers
    <2>1. \A w \in Worker : Syncing(w) => jobs'[workers[w].job] = jobs[workers[w].job]
      BY <1>2, <1>3, <1>t DEF EnqueueSync, Free, TypeOK
    <2> QED
      BY <2>1, <1>3, SameSyncers DEF Syncing, Target
  <1>4. ASSUME NEW p \in Product, CreateProduct(p) PROVE Serial!Create(p)
    BY <1>3, <1>4 DEF CreateProduct, Serial!Create, Priority
  <1>5. ASSUME NEW w \in Worker, BeginSync(w) \/ NoCandidates(w) \/ RecordResult(w)
        PROVE  Serial!Next
    <2>1. Syncing(w) /\ jobs' = jobs
      BY <1>5 DEF BeginSync, NoCandidates, RecordResult, Advance, Syncing
    <2>2. PICK ph \in {"scanning", "completing", "invalidating"} :
            workers' = [workers EXCEPT ![w].phase = ph]
      BY <1>5 DEF BeginSync, NoCandidates, RecordResult, Advance
    <2>3. /\ \A v \in Worker : v # w => workers'[v] = workers[v]
          /\ workers'[w].phase = ph /\ workers'[w].job = workers[w].job
      BY <2>2, <1>t DEF TypeOK
    <2>4. Syncers' = Syncers
      BY <2>1, <2>3, SameSyncers DEF Syncing, Target
    <2>5. Target(w) \in Product /\ Syncers[Target(w)] = {w}
      BY <2>1, SoleSyncer
    <2>6. CASE BeginSync(w)
      BY <2>4, <2>5, <2>6 DEF BeginSync, SetSyncStatus, Serial!Next, Serial!Mark
    <2>7. CASE NoCandidates(w) \/ RecordResult(w)
      <3>1. products[Target(w)] = "syncing"
        BY <2>7 DEF SyncView, NoCandidates, RecordResult, Advance
      <3> QED
        BY <2>4, <2>5, <2>7, <3>1
        DEF NoCandidates, RecordResult, SetSyncStatus, Serial!Next, Serial!Publish
    <2> QED
      BY <1>5, <2>6, <2>7
  <1>6. ASSUME NEW w \in Worker, Claim(w) PROVE Serial!Next
    <2>1. PICK j \in Job :
          /\ FirstInLine(j)
          /\ jobs' = [jobs EXCEPT ![j].status = "running",
                                  ![j].locked = LockTtl,
                                  ![j].attempts = @ + 1,
                                  ![j].due = 0]
          /\ workers' = [workers EXCEPT ![w] = [phase |-> "claimed", job |-> j]]
      BY <1>6 DEF Claim
    <2>2. jobs[j].status = "pending"
      BY <2>1 DEF FirstInLine, Claimable
    <2>3. /\ \A i \in Job : jobs'[i].target = jobs[i].target
          /\ jobs[j].target \in Product
      BY <2>1, <1>t DEF TypeOK, JobRow
    <2>4. /\ \A v \in Worker : v # w => workers'[v] = workers[v]
          /\ workers'[w] = [phase |-> "claimed", job |-> j]
          /\ workers[w].phase = "idle"
      BY <1>6, <2>1, <1>t DEF TypeOK, Claim
    <2> DEFINE p == jobs[j].target
    <2>5. \A v \in Worker : Syncing(v) => Target(v) # p
      BY <1>2, <2>2 DEF IInv, OneActiveJobPerTarget, Active, Target
    <2>6. /\ \A v \in Worker : v # w => (Syncing(v)' <=> Syncing(v))
          /\ \A v \in Worker : v # w /\ Syncing(v) => Target(v)' = Target(v)
          /\ Syncing(w)' /\ ~Syncing(w) /\ Target(w)' = p
      BY <1>2, <2>3, <2>4 DEF Syncing, Target
    <2>7. \A q \in Product : {v \in Worker : Syncing(v)' /\ Target(v)' = q}
            = IF q = p THEN {w} ELSE {v \in Worker : Syncing(v) /\ Target(v) = q}
      BY <2>5, <2>6
    <2>8. Syncers' = [Syncers EXCEPT ![p] = {w}]
      BY <2>3, <2>7 DEF Syncers
    <2>9. Syncers[p] = {} /\ \A q \in Product : w \notin Syncers[q]
      BY <2>3, <2>5, <2>6 DEF Syncers
    <2>10. products[p] # "absent" /\ products' = products
      BY <1>6, <2>2 DEF SyncView, Claim
    <2>11. Serial!Start(p, w)
      BY <2>8, <2>9, <2>10 DEF Serial!Start
    <2> QED
      BY <2>3, <2>11 DEF Serial!Next
  <1>7. ASSUME NEW w \in Worker, Complete(w) \/ CompleteUnacknowledged(w) PROVE Serial!Next
    <2> DEFINE j == workers[w].job
    <2>1. /\ workers[w].phase = "completing"
          /\ jobs' = [jobs EXCEPT ![j].status = "completed", ![j].age = 0]
          /\ products' = products
          /\ \/ workers' = [workers EXCEPT ![w] = IdleWorker]
             \/ workers' = [workers EXCEPT ![w].phase = "failing"]
      BY <1>7 DEF Complete, CompleteUnacknowledged, Completed, Advance
    <2>2. \A i \in Job : jobs'[i].target = jobs[i].target
      BY <2>1, <1>t DEF TypeOK, JobRow
    <2>3. /\ \A v \in Worker : v # w => workers'[v] = workers[v]
          /\ workers'[w].phase \in {"idle", "failing"}
      BY <2>1, <1>t DEF TypeOK, IdleWorker
    <2>4. Syncing(w) /\ Target(w) \in Product
      BY <2>1, SoleSyncer DEF Syncing
    <2>5. /\ ~Syncing(w)'
          /\ \A v \in Worker : v # w => (Syncing(v)' <=> Syncing(v))
      BY <2>3 DEF Syncing
    <2>6. \A v \in Worker : v # w /\ Syncing(v) => Target(v)' = Target(v)
      BY <1>2, <2>2, <2>3 DEF Target
    <2>7. Serial!Leave(Target(w), w)
      BY <2>1, <2>4, <2>5, <2>6, LeaveStep
    <2> QED
      BY <2>4, <2>7 DEF Serial!Next
  <1>8. ASSUME NEW w \in Worker, SyncError(w) \/ Abandon(w) \/ InvalidateCaches(w)
        PROVE  Serial!Next \/ (Syncers' = Syncers /\ products' = products)
    <2>1. /\ products' = products /\ jobs' = jobs
          /\ \/ workers' = [workers EXCEPT ![w] = IdleWorker]
             \/ workers' = [workers EXCEPT ![w].phase = "failing"]
             \/ /\ workers' = [workers EXCEPT ![w].phase = "completing"]
                /\ workers[w].phase = "invalidating"
      BY <1>8 DEF InvalidateCaches, SyncError, Abandon, Advance
    <2>2. /\ \A v \in Worker : v # w => workers'[v] = workers[v]
          /\ \/ workers'[w].phase \in {"idle", "failing"}
             \/ /\ workers'[w].phase = "completing" /\ workers[w].phase = "invalidating"
                /\ workers'[w].job = workers[w].job
      BY <2>1, <1>t DEF TypeOK, IdleWorker
    <2>3. \A v \in Worker : v # w => (Syncing(v)' <=> Syncing(v)) /\ Target(v)' = Target(v)
      BY <2>1, <2>2 DEF Syncing, Target
    <2>4. CASE Syncing(w) /\ ~Syncing(w)'
      BY <2>1, <2>3, <2>4, LeaveStep, SoleSyncer DEF Serial!Next
    <2>5. CASE ~(Syncing(w) /\ ~Syncing(w)')
      <3>1. Syncing(w)' <=> Syncing(w)
        BY <2>2, <2>5 DEF Syncing
      <3>2. Syncing(w) => Target(w)' = Target(w)
        BY <2>1, <2>2, <2>5 DEF Syncing, Target
      <3> QED
        BY <2>1, <2>3, <3>1, <3>2, SameSyncers
    <2> QED
      BY <2>4, <2>5
  <1>9. ASSUME NEW w \in Worker, Fail(w) PROVE Syncers' = Syncers /\ products' = products
    <2>1. /\ workers[w].phase = "failing" /\ products' = products
          /\ workers' = [workers EXCEPT ![w] = IdleWorker]
          /\ workers[w].job \in Job
      BY <1>1, <1>9 DEF Fail
    <2>2. \A i \in Job : jobs'[i].target = jobs[i].target
      BY <1>9, <2>1, <1>t DEF Fail, FailSql, TypeOK, JobRow
    <2>3. /\ \A v \in Worker : v # w => workers'[v] = workers[v]
          /\ workers'[w].phase = "idle"
      BY <2>1, <1>t DEF TypeOK, IdleWorker
    <2> QED
      BY <1>2, <2>1, <2>2, <2>3, SameSyncers DEF Syncing, Target
  <1>10. CASE QueueCleanup
    <2>1. \A w \in Worker : Syncing(w) => jobs'[workers[w].job] = jobs[workers[w].job]
      BY <1>2, <1>10 DEF QueueCleanup, Purgeable
    <2> QED
      BY <1>10, <2>1, SameSyncers DEF QueueCleanup, Syncing, Target
  <1>11. CASE Tick
    <2>1. \A j \in Job : jobs'[j].target = jobs[j].target
      BY <1>11, <1>t DEF Tick, LaterRow, TypeOK, JobRow
    <2> QED
      BY <1>2, <1>11, <2>1, SameSyncers DEF Tick, Syncing, Target
  <1>12. CASE UNCHANGED vars
    BY <1>12 DEF vars, Syncers, Syncing, Target
  <1>13. ASSUME NEW p \in Product, NEW prio \in Priority, RequestSync(p, prio)
         PROVE  Syncers' = Syncers /\ products' = products
    BY <1>3, <1>13 DEF RequestSync
  <1>14. (\E p \in Product : Serial!Create(p)) => Serial!Next
    BY DEF Serial!Next
  <1> QED
    BY <1>4, <1>5, <1>6, <1>7, <1>8, <1>9, <1>10, <1>11, <1>12, <1>13, <1>14
    DEF Next, WorkerStep

\* The queue implements the serial product sync, for any number of products,
\* jobs and replicas: every behaviour of SyncQueue is one of SerialSync.
THEOREM QueueImplementsSerialSync == Spec => ImplementsSerialSync
  <1>1. Init => Serial!Init
    <2>1. Init => \A w \in Worker : ~Syncing(w)
      BY DEF Init, IdleWorker, Syncing
    <2> QED
      BY <2>1 DEF Init, Serial!Init, Syncers
  <1> QED
    BY <1>1, RefineStep, InvariantTheorem, ViewTheorem, PTL
    DEF Spec, ImplementsSerialSync, Serial!Spec
=============================================================================

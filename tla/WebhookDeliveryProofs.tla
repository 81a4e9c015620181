------------------------ MODULE WebhookDeliveryProofs ------------------------
(***************************************************************************)
(* Proofs about WebhookDelivery, for any number of deliveries and tasks    *)
(* and any max_attempts, lock length and backoff whose delays are no       *)
(* shorter than the lock.                                                  *)
(*                                                                         *)
(* A task that outlives its lock still holds its row and writes to it      *)
(* blindly.  The invariant says what it can do no harm to: the newest      *)
(* claim has the highest attempt number, and until that claim's lock would *)
(* have run out something keeps further claims away, the lock, the next    *)
(* scheduled_at, or the attempts having run out.  A task that may have     *)
(* given up on the last attempt but one has no such claim on its row: the  *)
(* only claim to come is that of the last attempt.                         *)
(***************************************************************************)
EXTENDS WebhookDelivery, FiniteSetTheorems, SequenceTheorems, TLAPS

\* What most steps need of the constants; Backoff matters to one lemma only.
LEMMA Bounds ==
    /\ NoDelivery \notin Delivery
    /\ MaxAttempts \in Nat /\ MaxAttempts > 0
    /\ Lock \in Nat /\ Lock > 0
    /\ Keep \in Nat
  BY DeliveryAssumption

USE Bounds

\* The tasks that hold row d and have not posted yet.
Pending(d) == {t \in Task : tasks[t].row = d /\ tasks[t].phase = "claimed"}

\* A task whose lock has not run out.
Fresh(t) == tasks[t].row # NoDelivery /\ tasks[t].age < Lock

\* A task that may have recorded its failure already.
GivingUp(t) == tasks[t].phase \in {"bumping", "handler"}

\* A row that nobody has worked on.
AbsentIsUntouched ==
    \A d \in Delivery : rows[d].state = "absent" =>
        posts[d] = 0 /\ \A t \in Task : tasks[t].row # d

\* What keeps others off the row of a fresh task t for the rest of its lock; of
\* a task that is giving up, it keeps all but the last attempt off.
Guarded(t) ==
    LET r == rows[tasks[t].row]
    IN  \/ r.state # "queued"
        \/ r.attempts = MaxAttempts
        \/ r.locked >= Lock - tasks[t].age
        \/ r.wait >= Lock - tasks[t].age
        \/ GivingUp(t) /\ r.attempts >= MaxAttempts - 1

\* A fresh task has its row's last attempt, unless it is giving up and the last
\* of all has been claimed.
Newest(t) ==
    LET r == rows[tasks[t].row]
    IN  \/ tasks[t].attempts = r.attempts
        \/ GivingUp(t) /\ r.attempts = MaxAttempts

\* The attempt number of a task is counted in its row.
ClaimsAreCounted ==
    \A t \in Task : tasks[t].row # NoDelivery /\ Exists(tasks[t].row) =>
        /\ tasks[t].attempts <= rows[tasks[t].row].attempts
        /\ Fresh(t) => Newest(t) /\ Guarded(t)

\* An earlier claim that has outlived its lock.
Late(t, s) == tasks[t].age = Lock /\ tasks[t].attempts < tasks[s].attempts

\* Beside a fresh task, whoever else holds the row is an earlier, late claim, or
\* one of the two has handed the last attempt on to the other.
FreshIsNewest ==
    \A s, t \in Task :
        s # t /\ Fresh(s) /\ tasks[t].row = tasks[s].row =>
            Late(t, s) \/ HandedOn(s, t) \/ HandedOn(t, s)

\* The requests that row d allows for; those of a row that is gone are over.
Budget(d) == IF Exists(d) THEN rows[d].attempts ELSE MaxAttempts

\* A claim pays for the request its task may still send.
PostsArePaid ==
    \A d \in Delivery : /\ IsFiniteSet(Pending(d))
                        /\ posts[d] + Cardinality(Pending(d)) <= Budget(d)

IInv ==
    /\ TypeOK
    /\ AbsentIsUntouched
    /\ ClaimsAreCounted
    /\ FreshIsNewest
    /\ PostsArePaid

-----------------------------------------------------------------------------
\* Types.

TaskState == [phase : Phase, row : Delivery \cup {NoDelivery},
              attempts : 0..MaxAttempts, age : 0..Lock]

\* The delay before a retry is one of _BACKOFF_SECONDS, hence no shorter than
\* the lock.
LEMMA DelayOutlastsLock ==
    ASSUME NEW i \in Int
    PROVE  NextAttemptDelay(i) \in Nat /\ NextAttemptDelay(i) >= Lock
<1> DEFINE bucket == IF i < 1 THEN 1 ELSE IF i > Len(Backoff) THEN Len(Backoff) ELSE i
<1>1. Len(Backoff) \in Nat /\ Len(Backoff) > 0
  BY DeliveryAssumption, LenProperties
<1>2. bucket \in 1..Len(Backoff)
  BY <1>1
<1> HIDE DEF bucket
<1>3. Backoff[bucket] \in Nat
  BY <1>2, DeliveryAssumption, ElementOfSeq
<1> QED
  BY <1>2, <1>3, DeliveryAssumption DEF NextAttemptDelay, bucket

\* A failure is rescheduled at once only on the last attempt but one, or later.
LEMMA RescheduledOutlastsLock ==
    ASSUME NEW n \in 0..MaxAttempts
    PROVE  /\ Rescheduled(n) \in Nat
           /\ Rescheduled(n) >= Lock \/ n >= MaxAttempts - 1
  BY DelayOutlastsLock DEF Rescheduled, GivesUp

\* A task at work has a row.
LEMMA BusyHasRow ==
    ASSUME TypeOK, NEW t \in Task
    PROVE  /\ tasks[t] \in TaskState
           /\ tasks[t].phase # "free" => tasks[t].row \in Delivery
  BY DEF TypeOK, TaskState

\* What one task's step writes to its own record.
LEMMA TaskTypes ==
    ASSUME TypeOK, NEW t \in Task, NEW to \in Phase \ {"free"}, tasks[t].phase # "free",
           \/ tasks' = [tasks EXCEPT ![t] = FreeTask]
           \/ tasks' = [tasks EXCEPT ![t].phase = to]
    PROVE  /\ tasks' \in [Task -> TaskState]
           /\ \A s \in Task : tasks'[s].phase = "free" <=> tasks'[s].row = NoDelivery
<1>1. FreeTask \in TaskState
  BY DEF FreeTask, TaskState, Phase
<1>2. \A s \in Task : s # t => tasks'[s] = tasks[s]
  BY DEF TypeOK
<1>3. \/ tasks'[t] = FreeTask
      \/ tasks'[t] = [tasks[t] EXCEPT !.phase = to]
  BY DEF TypeOK
<1>4. tasks'[t] \in TaskState /\ (tasks'[t].phase = "free" <=> tasks'[t].row = NoDelivery)
  BY <1>1, <1>3, BusyHasRow DEF FreeTask, TaskState
<1>5. tasks' = [s \in Task |-> tasks'[s]]
  BY DEF TypeOK
<1>6. \A s \in Task : tasks'[s] \in TaskState
  BY <1>2, <1>4, BusyHasRow
<1> QED
  BY <1>2, <1>4, <1>5, <1>6 DEF TypeOK

\* The updates of a row: the type of one field at a time.
LEMMA FieldTypes ==
    ASSUME NEW r \in Row
    PROVE  /\ \A l \in 0..Lock : [r EXCEPT !.locked = l] \in Row
           /\ \A w \in Nat : [r EXCEPT !.wait = w] \in Row
           /\ \A g \in 0..Keep : [r EXCEPT !.age = g] \in Row
           /\ \A n \in 0..MaxAttempts : [r EXCEPT !.attempts = n] \in Row
           /\ [r EXCEPT !.state = "delivered"] \in Row
  BY DEF Row, RowState

\* What a claim makes of a row.
LEMMA ClaimedRow ==
    ASSUME NEW r \in Row, r.attempts < MaxAttempts
    PROVE  /\ Claimed(r) \in Row
           /\ Claimed(r).state = r.state /\ Claimed(r).attempts = r.attempts + 1
           /\ Claimed(r).locked = Lock
<1> DEFINE q == [r EXCEPT !.locked = Lock]
<1>1. q \in Row /\ q.attempts = r.attempts
  BY FieldTypes DEF Row
<1>2. Claimed(r) = [q EXCEPT !.attempts = q.attempts + 1]
  BY <1>1 DEF Claimed
<1> HIDE DEF q
<1>3. q.attempts + 1 \in 0..MaxAttempts
  BY <1>1 DEF Row
<1>4. Claimed(r) \in Row
  BY <1>1, <1>2, <1>3, FieldTypes
<1> QED
  BY <1>4 DEF Claimed, Row

\* What a success makes of a row.
Delivered(r) == [r EXCEPT !.state = "delivered", !.locked = 0, !.age = 0]

\* It keeps the attempts.
LEMMA DeliveredRow ==
    ASSUME NEW r \in Row
    PROVE  /\ Delivered(r) \in Row
           /\ Delivered(r).state = "delivered" /\ Delivered(r).attempts = r.attempts
<1> DEFINE q == [r EXCEPT !.state = "delivered"]
           p == [q EXCEPT !.locked = 0]
<1>0. 0 \in 0..Lock /\ 0 \in 0..Keep
  OBVIOUS
<1>1. q \in Row
  BY FieldTypes
<1>2. Delivered(r) = [p EXCEPT !.age = 0]
  BY DEF Delivered
<1> HIDE DEF q
<1>3. p \in Row
  BY <1>0, <1>1, FieldTypes
<1> HIDE DEF p
<1>4. Delivered(r) \in Row
  BY <1>0, <1>2, <1>3, FieldTypes
<1> QED
  BY <1>4 DEF Delivered, Row

\* What a recorded failure makes of a row.
Retried(r, w) == [r EXCEPT !.locked = 0, !.wait = w]

\* It keeps state and attempts and sets scheduled_at.
LEMMA RetriedRow ==
    ASSUME NEW r \in Row, NEW w \in Nat
    PROVE  /\ Retried(r, w) \in Row
           /\ Retried(r, w).state = r.state /\ Retried(r, w).attempts = r.attempts
           /\ Retried(r, w).wait = w
<1> DEFINE q == [r EXCEPT !.locked = 0]
<1>1. q \in Row
  <2>1. 0 \in 0..Lock
    OBVIOUS
  <2> QED
    BY <2>1, FieldTypes
<1>2. Retried(r, w) = [q EXCEPT !.wait = w]
  BY DEF Retried
<1> HIDE DEF q
<1>3. Retried(r, w) \in Row
  BY <1>1, <1>2, FieldTypes
<1> QED
  BY <1>3 DEF Retried, Row

\* A unit of time brings scheduled_at and locked_until one unit closer.
LEMMA LaterRowFields ==
    ASSUME NEW r \in Row
    PROVE  /\ LaterRow(r) \in Row
           /\ LaterRow(r).state = r.state /\ LaterRow(r).attempts = r.attempts
           /\ LaterRow(r).wait = Down(r.wait) /\ LaterRow(r).locked = Down(r.locked)
<1> DEFINE g == IF r.state = "delivered" THEN Up(r.age, Keep) ELSE r.age
           q == [r EXCEPT !.wait = Down(r.wait)]
           p == [q EXCEPT !.locked = Down(r.locked)]
<1>1. Down(r.wait) \in Nat /\ Down(r.locked) \in 0..Lock /\ g \in 0..Keep
  BY DEF Down, Up, Row
<1>2. q \in Row /\ q.locked = r.locked /\ q.age = r.age
  BY <1>1, FieldTypes DEF Row
<1>3. p \in Row /\ p.age = r.age
  <2> HIDE DEF q, g
  <2> QED
    BY <1>1, <1>2, FieldTypes DEF Row
<1>4. LaterRow(r) = [p EXCEPT !.age = g]
  BY <1>2, <1>3 DEF LaterRow
<1> HIDE DEF p, g
<1>5. LaterRow(r) \in Row
  BY <1>1, <1>3, <1>4, FieldTypes
<1> QED
  BY <1>5 DEF LaterRow, Row

\* _MARK_SUCCESS_SQL writes a row.
LEMMA MarkSuccessTypes ==
    ASSUME TypeOK, NEW d \in Delivery, MarkSuccess(d)
    PROVE  rows' \in [Delivery -> Row]
<1>1. rows \in [Delivery -> Row] /\ rows[d] \in Row
  BY DEF TypeOK
<1>2. Delivered(rows[d]) \in Row
  BY <1>1, DeliveredRow
<1>3. rows' = rows \/ rows' = [rows EXCEPT ![d] = Delivered(rows[d])]
  BY <1>1 DEF MarkSuccess, Delivered
<1> QED
  BY <1>1, <1>2, <1>3

\* The steps after a failure.
Handling(t) == RecordFailure(t) \/ BumpFailure(t) \/ HandleError(t)

\* The update of _record_failure, where it finds the row.
FailureMarked(t) ==
    LET d == tasks[t].row IN
    /\ Exists(d)
    /\ rows' = [rows EXCEPT ![d] = Retried(rows[d], Rescheduled(tasks[t].attempts))]

\* What they have in common: the task ends or goes on, the row is marked or not.
LEMMA HandlingStep ==
    ASSUME TypeOK, NEW t \in Task, Handling(t)
    PROVE  /\ tasks[t].phase \in {"failed", "bumping", "handler"} /\ tasks[t].phase # "free"
           /\ tasks[t].row \in Delivery /\ posts' = posts /\ hook' = hook
           /\ \/ tasks' = [tasks EXCEPT ![t] = FreeTask]
              \/ \E to \in {"bumping", "handler"} : tasks' = [tasks EXCEPT ![t].phase = to]
           /\ rows' = rows \/ FailureMarked(t)
           /\ rows' \in [Delivery -> Row]
<1> DEFINE d == tasks[t].row
           w == Rescheduled(tasks[t].attempts)
<1>1. /\ tasks[t].phase \in {"failed", "bumping", "handler"}
      /\ posts' = posts /\ hook' = hook
      /\ \/ tasks' = [tasks EXCEPT ![t] = FreeTask]
         \/ \E to \in {"bumping", "handler"} : tasks' = [tasks EXCEPT ![t].phase = to]
  BY DEF Handling, RecordFailure, BumpFailure, HandleError, Advance, End
<1>2. d \in Delivery /\ rows[d] \in Row /\ rows \in [Delivery -> Row]
  BY <1>1, BusyHasRow DEF TypeOK
<1>3. rows' = rows \/ MarkFailure(t)
  BY DEF Handling, RecordFailure, BumpFailure, HandleError
<1>4. rows' = rows \/ FailureMarked(t)
  BY <1>2, <1>3 DEF MarkFailure, FailureMarked, Retried
<1>5. w \in Nat
  BY RescheduledOutlastsLock, BusyHasRow DEF TaskState
<1>6. rows' \in [Delivery -> Row]
  <2>1. rows' = rows \/ rows' = [rows EXCEPT ![d] = Retried(rows[d], w)]
    BY <1>4 DEF FailureMarked
  <2> HIDE DEF d, w
  <2>2. Retried(rows[d], w) \in Row
    BY <1>2, <1>5, RetriedRow
  <2> QED
    BY <1>2, <2>1, <2>2
<1> QED
  BY <1>1, <1>2, <1>4, <1>6

\* Every step keeps the types.
LEMMA TypePreserved ==
    ASSUME TypeOK, Next
    PROVE  TypeOK'
<1> DEFINE TasksOK ==
      /\ tasks' \in [Task -> TaskState]
      /\ \A s \in Task : tasks'[s].phase = "free" <=> tasks'[s].row = NoDelivery
<1>0. ASSUME TasksOK, rows' \in [Delivery -> Row], hook' \in HookState,
             posts' \in [Delivery -> Nat]
      PROVE  TypeOK'
  BY <1>0 DEF TypeOK, TaskState
<1>1. ASSUME UNCHANGED tasks PROVE TasksOK
  BY <1>1 DEF TypeOK, TaskState
<1>2. /\ NoRow("queued") \in Row /\ NoRow("dropped") \in Row
      /\ rows \in [Delivery -> Row] /\ hook \in HookState /\ posts \in [Delivery -> Nat]
  BY DEF TypeOK, NoRow, Row, RowState
<1> HIDE DEF TasksOK
<1>3. ASSUME NEW d \in Delivery, EnqueueDelivery(d) PROVE TypeOK'
  <2>1. rows' \in [Delivery -> Row]
    BY <1>2, <1>3 DEF EnqueueDelivery
  <2> QED
    BY <1>0, <1>1, <1>2, <1>3, <2>1 DEF EnqueueDelivery
<1>4. ASSUME NEW st \in HookState, CreateWebhook(st) \/ UpdateWebhook(st) PROVE TypeOK'
  BY <1>0, <1>1, <1>2, <1>4 DEF CreateWebhook, UpdateWebhook
<1>5. CASE DeleteWebhook
  BY <1>0, <1>1, <1>2, <1>5 DEF DeleteWebhook, HookState
<1>6. ASSUME NEW t \in Task, NEW d \in Delivery, Claim(t, d) PROVE TypeOK'
  <2>1. /\ rows[d] \in Row /\ rows[d].attempts < MaxAttempts
        /\ rows' = [rows EXCEPT ![d] = Claimed(@)]
    BY <1>2, <1>6 DEF Claim, Claimable
  <2>2. Claimed(rows[d]) \in Row
    BY <2>1, ClaimedRow
  <2>3. rows' \in [Delivery -> Row] /\ rows'[d] \in Row
    BY <1>2, <2>1, <2>2
  <2> DEFINE k == [phase |-> "claimed", row |-> d, attempts |-> rows'[d].attempts, age |-> 0]
  <2>4. k \in TaskState /\ k.phase # "free" /\ k.row # NoDelivery
    BY <2>3 DEF TaskState, Phase, Row
  <2>5. tasks' = [tasks EXCEPT ![t] = k]
    BY <1>6 DEF Claim
  <2> HIDE DEF k
  <2>6. TasksOK
    BY <2>4, <2>5 DEF TypeOK, TasksOK, TaskState
  <2> QED
    BY <1>0, <1>2, <1>6, <2>3, <2>6 DEF Claim
<1>7. ASSUME NEW t \in Task, WebhookGone(t) PROVE TypeOK'
  <2>1. TasksOK
    BY <1>7, TaskTypes DEF WebhookGone, End, TasksOK, Phase
  <2>2. rows' \in [Delivery -> Row]
    BY <1>7, MarkSuccessTypes, BusyHasRow DEF WebhookGone, End
  <2> QED
    BY <1>0, <1>2, <1>7, <2>1, <2>2 DEF WebhookGone
<1>8. ASSUME NEW t \in Task, Refused(t) \/ Response(t) PROVE TypeOK'
  <2>1. /\ tasks[t].phase # "free"
        /\ \E to \in Phase \ {"free"} : tasks' = [tasks EXCEPT ![t].phase = to]
    BY <1>8 DEF Refused, Response, Advance, Phase
  <2>2. TasksOK
    BY <2>1, TaskTypes DEF TasksOK
  <2> QED
    BY <1>0, <1>2, <1>8, <2>2 DEF Refused, Response
<1>9. ASSUME NEW t \in Task, Post(t) PROVE TypeOK'
  <2>1. TasksOK
    <3>1. "posting" \in Phase \ {"free"}
      BY DEF Phase
    <3>2. tasks[t].phase # "free" /\ tasks' = [tasks EXCEPT ![t].phase = "posting"]
      BY <1>9 DEF Post, Advance
    <3> QED
      BY <3>1, <3>2, TaskTypes DEF TasksOK
  <2>2. posts' \in [Delivery -> Nat]
    <3>1. tasks[t].row \in Delivery /\ posts' = [posts EXCEPT ![tasks[t].row] = @ + 1]
      BY <1>9, BusyHasRow DEF Post, Advance
    <3>2. posts[tasks[t].row] + 1 \in Nat
      BY <1>2, <3>1
    <3> QED
      BY <1>2, <3>1, <3>2
  <2> QED
    BY <1>0, <1>2, <1>9, <2>1, <2>2 DEF Post
<1>10. ASSUME NEW t \in Task, Accepted(t) PROVE TypeOK'
  <2>1. TasksOK
    BY <1>10, TaskTypes DEF Accepted, Advance, End, TasksOK, Phase
  <2>2. rows' \in [Delivery -> Row]
    BY <1>2, <1>10, MarkSuccessTypes, BusyHasRow DEF Accepted, Advance, End
  <2> QED
    BY <1>0, <1>2, <1>10, <2>1, <2>2 DEF Accepted
<1>11. ASSUME NEW t \in Task, Handling(t) PROVE TypeOK'
  <2>1. /\ tasks[t].phase # "free" /\ posts' = posts /\ hook' = hook
        /\ \/ tasks' = [tasks EXCEPT ![t] = FreeTask]
           \/ \E to \in {"bumping", "handler"} : tasks' = [tasks EXCEPT ![t].phase = to]
    BY <1>11, HandlingStep
  <2>2. TasksOK
    <3>1. \A to \in {"bumping", "handler"} : to \in Phase \ {"free"}
      BY DEF Phase
    <3> QED
      BY <2>1, <3>1, TaskTypes DEF TasksOK
  <2>3. rows' \in [Delivery -> Row]
    BY <1>11, HandlingStep
  <2> QED
    BY <1>0, <1>2, <2>1, <2>2, <2>3
<1>12. ASSUME NEW t \in Task, Die(t) PROVE TypeOK'
  <2>1. TasksOK
    <3>1. "failed" \in Phase \ {"free"}
      BY DEF Phase
    <3> QED
      BY <1>12, <3>1, TaskTypes DEF Die, TasksOK
  <2> QED
    BY <1>0, <1>2, <1>12, <2>1 DEF Die
<1>13. CASE Cleanup
  <2>1. rows' \in [Delivery -> Row]
    BY <1>2, <1>13 DEF Cleanup
  <2> QED
    BY <1>0, <1>1, <1>2, <1>13, <2>1 DEF Cleanup
<1>14. CASE Tick
  <2>1. \A r \in Row : LaterRow(r) \in Row
    BY LaterRowFields
  <2>2. rows' \in [Delivery -> Row]
    BY <1>2, <1>14, <2>1 DEF Tick
  <2>3. \A k \in TaskState : [k EXCEPT !.age = Up(@, Lock)] \in TaskState
    BY DEF TaskState, Up
  <2>4. TasksOK
    BY <1>14, <2>3 DEF Tick, TypeOK, TaskState, TasksOK
  <2> QED
    BY <1>0, <1>2, <1>14, <2>2, <2>4 DEF Tick
<1> QED
  BY <1>3, <1>4, <1>5, <1>6, <1>7, <1>8, <1>9, <1>10, <1>11, <1>12, <1>13, <1>14
  DEF Next, TaskStep, Handling

-----------------------------------------------------------------------------
\* Steps that neither claim a row nor insert one nor let time pass.

\* Such a step leaves a task what it has claimed, or ends it.
Settled(s) ==
    \/ tasks'[s] = FreeTask
    \/ /\ tasks'[s].row = tasks[s].row /\ tasks'[s].attempts = tasks[s].attempts
       /\ tasks'[s].age = tasks[s].age
       /\ tasks'[s].phase = "claimed" => tasks[s].phase = "claimed"
       /\ GivingUp(s) => GivingUp(s)'

\* It brings no row back and counts no attempt.
RowSettled(d) ==
    /\ rows'[d].state = "absent" => rows[d].state = "absent" /\ posts'[d] = posts[d]
    /\ rows'[d].state \in {"queued", "delivered"} =>
           Exists(d) /\ rows'[d].attempts = rows[d].attempts

\* It does not strip the row of a fresh task of its protection.
GuardKept(s) ==
    Fresh(s) /\ tasks'[s].row = tasks[s].row /\ rows'[tasks[s].row].state = "queued" =>
        Guarded(s)'

Quiet ==
    /\ \A s \in Task : Settled(s) /\ GuardKept(s)
    /\ \A d \in Delivery : RowSettled(d)

\* All parts of the invariant but the budget survive a quiet step.
LEMMA QuietPreserves ==
    ASSUME IInv, TypeOK', Quiet
    PROVE  AbsentIsUntouched' /\ ClaimsAreCounted' /\ FreshIsNewest'
<1> USE DEF IInv
<1>0. FreeTask.row = NoDelivery
  BY DEF FreeTask
<1>1. \A s \in Task : tasks'[s].row # NoDelivery =>
        /\ tasks'[s].row = tasks[s].row /\ tasks[s].row \in Delivery
        /\ tasks'[s].attempts = tasks[s].attempts /\ tasks'[s].age = tasks[s].age
        /\ GivingUp(s) => GivingUp(s)'
  BY <1>0 DEF Quiet, Settled, TypeOK
<1>2. AbsentIsUntouched'
  BY <1>1 DEF Quiet, RowSettled, AbsentIsUntouched
<1>3. ClaimsAreCounted'
  <2> SUFFICES ASSUME NEW t \in Task, tasks'[t].row # NoDelivery, Exists(tasks[t].row)'
               PROVE  /\ tasks'[t].attempts <= rows'[tasks'[t].row].attempts
                      /\ Fresh(t)' => Newest(t)' /\ Guarded(t)'
    BY DEF ClaimsAreCounted
  <2> DEFINE d == tasks[t].row
  <2>1. /\ d \in Delivery /\ tasks'[t].row = d /\ tasks'[t].attempts = tasks[t].attempts
        /\ tasks'[t].age = tasks[t].age /\ d # NoDelivery
        /\ GivingUp(t) => GivingUp(t)'
    BY <1>1
  <2>2. Exists(d) /\ rows'[d].attempts = rows[d].attempts
    BY <2>1 DEF Quiet, RowSettled, Exists
  <2>3. /\ tasks[t].attempts <= rows[d].attempts
        /\ Fresh(t) => Newest(t)
    BY <2>1, <2>2 DEF ClaimsAreCounted
  <2>4. Fresh(t)' => Guarded(t)'
    <3>1. CASE rows'[d].state # "queued"
      BY <2>1, <3>1 DEF Guarded
    <3>2. CASE rows'[d].state = "queued"
      BY <2>1, <3>2 DEF Quiet, GuardKept, Fresh
    <3> QED
      BY <3>1, <3>2
  <2> QED
    BY <2>1, <2>2, <2>3, <2>4 DEF Fresh, Newest
<1>4. FreshIsNewest'
  BY <1>1 DEF FreshIsNewest, Fresh, Late, HandedOn, GivingUp
<1> QED
  BY <1>2, <1>3, <1>4

\* So does the budget, if the step sends nothing.
LEMMA QuietKeepsBudget ==
    ASSUME IInv, TypeOK', Quiet, posts' = posts
    PROVE  PostsArePaid'
<1> USE DEF IInv
<1> SUFFICES ASSUME NEW d \in Delivery
             PROVE  /\ IsFiniteSet(Pending(d)')
                    /\ posts'[d] + Cardinality(Pending(d)') <= Budget(d)'
  BY DEF PostsArePaid, Pending
<1>1. Pending(d)' \in SUBSET Pending(d)
  BY DEF Quiet, Settled, Pending, FreeTask
<1>2. /\ IsFiniteSet(Pending(d)) /\ Cardinality(Pending(d)) \in Nat
      /\ posts[d] + Cardinality(Pending(d)) <= Budget(d)
  BY FS_CardinalityType DEF PostsArePaid
<1>3. /\ IsFiniteSet(Pending(d)') /\ Cardinality(Pending(d)') \in Nat
      /\ Cardinality(Pending(d)') <= Cardinality(Pending(d))
  BY <1>1, <1>2, FS_Subset, FS_CardinalityType
<1>4. Budget(d) <= Budget(d)'
  <2>1. rows[d].attempts \in 0..MaxAttempts
    BY DEF TypeOK, Row
  <2> QED
    BY <2>1 DEF Quiet, RowSettled, Budget, Exists
<1>5. posts[d] \in Nat /\ Budget(d) \in Nat /\ Budget(d)' \in Nat
  <2>1. rows[d].attempts \in Nat /\ rows'[d].attempts \in Nat
    BY DEF TypeOK, Row
  <2> QED
    BY <2>1 DEF Budget, TypeOK
<1> QED
  BY <1>2, <1>3, <1>4, <1>5

\* A task that ends or goes on to another phase is settled, as are the others.
LEMMA TaskStepSettles ==
    ASSUME TypeOK, NEW t \in Task, NEW to, to # "claimed",
           GivingUp(t) => to \in {"bumping", "handler"},
           \/ tasks' = [tasks EXCEPT ![t] = FreeTask]
           \/ tasks' = [tasks EXCEPT ![t].phase = to]
    PROVE  \A s \in Task : Settled(s)
<1>1. \A s \in Task : s # t => tasks'[s] = tasks[s]
  BY DEF TypeOK
<1>2. tasks'[t] = FreeTask \/ tasks'[t] = [tasks[t] EXCEPT !.phase = to]
  BY DEF TypeOK
<1>3. Settled(t)
  BY <1>2 DEF Settled, TypeOK, GivingUp
<1> QED
  BY <1>1, <1>3 DEF Settled, GivingUp

\* The protection of a fresh task survives where its row does not change.
LEMMA SameRowSameGuard ==
    ASSUME IInv, NEW s \in Task, Settled(s),
           Fresh(s) => rows'[tasks[s].row] = rows[tasks[s].row]
    PROVE  GuardKept(s)
<1> SUFFICES ASSUME Fresh(s), tasks'[s].row = tasks[s].row, rows'[tasks[s].row].state = "queued"
             PROVE  Guarded(s)'
  BY DEF GuardKept
<1>1. tasks'[s].age = tasks[s].age /\ (GivingUp(s) => GivingUp(s)')
  BY DEF Fresh, Settled, FreeTask
<1>2. Guarded(s)
  BY DEF IInv, ClaimsAreCounted, Exists, Fresh
<1> QED
  BY <1>1, <1>2 DEF Guarded

\* A step that leaves the rows alone.
LEMMA RowsAloneIsQuiet ==
    ASSUME IInv, \A s \in Task : Settled(s), rows' = rows,
           \A d \in Delivery : rows[d].state = "absent" => posts'[d] = posts[d]
    PROVE  Quiet
<1>1. \A s \in Task : GuardKept(s)
  BY SameRowSameGuard
<1> QED
  BY <1>1 DEF Quiet, RowSettled, Exists

\* _MARK_SUCCESS_SQL: the row is no longer queued.
LEMMA MarkSuccessIsQuiet ==
    ASSUME IInv, \A s \in Task : Settled(s), NEW d \in Delivery, MarkSuccess(d), posts' = posts
    PROVE  Quiet
<1>1. CASE rows' = rows
  BY <1>1, RowsAloneIsQuiet
<1>2. CASE Exists(d) /\ rows' = [rows EXCEPT ![d] = Delivered(rows[d])]
  <2>1. /\ rows \in [Delivery -> Row] /\ rows[d] \in Row
        /\ \A e \in Delivery : e # d => rows'[e] = rows[e]
        /\ rows'[d] = Delivered(rows[d])
    BY <1>2 DEF IInv, TypeOK
  <2>2. rows'[d].state = "delivered" /\ rows'[d].attempts = rows[d].attempts
    BY <2>1, DeliveredRow
  <2>3. \A e \in Delivery : RowSettled(e)
    BY <1>2, <2>1, <2>2 DEF RowSettled, Exists
  <2>4. ASSUME NEW s \in Task PROVE GuardKept(s)
    <3>1. CASE tasks[s].row = d
      BY <2>2, <3>1 DEF GuardKept
    <3>2. CASE tasks[s].row # d
      <4>1. Fresh(s) => tasks[s].row \in Delivery
        BY DEF Fresh, IInv, TypeOK
      <4> QED
        BY <2>1, <3>2, <4>1, SameRowSameGuard
    <3> QED
      BY <3>1, <3>2
  <2> QED
    BY <2>3, <2>4 DEF Quiet
<1> QED
  BY <1>1, <1>2 DEF MarkSuccess, Delivered, IInv, TypeOK

\* _record_failure of a late task: it takes the lock off the task that took
\* over, but either the new scheduled_at is a lock's length away, or the late
\* task had the last attempt but one and the other has the last.
LEMMA HandlingIsQuiet ==
    ASSUME IInv, NEW t \in Task, Handling(t)
    PROVE  Quiet
<1> DEFINE d == tasks[t].row
           w == Rescheduled(tasks[t].attempts)
<1>0. TypeOK
  BY DEF IInv
<1>1. /\ d \in Delivery /\ rows[d] \in Row /\ rows \in [Delivery -> Row]
      /\ tasks[t].attempts \in 0..MaxAttempts /\ posts' = posts
  BY <1>0, HandlingStep DEF TypeOK
<1>2. \A s \in Task : Settled(s)
  <2>1. CASE tasks' = [tasks EXCEPT ![t] = FreeTask]
    <3>1. "handler" # "claimed" /\ "handler" \in {"bumping", "handler"}
      OBVIOUS
    <3> QED
      BY <1>0, <2>1, <3>1, TaskStepSettles
  <2>2. ASSUME NEW to \in {"bumping", "handler"}, tasks' = [tasks EXCEPT ![t].phase = to]
        PROVE  \A s \in Task : Settled(s)
    BY <1>0, <2>2, TaskStepSettles
  <2> QED
    BY <1>0, <2>1, <2>2, HandlingStep
<1>3. CASE rows' = rows
  BY <1>1, <1>2, <1>3, RowsAloneIsQuiet
<1>4. CASE FailureMarked(t)
  <2>0. Exists(d) /\ rows' = [rows EXCEPT ![d] = Retried(rows[d], w)]
    BY <1>4 DEF FailureMarked
  <2>1. w \in Nat /\ (w >= Lock \/ tasks[t].attempts >= MaxAttempts - 1)
    BY <1>1, RescheduledOutlastsLock
  <2> HIDE DEF w
  <2>2. /\ \A e \in Delivery : e # d => rows'[e] = rows[e]
        /\ rows'[d] = Retried(rows[d], w)
    BY <1>1, <2>0
  <2>3. /\ rows'[d].state = rows[d].state /\ rows'[d].attempts = rows[d].attempts
        /\ rows'[d].wait = w
    <3> HIDE DEF d
    <3>1. /\ Retried(rows[d], w).state = rows[d].state
          /\ Retried(rows[d], w).attempts = rows[d].attempts
          /\ Retried(rows[d], w).wait = w
      BY <1>1, <2>1, RetriedRow
    <3> QED
      BY <2>2, <3>1
  <2>4. \A e \in Delivery : RowSettled(e)
    BY <1>1, <2>0, <2>2, <2>3 DEF RowSettled, Exists
  <2>5. ASSUME NEW s \in Task, tasks[s].row = d PROVE GuardKept(s)
    <3> SUFFICES ASSUME Fresh(s), tasks'[s].row = d, rows'[d].state = "queued"
                 PROVE  Guarded(s)'
      BY <2>5 DEF GuardKept
    <3>1. /\ tasks[s].age \in 0..Lock /\ tasks'[s].age = tasks[s].age
          /\ tasks[s].attempts \in 0..MaxAttempts /\ rows[d].attempts \in 0..MaxAttempts
          /\ tasks[t].attempts <= rows[d].attempts /\ tasks[s].attempts <= rows[d].attempts
      BY <1>0, <1>1, <1>2, <2>0, <2>5 DEF TypeOK, Settled, FreeTask, Row, IInv, ClaimsAreCounted
    <3>2. CASE w >= Lock
      BY <2>1, <2>3, <2>5, <3>1, <3>2 DEF Guarded
    <3>3. CASE tasks[t].attempts >= MaxAttempts - 1 /\ s = t
      <4>1. GivingUp(s)'
        BY <1>0, <1>1, <3>3, HandlingStep DEF FreeTask, GivingUp, TypeOK
      <4> QED
        BY <2>3, <2>5, <3>1, <3>3, <4>1 DEF Guarded
    <3>4. CASE tasks[t].attempts >= MaxAttempts - 1 /\ s # t
      <4>1. Late(t, s) \/ HandedOn(s, t) \/ HandedOn(t, s)
        BY <2>5, <3>4 DEF IInv, FreshIsNewest
      <4>2. rows[d].attempts = MaxAttempts
        BY <1>1, <3>1, <3>4, <4>1 DEF Late, HandedOn
      <4> QED
        BY <2>3, <2>5, <4>2 DEF Guarded
    <3> QED
      BY <2>1, <3>2, <3>3, <3>4
  <2>6. ASSUME NEW s \in Task, tasks[s].row # d PROVE GuardKept(s)
    <3>1. Fresh(s) => tasks[s].row \in Delivery
      BY <1>0 DEF Fresh, TypeOK
    <3> QED
      BY <1>2, <2>2, <2>6, <3>1, SameRowSameGuard
  <2> QED
    BY <1>2, <2>4, <2>5, <2>6 DEF Quiet
<1> QED
  BY <1>0, <1>3, <1>4, HandlingStep

\* Rows that go are nobody's any more.
LEMMA DroppingIsQuiet ==
    ASSUME IInv, DeleteWebhook \/ Cleanup
    PROVE  Quiet /\ posts' = posts
<1>1. /\ tasks' = tasks /\ posts' = posts
      /\ \A d \in Delivery : rows'[d] = rows[d] \/ rows'[d] = NoRow("dropped")
  BY DEF DeleteWebhook, Cleanup
<1>2. NoRow("dropped").state = "dropped"
  BY DEF NoRow
<1>3. \A d \in Delivery : RowSettled(d)
  BY <1>1, <1>2 DEF RowSettled, Exists
<1>4. ASSUME NEW s \in Task PROVE Settled(s) /\ GuardKept(s)
  <2>1. Settled(s)
    BY <1>1 DEF Settled, GivingUp
  <2>2. Fresh(s) => tasks[s].row \in Delivery
    BY DEF Fresh, IInv, TypeOK
  <2>3. CASE Fresh(s) /\ rows'[tasks[s].row] = NoRow("dropped")
    BY <1>2, <2>1, <2>3 DEF GuardKept
  <2>4. CASE Fresh(s) /\ rows'[tasks[s].row] = rows[tasks[s].row]
    BY <2>1, <2>4, SameRowSameGuard
  <2>5. CASE ~Fresh(s)
    BY <2>1, <2>5 DEF GuardKept
  <2> QED
    BY <1>1, <2>2, <2>3, <2>4, <2>5
<1> QED
  BY <1>1, <1>3, <1>4 DEF Quiet

-----------------------------------------------------------------------------
\* The other steps.

\* A request goes out for a claim that is paid for: the task stops being
\* pending as the count of requests goes up.
LEMMA PostPreserves ==
    ASSUME IInv, TypeOK', NEW t \in Task, Post(t)
    PROVE  Quiet /\ PostsArePaid'
<1> DEFINE e == tasks[t].row
<1>0. /\ tasks[t].phase = "claimed" /\ tasks' = [tasks EXCEPT ![t].phase = "posting"]
      /\ posts' = [posts EXCEPT ![e] = @ + 1] /\ rows' = rows
  BY DEF Post, Advance
<1>1. e \in Delivery /\ posts \in [Delivery -> Nat] /\ rows \in [Delivery -> Row]
  BY <1>0, BusyHasRow DEF IInv, TypeOK
<1>2. \A s \in Task : Settled(s)
  <2>1. "posting" # "claimed" /\ ~GivingUp(t)
    BY <1>0 DEF GivingUp
  <2> QED
    BY <1>0, <2>1, TaskStepSettles DEF IInv
<1>3. Quiet
  <2>1. \A d \in Delivery : rows[d].state = "absent" => posts'[d] = posts[d]
    BY <1>0, <1>1 DEF IInv, AbsentIsUntouched
  <2> QED
    BY <1>0, <1>2, <2>1, RowsAloneIsQuiet
<1>4. PostsArePaid'
  <2> SUFFICES ASSUME NEW d \in Delivery
               PROVE  /\ IsFiniteSet(Pending(d)')
                      /\ posts'[d] + Cardinality(Pending(d)') <= Budget(d)'
    BY DEF PostsArePaid, Pending
  <2>1. /\ IsFiniteSet(Pending(d)) /\ Cardinality(Pending(d)) \in Nat
        /\ posts[d] + Cardinality(Pending(d)) <= Budget(d)
        /\ Budget(d)' = Budget(d) /\ posts[d] \in Nat /\ Budget(d) \in Nat
    <3>1. rows[d].attempts \in Nat
      BY <1>1 DEF Row
    <3> QED
      BY <1>0, <1>1, <3>1, FS_CardinalityType DEF IInv, PostsArePaid, Budget, Exists
  <2>2. \A s \in Task : s # t => tasks'[s] = tasks[s]
    BY <1>0 DEF IInv, TypeOK
  <2>3. tasks'[t].phase = "posting"
    BY <1>0 DEF IInv, TypeOK
  <2>4. CASE d = e
    <3>1. Pending(d)' = Pending(d) \ {t} /\ t \in Pending(d)
      BY <1>0, <2>2, <2>3, <2>4 DEF Pending
    <3>2. /\ IsFiniteSet(Pending(d) \ {t})
          /\ Cardinality(Pending(d) \ {t}) = Cardinality(Pending(d)) - 1
      BY <2>1, <3>1, FS_RemoveElement
    <3>3. posts'[d] = posts[d] + 1
      BY <1>0, <1>1, <2>4
    <3> QED
      BY <2>1, <3>1, <3>2, <3>3
  <2>5. CASE d # e
    <3>1. Pending(d)' = Pending(d)
      BY <2>2, <2>3, <2>5, <1>0 DEF Pending, IInv, TypeOK
    <3>2. posts'[d] = posts[d]
      BY <1>0, <1>1, <2>5
    <3> QED
      BY <2>1, <3>1, <3>2
  <2> QED
    BY <2>4, <2>5
<1> QED
  BY <1>3, <1>4

\* A new row, which nobody has worked on.
LEMMA EnqueuePreserves ==
    ASSUME IInv, TypeOK', NEW e \in Delivery, EnqueueDelivery(e)
    PROVE  IInv'
<1> USE DEF IInv
<1>1. /\ rows[e].state = "absent" /\ tasks' = tasks /\ posts' = posts
      /\ rows'[e] = NoRow("queued")
      /\ \A d \in Delivery : d # e => rows'[d] = rows[d]
  BY DEF EnqueueDelivery, TypeOK
<1>2. NoRow("queued").state = "queued" /\ NoRow("queued").attempts = 0
  BY DEF NoRow
<1>3. posts[e] = 0 /\ \A t \in Task : tasks[t].row # e
  BY <1>1 DEF AbsentIsUntouched
<1>4. AbsentIsUntouched'
  BY <1>1, <1>2 DEF AbsentIsUntouched
<1>5. ClaimsAreCounted'
  <2>1. \A t \in Task : tasks[t].row # NoDelivery => rows'[tasks[t].row] = rows[tasks[t].row]
    BY <1>1, <1>3 DEF TypeOK
  <2> QED
    BY <1>1, <2>1 DEF ClaimsAreCounted, Exists, Fresh, Guarded, Newest, GivingUp
<1>6. FreshIsNewest'
  BY <1>1 DEF FreshIsNewest, Fresh, Late, HandedOn
<1>7. PostsArePaid'
  <2> SUFFICES ASSUME NEW d \in Delivery
               PROVE  /\ IsFiniteSet(Pending(d)')
                      /\ posts'[d] + Cardinality(Pending(d)') <= Budget(d)'
    BY DEF PostsArePaid, Pending
  <2>1. Pending(d)' = Pending(d)
    BY <1>1 DEF Pending
  <2>2. CASE d = e
    <3>1. Pending(d) = {}
      BY <1>3, <2>2 DEF Pending
    <3>2. Budget(d)' = 0
      BY <1>1, <1>2, <2>2 DEF Budget, Exists
    <3> QED
      BY <1>1, <1>3, <2>1, <2>2, <3>1, <3>2, FS_EmptySet
  <2>3. CASE d # e
    <3>1. Budget(d)' = Budget(d)
      BY <1>1, <2>3 DEF Budget, Exists
    <3> QED
      BY <1>1, <2>1, <3>1 DEF PostsArePaid
  <2> QED
    BY <2>2, <2>3
<1> QED
  BY <1>4, <1>5, <1>6, <1>7

\* A claim is counted before its task starts.  The row was claimable, so every
\* task that still holds it is late, or gives up what is now the last attempt.
LEMMA ClaimPreserves ==
    ASSUME IInv, TypeOK', NEW t \in Task, NEW e \in Delivery, Claim(t, e)
    PROVE  IInv'
<1> USE DEF IInv
<1>1. /\ tasks[t].phase = "free" /\ tasks[t].row = NoDelivery /\ posts' = posts
      /\ rows[e].state = "queued" /\ rows[e].attempts < MaxAttempts
      /\ rows[e].wait = 0 /\ rows[e].locked = 0
      /\ rows[e] \in Row /\ rows \in [Delivery -> Row]
  BY DEF Claim, Claimable, TypeOK
<1>2. /\ rows'[e].state = "queued" /\ rows'[e].attempts = rows[e].attempts + 1
      /\ rows'[e].locked = Lock
      /\ \A d \in Delivery : d # e => rows'[d] = rows[d]
  <2>1. rows' = [rows EXCEPT ![e] = Claimed(rows[e])]
    BY DEF Claim
  <2> QED
    BY <1>1, <2>1, ClaimedRow
<1>3. /\ tasks'[t] = [phase |-> "claimed", row |-> e,
                      attempts |-> rows'[e].attempts, age |-> 0]
      /\ \A s \in Task : s # t => tasks'[s] = tasks[s]
  BY DEF Claim, TypeOK
<1>4. /\ tasks'[t].phase = "claimed" /\ tasks'[t].row = e /\ tasks'[t].age = 0
      /\ tasks'[t].attempts = rows[e].attempts + 1
  BY <1>2, <1>3
<1>5. ASSUME NEW s \in Task, tasks[s].row = e
      PROVE  /\ tasks[s].age = Lock \/ (GivingUp(s) /\ rows[e].attempts = MaxAttempts - 1)
             /\ tasks[s].attempts <= rows[e].attempts
             /\ tasks[s].attempts \in Nat /\ rows[e].attempts \in Nat
             /\ tasks'[s] = tasks[s]
  <2>1. /\ tasks[s].age \in 0..Lock /\ tasks[s].attempts \in Nat
        /\ rows[e].attempts \in Nat /\ e # NoDelivery
    BY <1>1, <1>5 DEF TypeOK, Row
  <2>2. tasks[s].attempts <= rows[e].attempts /\ (Fresh(s) => Guarded(s))
    BY <1>1, <1>5, <2>1 DEF ClaimsAreCounted, Exists
  <2>3. Guarded(s) => tasks[s].age = Lock \/ (GivingUp(s) /\ rows[e].attempts = MaxAttempts - 1)
    BY <1>1, <1>5, <2>1 DEF Guarded
  <2> QED
    BY <1>1, <1>3, <1>5, <2>1, <2>2, <2>3 DEF Fresh
<1>6. AbsentIsUntouched'
  BY <1>1, <1>2, <1>3, <1>4 DEF AbsentIsUntouched
<1>7. ClaimsAreCounted'
  <2> SUFFICES ASSUME NEW s \in Task, tasks'[s].row # NoDelivery, Exists(tasks[s].row)'
               PROVE  /\ tasks'[s].attempts <= rows'[tasks'[s].row].attempts
                      /\ Fresh(s)' => Newest(s)' /\ Guarded(s)'
    BY DEF ClaimsAreCounted
  <2>1. CASE s = t
    <3>1. rows[e].attempts \in Nat
      BY <1>1 DEF Row
    <3>2. Guarded(s)' /\ Newest(s)'
      BY <1>2, <1>4, <2>1 DEF Guarded, Newest
    <3> QED
      BY <1>2, <1>4, <2>1, <3>1, <3>2
  <2>2. CASE s # t /\ tasks[s].row = e
    <3>1. /\ tasks'[s] = tasks[s] /\ tasks[s].attempts <= rows[e].attempts
          /\ tasks[s].attempts \in Nat /\ rows[e].attempts \in Nat
          /\ tasks[s].age = Lock \/ (GivingUp(s) /\ rows[e].attempts = MaxAttempts - 1)
      BY <1>5, <2>2
    <3>2. rows'[e].attempts = rows[e].attempts + 1
      BY <1>2
    <3>3. GivingUp(s) => GivingUp(s)'
      BY <3>1 DEF GivingUp
    <3>4. Fresh(s)' => GivingUp(s)' /\ rows'[e].attempts = MaxAttempts
      BY <3>1, <3>2, <3>3 DEF Fresh
    <3> QED
      BY <2>2, <3>1, <3>2, <3>4 DEF Newest, Guarded
  <2>3. CASE s # t /\ tasks[s].row # e
    <3>1. /\ tasks'[s] = tasks[s] /\ tasks[s].row \in Delivery
          /\ rows'[tasks[s].row] = rows[tasks[s].row]
      BY <1>2, <1>3, <2>3 DEF TypeOK
    <3> QED
      BY <3>1 DEF ClaimsAreCounted, Exists, Fresh, Guarded, Newest, GivingUp
  <2> QED
    BY <2>1, <2>2, <2>3
<1>8. FreshIsNewest'
  <2>1. ASSUME NEW s \in Task, s # t, tasks[s].row = e
        PROVE  Late(s, t)' \/ HandedOn(s, t)'
    <3>1. /\ tasks'[s] = tasks[s] /\ tasks[s].attempts <= rows[e].attempts
          /\ tasks[s].attempts \in Nat /\ rows[e].attempts \in Nat
          /\ tasks[s].age = Lock \/ (GivingUp(s) /\ rows[e].attempts = MaxAttempts - 1)
      BY <1>5, <2>1
    <3> QED
      BY <1>4, <3>1 DEF Late, HandedOn, GivingUp
  <2> SUFFICES ASSUME NEW s \in Task, NEW u \in Task, s # u, Fresh(s)',
                      tasks'[u].row = tasks'[s].row
               PROVE  Late(u, s)' \/ HandedOn(s, u)' \/ HandedOn(u, s)'
    BY DEF FreshIsNewest
  <2>2. CASE s = t
    BY <1>3, <1>4, <2>1, <2>2
  <2>3. CASE u = t
    <3>1. tasks[s].row = e /\ s # t
      BY <1>3, <1>4, <2>3
    <3> QED
      BY <2>1, <2>3, <3>1 DEF Fresh, Late
  <2>4. CASE s # t /\ u # t
    BY <1>3, <2>4 DEF FreshIsNewest, Fresh, Late, HandedOn
  <2> QED
    BY <2>2, <2>3, <2>4
<1>9. PostsArePaid'
  <2> SUFFICES ASSUME NEW d \in Delivery
               PROVE  /\ IsFiniteSet(Pending(d)')
                      /\ posts'[d] + Cardinality(Pending(d)') <= Budget(d)'
    BY DEF PostsArePaid, Pending
  <2>1. CASE d = e
    <3>1. Pending(d)' = Pending(d) \cup {t} /\ t \notin Pending(d)
      BY <1>1, <1>3, <1>4, <2>1 DEF Pending
    <3>2. /\ IsFiniteSet(Pending(d)) /\ Cardinality(Pending(d)) \in Nat
          /\ posts[d] + Cardinality(Pending(d)) <= rows[d].attempts
          /\ posts[d] \in Nat /\ rows[d].attempts \in Nat
      BY <1>1, <2>1, FS_CardinalityType DEF PostsArePaid, Budget, Exists, TypeOK, Row
    <3>3. /\ IsFiniteSet(Pending(d) \cup {t})
          /\ Cardinality(Pending(d) \cup {t}) = Cardinality(Pending(d)) + 1
      BY <3>1, <3>2, FS_AddElement
    <3>4. Budget(d)' = rows[d].attempts + 1
      BY <1>2, <2>1 DEF Budget, Exists
    <3> QED
      BY <1>1, <3>1, <3>2, <3>3, <3>4
  <2>2. CASE d # e
    <3>1. Pending(d)' = Pending(d)
      BY <1>1, <1>3, <1>4, <2>2 DEF Pending
    <3>2. Budget(d)' = Budget(d)
      BY <1>2, <2>2 DEF Budget, Exists
    <3> QED
      BY <1>1, <3>1, <3>2 DEF PostsArePaid
  <2> QED
    BY <2>1, <2>2
<1> QED
  BY <1>6, <1>7, <1>8, <1>9

\* Time runs for the tasks and for what protects them alike.
LEMMA TickPreserves ==
    ASSUME IInv, TypeOK', Tick
    PROVE  IInv'
<1> USE DEF IInv
<1>1. ASSUME NEW d \in Delivery
      PROVE  /\ rows'[d].state = rows[d].state /\ rows'[d].attempts = rows[d].attempts
             /\ rows'[d].wait = Down(rows[d].wait) /\ rows'[d].locked = Down(rows[d].locked)
             /\ rows[d] \in Row
  <2>1. rows'[d] = LaterRow(rows[d]) /\ rows[d] \in Row
    BY DEF Tick, TypeOK
  <2> QED
    BY <2>1, LaterRowFields
<1>2. ASSUME NEW s \in Task
      PROVE  /\ tasks'[s].row = tasks[s].row /\ tasks'[s].attempts = tasks[s].attempts
             /\ tasks'[s].phase = tasks[s].phase
             /\ tasks[s].row # NoDelivery => tasks'[s].age = Up(tasks[s].age, Lock)
             /\ tasks[s] \in TaskState
  BY DEF Tick, TypeOK, TaskState
<1>3. posts' = posts
  BY DEF Tick
<1>4. AbsentIsUntouched'
  BY <1>1, <1>2, <1>3 DEF AbsentIsUntouched
<1>5. ASSUME NEW s \in Task, Fresh(s)' PROVE Fresh(s) /\ tasks'[s].age = tasks[s].age + 1
  BY <1>2, <1>5 DEF Fresh, Up, TaskState
<1>6. ClaimsAreCounted'
  <2> SUFFICES ASSUME NEW s \in Task, tasks'[s].row # NoDelivery, Exists(tasks[s].row)'
               PROVE  /\ tasks'[s].attempts <= rows'[tasks'[s].row].attempts
                      /\ Fresh(s)' => Newest(s)' /\ Guarded(s)'
    BY DEF ClaimsAreCounted
  <2> DEFINE d == tasks[s].row
  <2>1. tasks'[s].row = d /\ d \in Delivery /\ d # NoDelivery
    BY <1>2 DEF TypeOK
  <2>2. Exists(d) /\ rows'[d].attempts = rows[d].attempts
    BY <1>1, <2>1 DEF Exists
  <2>3. /\ tasks[s].attempts <= rows[d].attempts
        /\ Fresh(s) => Newest(s) /\ Guarded(s)
    BY <2>1, <2>2 DEF ClaimsAreCounted
  <2>4. Fresh(s)' => Guarded(s)'
    <3> SUFFICES ASSUME Fresh(s)' PROVE Guarded(s)'
      OBVIOUS
    <3>1. /\ Guarded(s) /\ Fresh(s) /\ tasks'[s].age = tasks[s].age + 1
          /\ tasks[s].age \in 0..Lock /\ (GivingUp(s) => GivingUp(s)')
      BY <1>2, <1>5, <2>3 DEF TaskState, GivingUp
    <3>2. rows[d].locked \in Nat /\ rows[d].wait \in Nat
      BY <1>1, <2>1 DEF Row
    <3>3. tasks[s].age < Lock
      BY <3>1 DEF Fresh
    <3>4. /\ rows[d].locked >= Lock - tasks[s].age =>
                 rows'[d].locked >= Lock - tasks'[s].age
          /\ rows[d].wait >= Lock - tasks[s].age =>
                 rows'[d].wait >= Lock - tasks'[s].age
      BY <1>1, <2>1, <3>1, <3>2, <3>3 DEF Down
    <3> QED
      BY <1>1, <2>1, <3>1, <3>4 DEF Guarded
  <2> QED
    BY <1>2, <1>5, <2>1, <2>2, <2>3, <2>4 DEF Newest, GivingUp
<1>7. FreshIsNewest'
  <2> SUFFICES ASSUME NEW s \in Task, NEW u \in Task, s # u, Fresh(s)',
                      tasks'[u].row = tasks'[s].row
               PROVE  Late(u, s)' \/ HandedOn(s, u)' \/ HandedOn(u, s)'
    BY DEF FreshIsNewest
  <2>1. Fresh(s) /\ tasks[u].row = tasks[s].row /\ tasks[u].row # NoDelivery
    BY <1>2, <1>5 DEF Fresh
  <2>2. Late(u, s) \/ HandedOn(s, u) \/ HandedOn(u, s)
    BY <2>1 DEF FreshIsNewest
  <2> QED
    BY <1>2, <2>1, <2>2 DEF Up, Late, HandedOn
<1>8. PostsArePaid'
  <2> SUFFICES ASSUME NEW d \in Delivery
               PROVE  /\ IsFiniteSet(Pending(d)')
                      /\ posts'[d] + Cardinality(Pending(d)') <= Budget(d)'
    BY DEF PostsArePaid, Pending
  <2>1. Pending(d)' = Pending(d) /\ Budget(d)' = Budget(d)
    BY <1>1, <1>2 DEF Pending, Budget, Exists
  <2> QED
    BY <1>3, <2>1 DEF PostsArePaid
<1> QED
  BY <1>4, <1>6, <1>7, <1>8

-----------------------------------------------------------------------------
\* Every step keeps the invariant.
LEMMA NextPreserves ==
    ASSUME IInv, Next
    PROVE  IInv'
<1>0. TypeOK'
  BY TypePreserved DEF IInv
<1>1. ASSUME Quiet, posts' = posts PROVE IInv'
  BY <1>0, <1>1, QuietPreserves, QuietKeepsBudget DEF IInv
<1>2. ASSUME NEW t \in Task, ~GivingUp(t),
             \/ tasks' = [tasks EXCEPT ![t] = FreeTask]
             \/ \E to \in {"accepted", "failed", "handler"} : tasks' = [tasks EXCEPT ![t].phase = to]
      PROVE  \A s \in Task : Settled(s)
  <2>1. TypeOK
    BY DEF IInv
  <2>2. CASE tasks' = [tasks EXCEPT ![t] = FreeTask]
    <3>1. "failed" # "claimed"
      OBVIOUS
    <3> QED
      BY <1>2, <2>1, <2>2, <3>1, TaskStepSettles
  <2>3. ASSUME NEW to \in {"accepted", "failed", "handler"}, tasks' = [tasks EXCEPT ![t].phase = to]
        PROVE  \A s \in Task : Settled(s)
    <3>1. to # "claimed"
      BY <2>3
    <3> QED
      BY <1>2, <2>1, <2>3, <3>1, TaskStepSettles
  <2> QED
    BY <1>2, <2>2, <2>3
<1>3. ASSUME NEW d \in Delivery, EnqueueDelivery(d) PROVE IInv'
  BY <1>0, <1>3, EnqueuePreserves
<1>4. ASSUME NEW st \in HookState, CreateWebhook(st) \/ UpdateWebhook(st) PROVE IInv'
  <2>1. UNCHANGED <<rows, tasks, posts>>
    BY <1>4 DEF CreateWebhook, UpdateWebhook
  <2>2. Quiet
    BY <2>1, RowsAloneIsQuiet DEF Settled, GivingUp
  <2> QED
    BY <1>1, <2>1, <2>2
<1>5. CASE DeleteWebhook \/ Cleanup
  BY <1>1, <1>5, DroppingIsQuiet
<1>6. ASSUME NEW t \in Task, NEW d \in Delivery, Claim(t, d) PROVE IInv'
  BY <1>0, <1>6, ClaimPreserves
<1>7. ASSUME NEW t \in Task, WebhookGone(t) PROVE IInv'
  <2>1. /\ posts' = posts /\ tasks[t].row \in Delivery /\ MarkSuccess(tasks[t].row)
        /\ tasks' = [tasks EXCEPT ![t] = FreeTask] /\ ~GivingUp(t)
    BY <1>7, BusyHasRow DEF WebhookGone, End, IInv, GivingUp
  <2>2. \A s \in Task : Settled(s)
    BY <1>2, <2>1
  <2> QED
    BY <1>1, <2>1, <2>2, MarkSuccessIsQuiet
<1>8. ASSUME NEW t \in Task, Refused(t) \/ Response(t) PROVE IInv'
  <2>1. /\ UNCHANGED <<rows, posts>>
        /\ \E to \in {"accepted", "failed", "handler"} : tasks' = [tasks EXCEPT ![t].phase = to]
        /\ ~GivingUp(t)
    BY <1>8 DEF Refused, Response, Advance, GivingUp
  <2>2. \A s \in Task : Settled(s)
    BY <1>2, <2>1
  <2> QED
    BY <1>1, <2>1, <2>2, RowsAloneIsQuiet
<1>9. ASSUME NEW t \in Task, Post(t) PROVE IInv'
  BY <1>0, <1>9, PostPreserves, QuietPreserves DEF IInv
<1>10. ASSUME NEW t \in Task, Accepted(t) PROVE IInv'
  <2>1. /\ posts' = posts /\ tasks[t].row \in Delivery
        /\ MarkSuccess(tasks[t].row) \/ rows' = rows
        /\ \/ tasks' = [tasks EXCEPT ![t] = FreeTask]
           \/ tasks' = [tasks EXCEPT ![t].phase = "handler"]
        /\ ~GivingUp(t)
    BY <1>10, BusyHasRow DEF Accepted, Advance, End, IInv, GivingUp
  <2>2. \A s \in Task : Settled(s)
    BY <1>2, <2>1
  <2> QED
    BY <1>1, <2>1, <2>2, MarkSuccessIsQuiet, RowsAloneIsQuiet
<1>11. ASSUME NEW t \in Task, Handling(t) PROVE IInv'
  BY <1>1, <1>11, HandlingIsQuiet, HandlingStep DEF IInv
<1>12. ASSUME NEW t \in Task, Die(t) PROVE IInv'
  <2>1. UNCHANGED <<rows, posts>> /\ tasks' = [tasks EXCEPT ![t] = FreeTask]
    BY <1>12 DEF Die
  <2>2. \A s \in Task : Settled(s)
    <3>1. "handler" # "claimed" /\ "handler" \in {"bumping", "handler"}
      OBVIOUS
    <3> QED
      BY <2>1, <3>1, TaskStepSettles DEF IInv
  <2> QED
    BY <1>1, <2>1, <2>2, RowsAloneIsQuiet
<1>13. CASE Tick
  BY <1>0, <1>13, TickPreserves
<1> QED
  BY <1>3, <1>4, <1>5, <1>6, <1>7, <1>8, <1>9, <1>10, <1>11, <1>12, <1>13
  DEF Next, TaskStep, Handling

\* Empty tables and idle workers satisfy it.
LEMMA InitIInv == Init => IInv
<1> SUFFICES ASSUME Init PROVE IInv
  OBVIOUS
<1>1. \A d \in Delivery : rows[d].state = "absent" /\ posts[d] = 0
  BY DEF Init, NoRow
<1>2. \A t \in Task : tasks[t] = FreeTask /\ tasks[t].row = NoDelivery
  BY DEF Init, FreeTask
<1>3. TypeOK
  <2>1. NoRow("absent") \in Row /\ FreeTask \in TaskState
    BY DEF NoRow, Row, RowState, FreeTask, TaskState, Phase
  <2>2. FreeTask.phase = "free"
    BY DEF FreeTask
  <2> QED
    BY <1>2, <2>1, <2>2 DEF Init, TypeOK, TaskState, HookState
<1>4. AbsentIsUntouched /\ ClaimsAreCounted /\ FreshIsNewest
  BY <1>1, <1>2 DEF AbsentIsUntouched, ClaimsAreCounted, FreshIsNewest, Fresh
<1>5. PostsArePaid
  <2> SUFFICES ASSUME NEW d \in Delivery
               PROVE  /\ IsFiniteSet(Pending(d))
                      /\ posts[d] + Cardinality(Pending(d)) <= Budget(d)
    BY DEF PostsArePaid
  <2>1. Pending(d) = {}
    BY <1>2 DEF Pending
  <2>2. Budget(d) = MaxAttempts
    BY <1>1 DEF Budget, Exists
  <2> QED
    BY <1>1, <2>1, <2>2, FS_EmptySet
<1> QED
  BY <1>3, <1>4, <1>5 DEF IInv

\* The inductive invariant holds in every reachable state.
THEOREM InvariantTheorem == Spec => []IInv
<1>1. IInv /\ UNCHANGED vars => IInv'
  BY DEF vars, IInv, TypeOK, AbsentIsUntouched, ClaimsAreCounted, FreshIsNewest, PostsArePaid,
         Fresh, Guarded, Newest, GivingUp, Late, HandedOn, Exists, Pending, Budget
<1> QED
  BY <1>1, InitIInv, NextPreserves, PTL DEF Spec

\* Every variable keeps its type: attempts never pass max_attempts, and a
\* coroutine at work has the row it claimed.
THEOREM TypeCorrect == Spec => []TypeOK
<1>1. IInv => TypeOK
  BY DEF IInv
<1> QED
  BY <1>1, InvariantTheorem, PTL

\* While its row is there, a delivery has sent no more requests than claims
\* were counted.
THEOREM BudgetTheorem == Spec => []PostsWithinBudget
<1>1. IInv => PostsWithinBudget
  <2> SUFFICES ASSUME IInv, NEW d \in Delivery, rows[d].state \in {"queued", "delivered"}
               PROVE  posts[d] <= rows[d].attempts
    BY DEF PostsWithinBudget
  <2>1. /\ Cardinality(Pending(d)) \in Nat
        /\ posts[d] + Cardinality(Pending(d)) <= rows[d].attempts
    BY FS_CardinalityType DEF IInv, PostsArePaid, Budget, Exists
  <2>2. posts[d] \in Nat /\ rows[d].attempts \in Nat
    BY DEF IInv, TypeOK, Row
  <2> QED
    BY <2>1, <2>2
<1> QED
  BY <1>1, InvariantTheorem, PTL

\* No receiver ever gets more than max_attempts requests for a delivery, not
\* even from a coroutine that is still at work when its row has been dropped.
THEOREM NeverMoreThanMaxAttempts == Spec => [](\A d \in Delivery : posts[d] <= MaxAttempts)
<1>1. IInv => \A d \in Delivery : posts[d] <= MaxAttempts
  <2> SUFFICES ASSUME IInv, NEW d \in Delivery PROVE posts[d] <= MaxAttempts
    OBVIOUS
  <2>1. Cardinality(Pending(d)) \in Nat /\ posts[d] + Cardinality(Pending(d)) <= Budget(d)
    BY FS_CardinalityType DEF IInv, PostsArePaid
  <2>2. posts[d] \in Nat /\ rows[d].attempts \in 0..MaxAttempts
    BY DEF IInv, TypeOK, Row
  <2>3. Budget(d) \in 0..MaxAttempts
    BY <2>2 DEF Budget
  <2> QED
    BY <2>1, <2>2, <2>3
<1> QED
  BY <1>1, InvariantTheorem, PTL

\* Two tasks work on one row only if one of them has outlived its lock, or gave
\* up on the last attempt but one before the other took the last.
THEOREM FreshClaimTheorem == Spec => []FreshClaimIsExclusive
<1>1. IInv => FreshClaimIsExclusive
  <2> SUFFICES ASSUME IInv, NEW s \in Task, NEW t \in Task, s # t,
                      tasks[s].row # NoDelivery, tasks[s].row = tasks[t].row,
                      tasks[s].age # Lock
               PROVE  tasks[t].age = Lock \/ HandedOn(s, t) \/ HandedOn(t, s)
    BY DEF FreshClaimIsExclusive
  <2>1. Fresh(s)
    BY DEF IInv, TypeOK, Fresh
  <2> QED
    BY <2>1 DEF IInv, FreshIsNewest, Late
<1> QED
  BY <1>1, InvariantTheorem, PTL

\* _record_failure moves no row to another state and counts nothing.
LEMMA RetriedState ==
    ASSUME TypeOK, NEW t \in Task, Handling(t), NEW e \in Delivery
    PROVE  rows'[e].state = rows[e].state /\ rows'[e].attempts = rows[e].attempts
<1> DEFINE d == tasks[t].row
           w == Rescheduled(tasks[t].attempts)
<1>1. d \in Delivery /\ rows[d] \in Row /\ rows \in [Delivery -> Row]
  BY HandlingStep DEF TypeOK
<1>2. w \in Nat
  BY RescheduledOutlastsLock, BusyHasRow DEF TaskState
<1>3. rows' = rows \/ rows' = [rows EXCEPT ![d] = Retried(rows[d], w)]
  BY HandlingStep DEF FailureMarked
<1> HIDE DEF d, w
<1>4. Retried(rows[d], w).state = rows[d].state /\ Retried(rows[d], w).attempts = rows[d].attempts
  BY <1>1, <1>2, RetriedRow
<1> QED
  BY <1>1, <1>3, <1>4

\* Where a delivered row may be after a step.
Final(d) ==
    \/ rows'[d].state = "dropped"
    \/ rows'[d].state = "delivered" /\ rows'[d].attempts = rows[d].attempts

\* A delivered row stays delivered, with its attempts, until it is dropped.
THEOREM DeliveredTheorem == Spec => DeliveredIsFinal
<1>1. ASSUME IInv, Next PROVE \A d \in Delivery : rows[d].state = "delivered" => Final(d)
  <2> SUFFICES ASSUME NEW d \in Delivery, rows[d].state = "delivered" PROVE Final(d)
    OBVIOUS
  <2> USE <1>1 DEF IInv, Final
  <2>0. rows \in [Delivery -> Row] /\ rows[d] \in Row
    BY DEF TypeOK
  <2>1. ASSUME rows' = rows PROVE Final(d)
    BY <2>1
  <2>2. ASSUME NEW e \in Delivery, MarkSuccess(e) PROVE Final(d)
    <3>1. rows' = rows \/ rows' = [rows EXCEPT ![e] = Delivered(rows[e])]
      BY <2>0, <2>2 DEF MarkSuccess, Delivered
    <3>2. Delivered(rows[d]).state = "delivered" /\ Delivered(rows[d]).attempts = rows[d].attempts
      BY <2>0, DeliveredRow
    <3> QED
      BY <2>0, <3>1, <3>2
  <2>3. ASSUME NEW e \in Delivery, EnqueueDelivery(e) PROVE Final(d)
    <3>1. e # d /\ rows' = [rows EXCEPT ![e] = NoRow("queued")]
      BY <2>3 DEF EnqueueDelivery
    <3> QED
      BY <2>0, <3>1
  <2>4. ASSUME NEW t \in Task, NEW e \in Delivery, Claim(t, e) PROVE Final(d)
    <3>1. e # d /\ rows' = [rows EXCEPT ![e] = Claimed(@)]
      BY <2>4 DEF Claim, Claimable
    <3> QED
      BY <2>0, <3>1
  <2>5. CASE DeleteWebhook \/ Cleanup
    BY <2>5 DEF DeleteWebhook, Cleanup, NoRow
  <2>6. ASSUME NEW t \in Task, WebhookGone(t) \/ Accepted(t) PROVE Final(d)
    BY <2>1, <2>2, <2>6, BusyHasRow DEF WebhookGone, Accepted, End, Advance
  <2>7. ASSUME NEW t \in Task, Handling(t) PROVE Final(d)
    BY <2>7, RetriedState
  <2>8. CASE Tick
    <3>1. rows'[d] = LaterRow(rows[d])
      BY <2>8 DEF Tick
    <3> QED
      BY <2>0, <3>1, LaterRowFields
  <2> HIDE DEF Final
  <2> QED
    BY <2>1, <2>3, <2>4, <2>5, <2>6, <2>7, <2>8
    DEF Next, TaskStep, Handling, CreateWebhook, UpdateWebhook, Refused, Post, Response, Die
<1>2. IInv /\ [Next]_vars =>
        [\A d \in Delivery : rows[d].state = "delivered" => Final(d)]_vars
  BY <1>1
<1> QED
  BY <1>2, InvariantTheorem, PTL DEF Spec, DeliveredIsFinal, Final

-----------------------------------------------------------------------------
(***************************************************************************)
(* Refinement: the queue implements BoundedDelivery.                       *)
(***************************************************************************)

\* What the mapping needs beside IInv: a row not inserted yet has no attempts,
\* a task that waits for an answer or has got one has posted, and the rows of
\* a webhook went with it, so that WebhookGone finds nothing to mark.
ReceiverView ==
    /\ \A d \in Delivery : rows[d].state = "absent" => rows[d].attempts = 0
    /\ \A t \in Task : tasks[t].phase \in {"posting", "accepted"} => posts[tasks[t].row] > 0
    /\ hook = "deleted" => \A d \in Delivery : ~Exists(d)

\* The task of a step, before and after it; the other tasks stay as they are.
LEMMA OneTaskMoves ==
    ASSUME TypeOK, NEW t \in Task, tasks[t].phase # "free", NEW to,
           \/ tasks' = [tasks EXCEPT ![t] = FreeTask]
           \/ tasks' = [tasks EXCEPT ![t].phase = to]
    PROVE  /\ tasks[t].row \in Delivery
           /\ \A s \in Task : s # t => tasks'[s] = tasks[s]
           /\ \/ tasks'[t].phase = "free" /\ tasks'[t].row = NoDelivery
              \/ tasks'[t].phase = to /\ tasks'[t].row = tasks[t].row
<1>1. tasks'[t] = FreeTask \/ tasks'[t] = [tasks[t] EXCEPT !.phase = to]
  BY DEF TypeOK
<1>2. \A s \in Task : s # t => tasks'[s] = tasks[s]
  BY DEF TypeOK
<1>3. tasks[t] \in TaskState
  BY BusyHasRow
<1> QED
  BY <1>1, <1>2, <1>3, BusyHasRow DEF FreeTask, TaskState

\* The tasks at a phase, when one task moves: it leaves the phase, it enters
\* it, or neither.
LEMMA AtStep ==
    ASSUME TypeOK, NEW t \in Task, \A s \in Task : s # t => tasks'[s] = tasks[s], NEW p
    PROVE  /\ tasks[t].phase # p /\ tasks'[t].phase # p => At(p)' = At(p)
           /\ tasks[t].phase = p /\ tasks'[t].phase # p =>
                 At(p)' = [At(p) EXCEPT ![tasks[t].row] = At(p)[tasks[t].row] \ {t}]
           /\ tasks[t].phase # p /\ tasks'[t].phase = p =>
                 At(p)' = [At(p) EXCEPT ![tasks'[t].row] = At(p)[tasks'[t].row] \cup {t}]
  BY DEF At

\* Every step keeps the view.
LEMMA ViewStep ==
    ASSUME IInv, TypeOK', ReceiverView, Next
    PROVE  ReceiverView'
<1> DEFINE Posted == \A t \in Task : tasks[t].phase \in {"posting", "accepted"} => posts[tasks[t].row] > 0
           RowsOK == /\ \A d \in Delivery : rows[d].state = "absent" => rows[d].attempts = 0
                     /\ hook = "deleted" => \A d \in Delivery : ~Exists(d)
<1>0. TypeOK /\ Posted /\ RowsOK /\ (Posted' /\ RowsOK' => ReceiverView')
  BY DEF IInv, ReceiverView
<1>1. ASSUME posts' = posts,
             \A s \in Task : \/ tasks'[s] = tasks[s]
                             \/ tasks'[s].phase \notin {"posting", "accepted"}
                             \/ tasks[s].phase = "posting" /\ tasks'[s].row = tasks[s].row
      PROVE  Posted'
  BY <1>0, <1>1
<1>2. ASSUME hook' = hook,
             \A d \in Delivery : rows'[d].state = "absent" => rows'[d] = rows[d],
             \A d \in Delivery : Exists(d)' => Exists(d)
      PROVE  RowsOK'
  BY <1>0, <1>2
<1>3. ASSUME NEW d \in Delivery, EnqueueDelivery(d) PROVE ReceiverView'
  <2>1. RowsOK'
    BY <1>0, <1>3 DEF EnqueueDelivery, NoRow, TypeOK
  <2> QED
    BY <1>0, <1>1, <1>3, <2>1 DEF EnqueueDelivery
<1>4. ASSUME NEW st \in HookState, CreateWebhook(st) \/ UpdateWebhook(st) PROVE ReceiverView'
  <2>1. hook' # "deleted" /\ UNCHANGED <<rows, tasks, posts>>
    BY <1>4 DEF CreateWebhook, UpdateWebhook
  <2> QED
    BY <1>0, <1>1, <2>1
<1>5. CASE DeleteWebhook
  <2>1. RowsOK'
    BY <1>5 DEF DeleteWebhook, NoRow, Exists
  <2> QED
    BY <1>0, <1>1, <1>5, <2>1 DEF DeleteWebhook
<1>6. ASSUME NEW t \in Task, NEW d \in Delivery, Claim(t, d) PROVE ReceiverView'
  <2>1. /\ rows[d] \in Row /\ rows[d].state = "queued" /\ rows[d].attempts < MaxAttempts
        /\ rows'[d] = Claimed(rows[d])
        /\ \A e \in Delivery : e # d => rows'[e] = rows[e]
    BY <1>0, <1>6 DEF Claim, Claimable, TypeOK
  <2>2. rows'[d].state = "queued"
    BY <2>1, ClaimedRow
  <2>3. RowsOK'
    BY <1>2, <1>6, <2>1, <2>2 DEF Claim, Exists
  <2>4. Posted'
    BY <1>0, <1>1, <1>6 DEF Claim, TypeOK
  <2> QED
    BY <1>0, <2>3, <2>4
<1>7. ASSUME NEW d \in Delivery, MarkSuccess(d)
      PROVE  /\ \A e \in Delivery : rows'[e].state = "absent" => rows'[e] = rows[e]
             /\ \A e \in Delivery : Exists(e)' => Exists(e)
  <2>1. CASE rows' = rows
    BY <2>1 DEF Exists
  <2>2. CASE Exists(d) /\ rows' = [rows EXCEPT ![d] = Delivered(rows[d])]
    BY <1>0, <2>2, DeliveredRow DEF Exists, TypeOK
  <2> QED
    BY <1>7, <2>1, <2>2 DEF MarkSuccess, Delivered, IInv, TypeOK
<1>8. ASSUME NEW t \in Task, WebhookGone(t) PROVE ReceiverView'
  <2>1. /\ tasks[t].row \in Delivery /\ \A s \in Task : s # t => tasks'[s] = tasks[s]
        /\ tasks'[t].phase = "free"
    BY <1>0, <1>8, OneTaskMoves DEF WebhookGone, End, FreeTask, TypeOK
  <2> QED
    BY <1>0, <1>1, <1>2, <1>7, <1>8, <2>1 DEF WebhookGone
<1>9. ASSUME NEW t \in Task, Refused(t) PROVE ReceiverView'
  <2>1. \A s \in Task : tasks'[s] = tasks[s] \/ tasks'[s].phase \in {"failed", "handler"}
    BY <1>0, <1>9 DEF Refused, Advance, TypeOK
  <2> QED
    BY <1>0, <1>1, <1>2, <1>9, <2>1 DEF Refused, Exists
<1>10. ASSUME NEW t \in Task, Post(t) PROVE ReceiverView'
  <2>1. /\ tasks[t].row \in Delivery /\ tasks'[t].row = tasks[t].row
        /\ \A s \in Task : s # t => tasks'[s] = tasks[s]
    BY <1>0, <1>10, OneTaskMoves DEF Post, Advance, TypeOK
  <2>2. /\ posts' = [posts EXCEPT ![tasks[t].row] = @ + 1] /\ posts \in [Delivery -> Nat]
        /\ UNCHANGED <<rows, hook>>
    BY <1>0, <1>10 DEF Post, TypeOK
  <2>3. ASSUME NEW s \in Task, tasks'[s].phase \in {"posting", "accepted"}
        PROVE  posts'[tasks'[s].row] > 0
    <3>1. CASE s = t
      BY <2>1, <2>2, <3>1
    <3>2. CASE s # t
      <4>1. posts[tasks[s].row] > 0 /\ tasks[s].row \in Delivery /\ tasks'[s] = tasks[s]
        BY <1>0, <2>1, <2>3, <3>2, BusyHasRow
      <4> QED
        BY <2>1, <2>2, <4>1
    <3> QED
      BY <3>1, <3>2
  <2> QED
    BY <1>0, <1>2, <2>2, <2>3 DEF Exists
<1>11. ASSUME NEW t \in Task, Response(t) PROVE ReceiverView'
  <2>1. /\ tasks[t].phase = "posting" /\ tasks'[t].row = tasks[t].row
        /\ \A s \in Task : s # t => tasks'[s] = tasks[s]
    BY <1>0, <1>11 DEF Response, Advance, TypeOK
  <2> QED
    BY <1>0, <1>1, <1>2, <1>11, <2>1 DEF Response, Exists
<1>12. ASSUME NEW t \in Task, Accepted(t) PROVE ReceiverView'
  <2>1. /\ tasks[t].row \in Delivery /\ \A s \in Task : s # t => tasks'[s] = tasks[s]
        /\ tasks'[t].phase \in {"free", "handler"}
    BY <1>0, <1>12, BusyHasRow DEF Accepted, Advance, End, FreeTask, TypeOK
  <2> QED
    BY <1>0, <1>1, <1>2, <1>7, <1>12, <2>1 DEF Accepted, Exists
<1>13. ASSUME NEW t \in Task, Handling(t) PROVE ReceiverView'
  <2>1. \A s \in Task : tasks'[s] = tasks[s] \/ tasks'[s].phase \in {"free", "bumping", "handler"}
    BY <1>0, <1>13, HandlingStep DEF FreeTask, TypeOK
  <2>2. \A d \in Delivery : rows'[d].state = rows[d].state /\ rows'[d].attempts = rows[d].attempts
    BY <1>0, <1>13, RetriedState
  <2>3. posts' = posts /\ hook' = hook
    BY <1>0, <1>13, HandlingStep
  <2> QED
    BY <1>0, <1>1, <2>1, <2>2, <2>3 DEF Exists
<1>14. ASSUME NEW t \in Task, Die(t) PROVE ReceiverView'
  <2>1. \A s \in Task : tasks'[s] = tasks[s] \/ tasks'[s].phase = "free"
    BY <1>0, <1>14 DEF Die, FreeTask, TypeOK
  <2> QED
    BY <1>0, <1>1, <1>2, <1>14, <2>1 DEF Die, Exists
<1>15. CASE Cleanup
  <2>1. \A d \in Delivery : rows'[d] = rows[d] \/ rows'[d].state = "dropped"
    BY <1>15 DEF Cleanup, NoRow
  <2> QED
    BY <1>0, <1>1, <1>2, <1>15, <2>1 DEF Cleanup, Exists
<1>16. CASE Tick
  <2>1. \A d \in Delivery : rows'[d].state = rows[d].state /\ rows'[d].attempts = rows[d].attempts
    BY <1>0, <1>16, LaterRowFields DEF Tick, TypeOK
  <2>2. \A s \in Task : tasks'[s].phase = tasks[s].phase /\ tasks'[s].row = tasks[s].row
    BY <1>0, <1>16 DEF Tick, TypeOK
  <2>3. hook' = hook /\ posts' = posts
    BY <1>16 DEF Tick
  <2> QED
    BY <1>0, <2>1, <2>2, <2>3 DEF Exists
<1> QED
  BY <1>3, <1>4, <1>5, <1>6, <1>8, <1>9, <1>10, <1>11, <1>12, <1>13, <1>14, <1>15, <1>16
  DEF Next, TaskStep, Handling

\* The row of a delivery, as BoundedDelivery sees it.
LEMMA SameRowsSameFate ==
    ASSUME \A d \in Delivery : rows'[d].state = rows[d].state /\ rows'[d].attempts = rows[d].attempts
    PROVE  Fate' = Fate /\ Granted' = Granted
  BY DEF Fate, Granted

\* Rows that go are dropped with what they had left.
LEMMA DroppingIsDrop ==
    ASSUME TypeOK, DeleteWebhook \/ Cleanup
    PROVE  Bounded!Next
<1> DEFINE S == {d \in Delivery : rows'[d].state = "dropped"}
<1>1. /\ UNCHANGED <<tasks, posts>>
      /\ \A d \in Delivery : rows'[d] = rows[d] \/ rows'[d].state = "dropped"
  BY DEF DeleteWebhook, Cleanup, NoRow
<1>2. Bounded!Drop(S)
  BY <1>1 DEF Bounded!Drop, Fate, Granted, At
<1>3. S \in SUBSET Delivery
  OBVIOUS
<1> HIDE DEF S
<1> QED
  BY <1>2, <1>3 DEF Bounded!Next

\* A claim is a grant.
LEMMA ClaimIsGrant ==
    ASSUME TypeOK, NEW t \in Task, NEW d \in Delivery, Claim(t, d)
    PROVE  Bounded!Grant(d, t)
<1>1. /\ rows[d] \in Row /\ rows[d].state = "queued" /\ rows[d].attempts < MaxAttempts
      /\ rows'[d] = Claimed(rows[d]) /\ tasks[t].phase = "free"
      /\ \A e \in Delivery : e # d => rows'[e] = rows[e]
      /\ posts' = posts
  BY DEF Claim, Claimable, TypeOK
<1>2. rows'[d].state = "queued" /\ rows'[d].attempts = rows[d].attempts + 1
  BY <1>1, ClaimedRow
<1>3. /\ \A s \in Task : s # t => tasks'[s] = tasks[s]
      /\ tasks'[t].phase = "claimed" /\ tasks'[t].row = d
  BY DEF Claim, TypeOK
<1>4. Fate[d] = "queued" /\ Granted[d] = rows[d].attempts /\ Granted[d] < MaxAttempts
  BY <1>1 DEF Fate, Granted
<1>5. Fate' = Fate
  BY <1>1, <1>2 DEF Fate
<1>6. Granted' = [Granted EXCEPT ![d] = Granted[d] + 1]
  BY <1>1, <1>2 DEF Granted
<1>7. \A e \in Delivery : t \notin At("claimed")[e] \cup At("accepted")[e]
  BY <1>1 DEF At
<1>8. /\ At("claimed")' = [At("claimed") EXCEPT ![d] = At("claimed")[d] \cup {t}]
      /\ At("accepted")' = At("accepted")
  BY <1>1, <1>3, AtStep
<1> QED
  BY <1>1, <1>4, <1>5, <1>6, <1>7, <1>8 DEF Bounded!Grant

\* A task that leaves "claimed" spends its grant, whether it posts or not.
LEMMA LeavingIsSpending ==
    ASSUME TypeOK, NEW t \in Task, tasks[t].phase = "claimed", tasks'[t].phase \notin {"claimed", "accepted"},
           \A s \in Task : s # t => tasks'[s] = tasks[s],
           posts' = posts \/ posts' = [posts EXCEPT ![tasks[t].row] = posts[tasks[t].row] + 1],
           Fate' = Fate, Granted' = Granted
    PROVE  Bounded!Next
<1> DEFINE d == tasks[t].row
<1>1. d \in Delivery
  BY BusyHasRow
<1>2. t \in At("claimed")[d]
  BY <1>1 DEF At
<1>3. /\ At("claimed")' = [At("claimed") EXCEPT ![d] = At("claimed")[d] \ {t}]
      /\ At("accepted")' = At("accepted")
  BY AtStep
<1>4. Bounded!Spend(d, t)
  BY <1>2, <1>3 DEF Bounded!Spend
<1> QED
  BY <1>1, <1>4 DEF Bounded!Next

\* An outcome that was heard is recorded or lost.
LEMMA RecordingIsRecord ==
    ASSUME TypeOK, NEW t \in Task, tasks[t].phase = "accepted", tasks'[t].phase \notin {"claimed", "accepted"},
           \A s \in Task : s # t => tasks'[s] = tasks[s],
           posts' = posts, MarkSuccess(tasks[t].row) \/ rows' = rows
    PROVE  Bounded!Next
<1> DEFINE d == tasks[t].row
<1>1. d \in Delivery /\ rows \in [Delivery -> Row]
  BY BusyHasRow DEF TypeOK
<1>2. t \in At("accepted")[d]
  BY <1>1 DEF At
<1>3. /\ At("accepted")' = [At("accepted") EXCEPT ![d] = At("accepted")[d] \ {t}]
      /\ At("claimed")' = At("claimed")
  BY AtStep
<1>4. /\ Granted' = Granted
      /\ \/ Fate[d] \in {"queued", "delivered"} /\ Fate' = [Fate EXCEPT ![d] = "delivered"]
         \/ Fate' = Fate
  <2>1. CASE rows' = rows
    BY <2>1, SameRowsSameFate
  <2>2. CASE Exists(d) /\ rows' = [rows EXCEPT ![d] = Delivered(rows[d])]
    <3>1. /\ rows'[d].state = "delivered" /\ rows'[d].attempts = rows[d].attempts
          /\ \A e \in Delivery : e # d => rows'[e] = rows[e]
      BY <1>1, <2>2, DeliveredRow
    <3>2. Fate[d] \in {"queued", "delivered"} /\ rows[d].state # "dropped"
      BY <1>1, <2>2 DEF Fate, Exists
    <3>3. Fate' = [Fate EXCEPT ![d] = "delivered"]
      BY <1>1, <3>1 DEF Fate
    <3>4. Granted' = Granted
      BY <1>1, <3>1, <3>2 DEF Granted
    <3> QED
      BY <3>2, <3>3, <3>4
  <2> QED
    BY <2>1, <2>2 DEF MarkSuccess, Delivered, TypeOK
<1>5. Bounded!Record(d, t)
  BY <1>2, <1>3, <1>4 DEF Bounded!Record
<1> QED
  BY <1>1, <1>5 DEF Bounded!Next

\* A 2xx is heard by a task whose request has gone out.
LEMMA AnswerIsHeard ==
    ASSUME TypeOK, ReceiverView, NEW t \in Task, tasks[t].phase = "posting",
           tasks' = [tasks EXCEPT ![t].phase = "accepted"], UNCHANGED <<rows, posts>>
    PROVE  Bounded!Next
<1> DEFINE d == tasks[t].row
<1>1. /\ d \in Delivery /\ tasks'[t].row = d /\ tasks'[t].phase = "accepted"
      /\ \A s \in Task : s # t => tasks'[s] = tasks[s]
  BY OneTaskMoves DEF FreeTask, TypeOK
<1>2. posts[d] > 0
  BY DEF ReceiverView
<1>3. /\ At("accepted")' = [At("accepted") EXCEPT ![d] = At("accepted")[d] \cup {t}]
      /\ At("claimed")' = At("claimed")
  BY <1>1, AtStep
<1>4. Fate' = Fate /\ Granted' = Granted
  BY SameRowsSameFate
<1>5. Bounded!Hear(d, t)
  BY <1>2, <1>3, <1>4 DEF Bounded!Hear
<1> QED
  BY <1>1, <1>5 DEF Bounded!Next

\* Every step of the queue is a step of BoundedDelivery or changes nothing it
\* sees.
LEMMA RefineStep ==
    ASSUME IInv, ReceiverView, [Next]_vars
    PROVE  [Bounded!Next]_(Bounded!vars)
<1> DEFINE Same == /\ Fate' = Fate /\ Granted' = Granted /\ posts' = posts
                   /\ At("claimed")' = At("claimed") /\ At("accepted")' = At("accepted")
<1> SUFFICES Bounded!Next \/ Same
  BY DEF Bounded!vars
<1>0. TypeOK
  BY DEF IInv
<1>1. ASSUME UNCHANGED <<rows, tasks, posts>> PROVE Same
  BY <1>1 DEF Fate, Granted, At
<1>2. ASSUME NEW t \in Task, tasks[t].phase \in {"posting", "failed", "bumping", "handler"},
             tasks'[t].phase \notin {"claimed", "accepted"},
             \A s \in Task : s # t => tasks'[s] = tasks[s],
             posts' = posts, Fate' = Fate, Granted' = Granted
      PROVE  Same
  <2>1. /\ tasks[t].phase # "claimed" /\ tasks[t].phase # "accepted"
        /\ tasks'[t].phase # "claimed" /\ tasks'[t].phase # "accepted"
    BY <1>2
  <2> QED
    BY <1>0, <1>2, <2>1, AtStep
<1>3. ASSUME NEW d \in Delivery, EnqueueDelivery(d) PROVE Bounded!Next
  <2>1. /\ rows[d].state = "absent" /\ rows'[d] = NoRow("queued") /\ UNCHANGED <<tasks, posts>>
        /\ \A e \in Delivery : e # d => rows'[e] = rows[e]
    BY <1>0, <1>3 DEF EnqueueDelivery, TypeOK
  <2>2. rows'[d].state = "queued" /\ rows'[d].attempts = 0 /\ rows[d].attempts = 0
    BY <2>1 DEF NoRow, ReceiverView
  <2>3. Bounded!Enqueue(d)
    BY <2>1, <2>2 DEF Bounded!Enqueue, Fate, Granted, At
  <2> QED
    BY <2>3 DEF Bounded!Next
<1>4. ASSUME NEW st \in HookState, CreateWebhook(st) \/ UpdateWebhook(st) PROVE Same
  BY <1>1, <1>4 DEF CreateWebhook, UpdateWebhook
<1>5. CASE DeleteWebhook \/ Cleanup
  BY <1>0, <1>5, DroppingIsDrop
<1>6. ASSUME NEW t \in Task, NEW d \in Delivery, Claim(t, d) PROVE Bounded!Next
  BY <1>0, <1>6, ClaimIsGrant DEF Bounded!Next
<1>7. ASSUME NEW t \in Task, WebhookGone(t) PROVE Bounded!Next
  <2>1. /\ tasks[t].phase = "claimed" /\ tasks[t].row \in Delivery /\ tasks'[t].phase = "free"
        /\ \A s \in Task : s # t => tasks'[s] = tasks[s]
    BY <1>0, <1>7, BusyHasRow DEF WebhookGone, End, FreeTask, TypeOK
  <2>2. rows' = rows /\ posts' = posts
    BY <1>7, <2>1 DEF WebhookGone, MarkSuccess, ReceiverView
  <2> QED
    BY <1>0, <2>1, <2>2, SameRowsSameFate, LeavingIsSpending
<1>8. ASSUME NEW t \in Task, Refused(t) \/ Post(t) PROVE Bounded!Next
  <2>1. /\ tasks[t].phase = "claimed" /\ tasks'[t].phase \in {"failed", "handler", "posting"}
        /\ \A s \in Task : s # t => tasks'[s] = tasks[s]
        /\ rows' = rows
    BY <1>0, <1>8 DEF Refused, Post, Advance, TypeOK
  <2>2. posts' = posts \/ posts' = [posts EXCEPT ![tasks[t].row] = posts[tasks[t].row] + 1]
    BY <1>8 DEF Refused, Post
  <2>3. tasks'[t].phase \notin {"claimed", "accepted"}
    BY <2>1
  <2> QED
    BY <1>0, <2>1, <2>2, <2>3, SameRowsSameFate, LeavingIsSpending
<1>9. ASSUME NEW t \in Task, Response(t) PROVE Bounded!Next \/ Same
  <2>1. tasks[t].phase = "posting" /\ UNCHANGED <<rows, posts>>
    BY <1>9 DEF Response, Advance
  <2>2. CASE tasks' = [tasks EXCEPT ![t].phase = "accepted"]
    BY <1>0, <2>1, <2>2, AnswerIsHeard
  <2>3. CASE \E to \in {"failed", "handler"} : tasks' = [tasks EXCEPT ![t].phase = to]
    <3>1. /\ tasks'[t].phase \in {"failed", "handler"}
          /\ tasks'[t].phase \notin {"claimed", "accepted"}
          /\ \A s \in Task : s # t => tasks'[s] = tasks[s]
      BY <1>0, <2>3 DEF TypeOK
    <3> QED
      BY <1>2, <2>1, <3>1, SameRowsSameFate
  <2> QED
    BY <1>9, <2>2, <2>3 DEF Response, Advance
<1>10. ASSUME NEW t \in Task, Accepted(t) PROVE Bounded!Next
  <2>1. /\ tasks[t].phase = "accepted" /\ tasks'[t].phase \in {"free", "handler"}
        /\ \A s \in Task : s # t => tasks'[s] = tasks[s]
    BY <1>0, <1>10 DEF Accepted, Advance, End, FreeTask, TypeOK
  <2>2. posts' = posts /\ (MarkSuccess(tasks[t].row) \/ rows' = rows)
    BY <1>10 DEF Accepted
  <2>3. tasks'[t].phase \notin {"claimed", "accepted"}
    BY <2>1
  <2> QED
    BY <1>0, <2>1, <2>2, <2>3, RecordingIsRecord
<1>11. ASSUME NEW t \in Task, Handling(t) PROVE Same
  <2>1. /\ tasks[t].phase \in {"failed", "bumping", "handler"} /\ posts' = posts
        /\ tasks'[t].phase \in {"free", "bumping", "handler"}
        /\ \A s \in Task : s # t => tasks'[s] = tasks[s]
    BY <1>0, <1>11, HandlingStep DEF FreeTask, TypeOK
  <2>2. Fate' = Fate /\ Granted' = Granted
    BY <1>0, <1>11, RetriedState, SameRowsSameFate
  <2>3. tasks'[t].phase \notin {"claimed", "accepted"}
    BY <2>1
  <2> QED
    BY <1>2, <2>1, <2>2, <2>3
<1>12. ASSUME NEW t \in Task, Die(t) PROVE Bounded!Next \/ Same
  <2>1. /\ tasks[t].phase \in Phase \ {"free"} /\ tasks'[t].phase = "free"
        /\ \A s \in Task : s # t => tasks'[s] = tasks[s]
        /\ UNCHANGED <<rows, posts>>
    BY <1>0, <1>12 DEF Die, FreeTask, TypeOK, Phase
  <2>2. Fate' = Fate /\ Granted' = Granted
    BY <2>1, SameRowsSameFate
  <2>3. CASE tasks[t].phase = "claimed"
    BY <1>0, <2>1, <2>2, <2>3, LeavingIsSpending
  <2>4. CASE tasks[t].phase = "accepted"
    BY <1>0, <2>1, <2>4, RecordingIsRecord
  <2>5. CASE tasks[t].phase \in {"posting", "failed", "bumping", "handler"}
    BY <1>2, <2>1, <2>2, <2>5
  <2> QED
    BY <2>1, <2>3, <2>4, <2>5 DEF Phase
<1>13. CASE Tick
  <2>1. \A d \in Delivery : rows'[d].state = rows[d].state /\ rows'[d].attempts = rows[d].attempts
    BY <1>0, <1>13, LaterRowFields DEF Tick, TypeOK
  <2>2. \A s \in Task : tasks'[s].phase = tasks[s].phase /\ tasks'[s].row = tasks[s].row
    BY <1>0, <1>13 DEF Tick, TypeOK
  <2>3. posts' = posts /\ Fate' = Fate /\ Granted' = Granted
    BY <1>13, <2>1, SameRowsSameFate DEF Tick
  <2> QED
    BY <2>2, <2>3 DEF At
<1>14. CASE UNCHANGED vars
  BY <1>1, <1>14 DEF vars
<1> HIDE DEF Same
<1> QED
  BY <1>3, <1>4, <1>5, <1>6, <1>7, <1>8, <1>9, <1>10, <1>11, <1>12, <1>13, <1>14
  DEF Next, TaskStep, Handling

\* The view holds in every reachable state.
THEOREM ViewTheorem == Spec => []ReceiverView
<1>1. Init => ReceiverView
  <2> SUFFICES ASSUME Init PROVE ReceiverView
    OBVIOUS
  <2>1. \A d \in Delivery : rows[d].state = "absent" /\ rows[d].attempts = 0
    BY DEF Init, NoRow
  <2>2. \A t \in Task : tasks[t].phase = "free"
    BY DEF Init, FreeTask
  <2> QED
    BY <2>1, <2>2 DEF Init, ReceiverView
<1>2. IInv /\ IInv' /\ ReceiverView /\ [Next]_vars => ReceiverView'
  <2> SUFFICES ASSUME IInv, IInv', ReceiverView, [Next]_vars PROVE ReceiverView'
    OBVIOUS
  <2>1. CASE Next
    BY <2>1, ViewStep DEF IInv
  <2>2. CASE UNCHANGED vars
    BY <2>2 DEF vars, ReceiverView, Exists
  <2> QED
    BY <2>1, <2>2
<1> QED
  BY <1>1, <1>2, InvariantTheorem, PTL DEF Spec

\* The queue implements BoundedDelivery, for any number of deliveries and
\* tasks: whatever locks, late outcomes, pauses and crashes do, the receiver
\* sees no request without a counted attempt, and a row is delivered only by a
\* task that heard the receiver accept it.
THEOREM QueueImplementsBoundedDelivery == Spec => ImplementsBoundedDelivery
<1>1. Init => Bounded!Init
  <2> SUFFICES ASSUME Init PROVE Bounded!Init
    OBVIOUS
  <2>1. \A d \in Delivery : rows[d].state = "absent" /\ rows[d].attempts = 0
    BY DEF Init, NoRow
  <2>2. \A t \in Task : tasks[t].phase = "free"
    BY DEF Init, FreeTask
  <2> QED
    BY <2>1, <2>2 DEF Init, Bounded!Init, Fate, Granted, At
<1>2. IInv /\ ReceiverView /\ [Next]_vars => [Bounded!Next]_(Bounded!vars)
  BY RefineStep
<1> QED
  BY <1>1, <1>2, InvariantTheorem, ViewTheorem, PTL
  DEF Spec, ImplementsBoundedDelivery, Bounded!Spec
=============================================================================

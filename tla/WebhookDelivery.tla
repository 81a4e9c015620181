-------------------------- MODULE WebhookDelivery --------------------------
(***************************************************************************)
(* app/workers/webhook_worker.py: the deliveries of one webhook, and the   *)
(* coroutines (_bounded around _attempt_delivery) of all replicas that     *)
(* work on them.                                                           *)
(*                                                                         *)
(* A task is one such coroutine, from the claim of its row to its end.  A  *)
(* batch is claimed by one statement but its rows are independent and wait *)
(* for the semaphore one by one, so claims are modelled row by row.  One   *)
(* unit of time is the length of the lock, one minute; a row keeps how far *)
(* away scheduled_at and locked_until are.                                 *)
(***************************************************************************)
EXTENDS Integers, Sequences

CONSTANTS
    Delivery,       \* ids of rows of webhook_deliveries
    Task,           \* coroutines
    NoDelivery,     \* the row of a task that is not running
    MaxAttempts,    \* webhook_deliveries.max_attempts
    Lock,           \* _LOCK_DURATION_SECONDS
    Backoff,        \* _BACKOFF_SECONDS
    Keep            \* age at which the cleanup drops delivered rows

ASSUME DeliveryAssumption ==
    /\ NoDelivery \notin Delivery
    /\ MaxAttempts \in Nat \ {0}
    /\ Lock \in Nat \ {0}
    /\ Backoff \in Seq(Nat) /\ Len(Backoff) > 0
    /\ \A i \in 1..Len(Backoff) : Backoff[i] >= Lock
    /\ Keep \in Nat

VARIABLES
    rows,       \* webhook_deliveries
    hook,       \* the webhooks row they refer to
    tasks,      \* the coroutines
    posts       \* per delivery: how many requests went out

vars == <<rows, hook, tasks, posts>>

-----------------------------------------------------------------------------
RowState == {"absent", "queued", "delivered", "dropped"}
HookState == {"none", "enabled", "disabled", "deleted"}

\* What the coroutine does next: "failed" records the failure, "bumping" then
\* updates the webhooks row, "handler" is the except branch of _bounded.
Phase == {"free", "claimed", "posting", "accepted", "failed", "bumping", "handler"}

Row == [state : RowState, attempts : 0..MaxAttempts, wait : Nat,
        locked : 0..Lock, age : 0..Keep]

NoRow(state) == [state |-> state, attempts |-> 0, wait |-> 0, locked |-> 0, age |-> 0]

\* attempts is the value the claim returned; age counts up to Lock.
FreeTask == [phase |-> "free", row |-> NoDelivery, attempts |-> 0, age |-> 0]

TypeOK ==
    /\ rows \in [Delivery -> Row]
    /\ hook \in HookState
    /\ tasks \in [Task -> [phase : Phase, row : Delivery \cup {NoDelivery},
                           attempts : 0..MaxAttempts, age : 0..Lock]]
    /\ \A t \in Task : tasks[t].phase = "free" <=> tasks[t].row = NoDelivery
    /\ posts \in [Delivery -> Nat]

Init ==
    /\ rows = [d \in Delivery |-> NoRow("absent")]
    /\ hook = "none"
    /\ tasks = [t \in Task |-> FreeTask]
    /\ posts = [d \in Delivery |-> 0]

-----------------------------------------------------------------------------
\* The producers' side and the webhook router.

\* find_subscribers returns enabled webhooks only; enqueue_delivery inserts
\* (a delivery that the dedup window suppresses is no step).
EnqueueDelivery(d) ==
    /\ hook = "enabled" /\ rows[d].state = "absent"
    /\ rows' = [rows EXCEPT ![d] = NoRow("queued")]
    /\ UNCHANGED <<hook, tasks, posts>>

\* create_webhook; its checks refuse it or the row is inserted.
CreateWebhook(state) ==
    /\ hook = "none" /\ state \in {"enabled", "disabled"}
    /\ hook' = state
    /\ UNCHANGED <<rows, tasks, posts>>

\* update_webhook: the enabled flag.
UpdateWebhook(state) ==
    /\ hook \in {"enabled", "disabled"} /\ state \in {"enabled", "disabled"}
    /\ hook' = state
    /\ UNCHANGED <<rows, tasks, posts>>

\* delete_webhook: the foreign key cascades to the deliveries.
DeleteWebhook ==
    /\ hook \in {"enabled", "disabled"}
    /\ hook' = "deleted"
    /\ rows' = [d \in Delivery |-> NoRow("dropped")]
    /\ UNCHANGED <<tasks, posts>>

-----------------------------------------------------------------------------
\* drain_pending_deliveries.

\* Mutant: attempts <= max_attempts.
ClaimableOnceMore(d) ==
    /\ rows[d].state = "queued"
    /\ rows[d].attempts <= MaxAttempts
    /\ rows[d].wait = 0 /\ rows[d].locked = 0

\* Mutant: a claim that leaves rows on their last attempt alone.
ClaimableSpares(d) ==
    /\ rows[d].state = "queued"
    /\ rows[d].attempts < MaxAttempts - 1
    /\ rows[d].wait = 0 /\ rows[d].locked = 0

\* The WHERE clause of _CLAIM_SQL.
Claimable(d) ==
    /\ rows[d].state = "queued"
    /\ rows[d].attempts < MaxAttempts
    /\ rows[d].wait = 0 /\ rows[d].locked = 0

\* Mutant: attempts are not counted by the claim.
ClaimedUncounted(r) == [r EXCEPT !.locked = Lock]

\* The SET clause of _CLAIM_SQL.
Claimed(r) == [r EXCEPT !.locked = Lock, !.attempts = @ + 1]

Claim(t, d) ==
    /\ tasks[t].phase = "free" /\ Claimable(d)
    /\ rows' = [rows EXCEPT ![d] = Claimed(@)]
    /\ tasks' = [tasks EXCEPT ![t] = [phase |-> "claimed", row |-> d,
                                      attempts |-> rows'[d].attempts, age |-> 0]]
    /\ UNCHANGED <<hook, posts>>

Advance(t, from, to) ==
    /\ tasks[t].phase = from
    /\ tasks' = [tasks EXCEPT ![t].phase = to]

End(t, from) ==
    /\ tasks[t].phase = from
    /\ tasks' = [tasks EXCEPT ![t] = FreeTask]

Exists(d) == rows[d].state \in {"queued", "delivered"}

\* _MARK_SUCCESS_SQL: of a row that is gone, it updates nothing.
MarkSuccess(d) ==
    rows' = IF Exists(d)
            THEN [rows EXCEPT ![d].state = "delivered", ![d].locked = 0, ![d].age = 0]
            ELSE rows

\* Mutant: a webhook that is paused is treated like one that is gone.
WebhookNotActive(t) ==
    /\ hook # "enabled"
    /\ End(t, "claimed")
    /\ MarkSuccess(tasks[t].row)
    /\ UNCHANGED <<hook, posts>>

\* _attempt_delivery up to the request: the webhook is gone; it is disabled
\* or a check refuses (address, secret), or something raises; or the request
\* goes out.
WebhookGone(t) ==
    /\ hook = "deleted"
    /\ End(t, "claimed")
    /\ MarkSuccess(tasks[t].row)
    /\ UNCHANGED <<hook, posts>>

Refused(t) ==
    /\ \/ hook # "deleted" /\ Advance(t, "claimed", "failed")
       \/ Advance(t, "claimed", "handler")
    /\ UNCHANGED <<rows, hook, posts>>

Post(t) ==
    /\ hook = "enabled"
    /\ Advance(t, "claimed", "posting")
    /\ posts' = [posts EXCEPT ![tasks[t].row] = @ + 1]
    /\ UNCHANGED <<rows, hook>>

\* 2xx; or another status, an HTTP error or the timeout of an answer that the
\* receiver may well have sent; or an exception of another class.
Response(t) ==
    /\ \E next \in {"accepted", "failed", "handler"} : Advance(t, "posting", next)
    /\ UNCHANGED <<rows, hook, posts>>

\* _MARK_SUCCESS_SQL and the update of the webhooks row.  If the first raises
\* nothing is written (or its answer is lost), if the second does the row is
\* delivered already; both lead to the handler.
Accepted(t) ==
    /\ \/ End(t, "accepted") /\ MarkSuccess(tasks[t].row)
       \/ Advance(t, "accepted", "handler") /\ MarkSuccess(tasks[t].row)
       \/ Advance(t, "accepted", "handler") /\ UNCHANGED rows
    /\ UNCHANGED <<hook, posts>>

\* _next_attempt_delay, without the jitter; idx counts from 1 as in the code.
NextAttemptDelay(idx) ==
    LET bucket == IF idx < 1 THEN 1 ELSE IF idx > Len(Backoff) THEN Len(Backoff) ELSE idx
    IN  Backoff[bucket]

\* The test of _record_failure, on the attempts the claim returned.
GivesUp(attempts) == attempts + 1 >= MaxAttempts

\* Mutant: every failure is retried at once.
RescheduledAtOnce(attempts) == 0

\* The scheduled_at of _record_failure: now, or after the delay.
Rescheduled(attempts) ==
    IF GivesUp(attempts) THEN 0 ELSE NextAttemptDelay(attempts + 2)

\* _MARK_FAILURE_SQL as _record_failure calls it: by id, whoever holds the row.
MarkFailure(t) ==
    LET d == tasks[t].row IN
    rows' = IF Exists(d)
            THEN [rows EXCEPT ![d].locked = 0,
                              ![d].wait = Rescheduled(tasks[t].attempts)]
            ELSE rows

\* The calls of _record_failure in _attempt_delivery: after some of them the
\* webhooks row is updated; or the statement raises, written or not.
RecordFailure(t) ==
    /\ \/ End(t, "failed") /\ MarkFailure(t)
       \/ \E next \in {"bumping", "handler"} : Advance(t, "failed", next) /\ MarkFailure(t)
       \/ Advance(t, "failed", "handler") /\ UNCHANGED rows
    /\ UNCHANGED <<hook, posts>>

\* _BUMP_WEBHOOK_FAILURE_SQL: done, or it raises.
BumpFailure(t) ==
    /\ End(t, "bumping") \/ Advance(t, "bumping", "handler")
    /\ UNCHANGED <<rows, hook, posts>>

\* The handler of _bounded records a failure, be it for the second time.
HandleError(t) ==
    /\ End(t, "handler")
    /\ MarkFailure(t)
    /\ UNCHANGED <<hook, posts>>

\* The replica goes down, or the database refuses the handler's update too.
Die(t) ==
    /\ tasks[t].phase # "free"
    /\ tasks' = [tasks EXCEPT ![t] = FreeTask]
    /\ UNCHANGED <<rows, hook, posts>>

-----------------------------------------------------------------------------
\* _queue_cleanup: delivered rows that are old enough.
Cleanup ==
    /\ \E d \in Delivery : rows[d].state = "delivered" /\ rows[d].age = Keep
    /\ rows' = [d \in Delivery |->
                   IF rows[d].state = "delivered" /\ rows[d].age = Keep
                   THEN NoRow("dropped") ELSE rows[d]]
    /\ UNCHANGED <<hook, tasks, posts>>

Down(n) == IF n = 0 THEN 0 ELSE n - 1
Up(n, top) == IF n < top THEN n + 1 ELSE top

LaterRow(r) ==
    [r EXCEPT !.wait = Down(@), !.locked = Down(@),
              !.age = IF r.state = "delivered" THEN Up(@, Keep) ELSE @]

Tick ==
    /\ rows' = [d \in Delivery |-> LaterRow(rows[d])]
    /\ tasks' = [t \in Task |-> IF tasks[t].phase = "free" THEN tasks[t]
                                ELSE [tasks[t] EXCEPT !.age = Up(@, Lock)]]
    /\ UNCHANGED <<hook, posts>>

TaskStep(t) ==
    \/ WebhookGone(t) \/ Refused(t) \/ Post(t) \/ Response(t) \/ Accepted(t)
    \/ RecordFailure(t) \/ BumpFailure(t) \/ HandleError(t)

Next ==
    \/ \E d \in Delivery : EnqueueDelivery(d)
    \/ \E state \in HookState : CreateWebhook(state) \/ UpdateWebhook(state)
    \/ DeleteWebhook
    \/ \E t \in Task :
          \/ \E d \in Delivery : Claim(t, d)
          \/ TaskStep(t)
          \/ Die(t)
    \/ Cleanup
    \/ Tick

Spec == Init /\ [][Next]_vars

\* Time passes, some replica polls again and again, and a coroutine that
\* does not die runs to its end.
FairSpec ==
    /\ Spec
    /\ WF_vars(Tick)
    /\ \A d \in Delivery : WF_vars(\E t \in Task : Claim(t, d))
    /\ \A t \in Task : WF_vars(TaskStep(t))

-----------------------------------------------------------------------------
\* However locks expire, replicas die and late answers come in, no more
\* requests go out for a delivery than claims were counted, hence never more
\* than max_attempts.
PostsWithinBudget ==
    \A d \in Delivery :
        rows[d].state \in {"queued", "delivered"} => posts[d] <= rows[d].attempts

\* s has recorded its failure on the last attempt but one, and t owns the last.
HandedOn(s, t) ==
    /\ tasks[s].phase \in {"bumping", "handler"}
    /\ tasks[s].attempts < MaxAttempts /\ tasks[t].attempts = MaxAttempts

\* Of two tasks on one row, one has outlived its lock: a late _record_failure
\* does clear the lock of the task that took over, but then scheduled_at or
\* attempts still keep a third one off the row for the length of that lock.
\* The exception is a task that gave up on the last attempt but one, where the
\* row is due again at once: the second record of its handler then clears the
\* lock of the next owner within its own, but that owner has the last attempt.
FreshClaimIsExclusive ==
    \A s, t \in Task :
        /\ s # t /\ tasks[s].row # NoDelivery /\ tasks[s].row = tasks[t].row
        => \/ tasks[s].age = Lock \/ tasks[t].age = Lock
           \/ HandedOn(s, t) \/ HandedOn(t, s)

\* Seen from the receiver, a claim is a grant, which the task that claimed
\* spends when it posts; locks, backoffs and the webhooks row are gone.  A row
\* that was dropped has used up its grants.
Fate == [d \in Delivery |-> rows[d].state]
Granted ==
    [d \in Delivery |-> IF rows[d].state = "dropped" THEN MaxAttempts ELSE rows[d].attempts]
At(phase) == [d \in Delivery |-> {t \in Task : tasks[t].row = d /\ tasks[t].phase = phase}]

Bounded == INSTANCE BoundedDelivery WITH
    Worker <- Task, Max <- MaxAttempts, fate <- Fate, granted <- Granted,
    sending <- At("claimed"), sent <- posts, heard <- At("accepted")

\* The queue implements BoundedDelivery: no interleaving of replicas, late
\* outcomes, expired locks, pauses and crashes posts without an attempt that
\* was counted, claims a row that is settled, or calls a row delivered that
\* the receiver has not accepted; not even when the webhook is deleted.
ImplementsBoundedDelivery == Bounded!Spec

\* A delivered row is never claimed or made pending again, whatever a task
\* that is late writes to it.
DeliveredIsFinal ==
    [][\A d \in Delivery :
          rows[d].state = "delivered" =>
              \/ rows'[d].state = "dropped"
              \/ rows'[d].state = "delivered" /\ rows'[d].attempts = rows[d].attempts]_vars

\* Every delivery comes to an end: delivered, dropped with its webhook, or
\* out of attempts; also when replicas die at any step.
DeliverySettles ==
    \A d \in Delivery :
        rows[d].state = "queued" ~>
            rows[d].state # "queued" \/ rows[d].attempts = MaxAttempts
=============================================================================

--------------------------- MODULE Exploitability ---------------------------
(***************************************************************************)
(* What vulnx knows of a CVE (public PoC, Nuclei template) reaches         *)
(* cves.has_public_poc / has_nuclei_template and from there                *)
(* findings.priority_score along three paths that share one VulnxClient    *)
(* and its daily budget: the job run_exploitability_refresh, the           *)
(* background tasks of schedule_lazy_refresh, and GET /cves/{id}/intel     *)
(* with refresh=true.                                                      *)
(*                                                                         *)
(* One process; a CVE is stood for by one finding that is open.  What      *)
(* vulnx says of a CVE is a version number, and a score is the pair of     *)
(* versions (flags, other signals) it was computed from.  The response     *)
(* cache of the intel route is left out: only responses read it.           *)
(***************************************************************************)
EXTENDS Integers, FiniteSets

CONSTANTS
    Cve,            \* the CVEs, numbered in the order of _STALE_CVE_SQL
    Lazy, Intel,    \* background tasks and intel requests
    Sync,           \* product syncs, which write scores too
    Page,           \* page: the LIMIT of _STALE_CVE_SQL
    BatchSize,      \* vulnx_batch_size
    DailyLimit,     \* vulnx_daily_limit
    StaleDays,      \* vulnx_staleness_days; the lazy path's limit is one day
    MaxEvents,      \* bound: changes and faults together
    MaxRequests     \* bound: requests and syncs

Task == {"job"} \cup Lazy \cup Intel \cup Sync

ASSUME ExploitabilityAssumption ==
    /\ Cve \subseteq Nat /\ IsFiniteSet(Cve)
    /\ "job" \notin Lazy \cup Intel \cup Sync
    /\ Lazy \cap (Intel \cup Sync) = {} /\ Intel \cap Sync = {}
    /\ {Page, BatchSize, DailyLimit, StaleDays} \subseteq Nat \ {0}
    /\ {MaxEvents, MaxRequests} \subseteq Nat

VARIABLES
    upstream,   \* per CVE: the version vulnx holds, 0 when it has none
    row,        \* per CVE: version of the flags (0: NULL), of the other
                \* signals, and age in days of exploitability_updated_at
    score,      \* per CVE: what the finding's priority_score was computed from
    budget,     \* _DailyCounter._count
    key,        \* per CVE: whether vulnx:in_flight:<cve> is set
    task,       \* per task: where it is and what it holds
    clock,      \* whether today's job run and today's midnight have come
    left        \* how many events and requests may still come

vars == <<upstream, row, score, budget, key, task, clock, left>>

-----------------------------------------------------------------------------
Version == 0..MaxEvents
Null == <<0, 0>>    \* priority_score is NULL until it is first computed
Basis == Version \X Version
NoIntel == [c \in Cve |-> 0]
NoPlan == [c \in {} |-> Null]
Place == {"idle", "claim", "fetch", "posted", "store", "stamp", "read", "recompute", "release"}
Idle == [pc |-> "idle", ids |-> {}, todo |-> {}, got |-> NoIntel, plan |-> NoPlan]

Plan == UNION {[S -> Basis] : S \in SUBSET Cve}
Held == [pc : Place, ids : SUBSET Cve, todo : SUBSET Cve, got : [Cve -> Version], plan : Plan]

TypeOK ==
    /\ upstream \in [Cve -> Version]
    /\ row \in [Cve -> [flags : Version, other : Version, age : 0..StaleDays]]
    /\ score \in [Cve -> Basis]
    /\ budget \in 0..DailyLimit
    /\ key \in [Cve -> BOOLEAN]
    /\ task \in [Task -> Held]
    /\ clock \in [ran : BOOLEAN, midnight : BOOLEAN]
    /\ left \in [events : 0..MaxEvents, requests : 0..MaxRequests]

\* A column that is NULL is refreshed like one of the greatest age.
Init ==
    /\ upstream = [c \in Cve |-> 0]
    /\ row = [c \in Cve |-> [flags |-> 0, other |-> 0, age |-> StaleDays]]
    /\ score = [c \in Cve |-> Null]
    /\ budget = 0
    /\ key = [c \in Cve |-> FALSE]
    /\ task = [t \in Task |-> Idle]
    /\ clock = [ran |-> FALSE, midnight |-> FALSE]
    /\ left = [events |-> MaxEvents, requests |-> MaxRequests]

-----------------------------------------------------------------------------
Become(t, r) == task' = [task EXCEPT ![t] = r]
GoTo(t, pc) == Become(t, [task[t] EXCEPT !.pc = pc])
End(t) == Become(t, Idle)
Event == left.events > 0 /\ left' = [left EXCEPT !.events = @ - 1]
Request == left.requests > 0 /\ left' = [left EXCEPT !.requests = @ - 1]

\* The n most urgent CVEs of S.
First(S, n) == {c \in S : Cardinality({d \in S : d < c}) < n}

StaleIn(days, c) == row[c].age >= days
StalePage == First({c \in Cve : StaleIn(StaleDays, c)}, Page)

\* The job's SELECT; a breaker that is OPEN makes the run end in an error.
JobSelect ==
    /\ task["job"].pc = "idle" /\ ~clock.ran
    /\ clock' = [clock EXCEPT !.ran = TRUE]
    /\ \/ /\ Become("job", IF StalePage = {} THEN Idle
                           ELSE [Idle EXCEPT !.pc = "fetch", !.ids = StalePage, !.todo = StalePage])
          /\ UNCHANGED left
       \/ Event /\ UNCHANGED task
    /\ UNCHANGED <<upstream, row, score, budget, key>>

\* A page of findings is shown: its CVEs older than a day are to be refreshed.
ShowFindings(t, shown) ==
    LET stale == {c \in shown : StaleIn(1, c)} IN
    /\ task[t].pc = "idle" /\ stale # {}
    /\ Request
    /\ Become(t, [Idle EXCEPT !.pc = "claim", !.todo = stale])
    /\ UNCHANGED <<upstream, row, score, budget, key, clock>>

\* claim_inflight for the next CVE.  A Redis error counts as a claim.
Claim(t, c) ==
    LET more == task[t].todo \ {c}
        Claimed(ids) ==
            Become(t, IF more # {} THEN [task[t] EXCEPT !.ids = ids, !.todo = more]
                      ELSE IF ids = {} THEN Idle
                      ELSE [task[t] EXCEPT !.pc = "fetch", !.ids = ids, !.todo = ids])
    IN
    /\ task[t].pc = "claim" /\ c \in First(task[t].todo, 1)
    /\ \/ /\ ~key[c] /\ key' = [key EXCEPT ![c] = TRUE]
          /\ Claimed(task[t].ids \cup {c}) /\ UNCHANGED left
       \/ key[c] /\ Claimed(task[t].ids) /\ UNCHANGED <<key, left>>
       \/ Event /\ Claimed(task[t].ids \cup {c}) /\ UNCHANGED key
    /\ UNCHANGED <<upstream, row, score, budget, clock>>

RequestIntel(t, c) ==
    /\ task[t].pc = "idle"
    /\ Request
    /\ Become(t, [Idle EXCEPT !.pc = "fetch", !.ids = {c}, !.todo = {c}])
    /\ UNCHANGED <<upstream, row, score, budget, key, clock>>

\* sync_product has matched the CVE to the product: the score it computes
\* counts the other signals and leaves the flags out.  It is written later,
\* with the findings of the sync's other CVEs.
SyncReads(t, c) ==
    /\ task[t].pc = "idle"
    /\ Request
    /\ Become(t, [Idle EXCEPT !.pc = "recompute",
                              !.plan = [d \in {c} |-> <<0, row[d].other>>]])
    /\ UNCHANGED <<upstream, row, score, budget, key, clock>>

-----------------------------------------------------------------------------
\* fetch_intel, batch by batch: consume debits the budget, then the batch is
\* posted, then its answer is read or its failure logged.  A batch the budget
\* cannot pay for ends the loop, and what is left to do is never asked.
Batch(t) == First(task[t].todo, BatchSize)

\* Mutant: the limit is not tested.
ConsumeUnchecked(n) == TRUE

consume(n) == budget + n <= DailyLimit

AskBatch(t) ==
    LET n == Cardinality(Batch(t)) IN
    /\ task[t].pc = "fetch"
    /\ \/ consume(n) /\ budget' = budget + n /\ GoTo(t, "posted")
       \/ ~consume(n) /\ GoTo(t, "store") /\ UNCHANGED budget
    /\ UNCHANGED <<upstream, row, score, key, clock, left>>

\* Mutant: answers are matched to the CVEs asked by their place, not by cve_id.
ParsedByPlace(t, c) ==
    IF c \in Batch(t) THEN upstream[CHOOSE d \in Batch(t) : Batch(t) # {c} => d # c]
    ELSE task[t].got[c]

\* What is read from an answer: the CVEs of the batch that vulnx knows.
Parsed(t, c) == IF c \in Batch(t) THEN upstream[c] ELSE task[t].got[c]

\* The loop goes on with the next batch.
NextBatch(t, got) ==
    LET more == task[t].todo \ Batch(t) IN
    Become(t, [task[t] EXCEPT !.pc = IF more = {} THEN "store" ELSE "fetch",
                              !.todo = more, !.got = got])

Answer(t) ==
    /\ task[t].pc = "posted"
    /\ NextBatch(t, [c \in Cve |-> Parsed(t, c)])
    /\ UNCHANGED <<upstream, row, score, budget, key, clock, left>>

BatchFails(t) ==
    /\ task[t].pc = "posted"
    /\ Event
    /\ NextBatch(t, task[t].got)
    /\ UNCHANGED <<upstream, row, score, budget, key, clock>>

\* Any other error of the call, or a breaker found OPEN: the job and the
\* request end, the background task first gives its keys back.
FetchRaises(t) ==
    /\ task[t].pc = "posted"
    /\ Event
    /\ IF t \in Lazy THEN GoTo(t, "release") ELSE End(t)
    /\ UNCHANGED <<upstream, row, score, budget, key, clock>>

-----------------------------------------------------------------------------
Found(t) == {c \in task[t].ids : task[t].got[c] # 0}
NotFound(t) == task[t].ids \ Found(t)

\* What each path does after a step: the job stamps before it recomputes, the
\* background task after, and the intel route does neither.  A sync has
\* nothing more to do with scores.
JobAfter(t, step) ==
    CASE step = "store" -> "stamp"
      [] step = "stamp" -> IF Found(t) = {} THEN "idle" ELSE "read"
      [] step = "scores" -> "idle"

LazyAfter(t, step) ==
    CASE step = "store" -> IF Found(t) = {} THEN "stamp" ELSE "read"
      [] step = "scores" -> "stamp"
      [] step = "stamp" -> "release"

IntelAfter(t, step) == "idle"
SyncAfter(t, step) == "idle"

Proceed(t, step) ==
    LET pc == IF t = "job" THEN JobAfter(t, step)
              ELSE IF t \in Lazy THEN LazyAfter(t, step)
              ELSE IF t \in Intel THEN IntelAfter(t, step) ELSE SyncAfter(t, step)
    IN  IF pc = "idle" THEN End(t) ELSE Become(t, [task[t] EXCEPT !.pc = pc, !.plan = NoPlan])

\* The UPDATE of the CVEs vulnx answered for.
Store(t) ==
    /\ task[t].pc = "store"
    /\ row' = [c \in Cve |->
            IF c \in Found(t) THEN [row[c] EXCEPT !.flags = task[t].got[c], !.age = 0]
            ELSE row[c]]
    /\ Proceed(t, "store")
    /\ UNCHANGED <<upstream, score, budget, key, clock, left>>

\* Mutant: CVEs without an answer keep their timestamp.
StampNothing(t) == UNCHANGED row

StampNotFound(t) ==
    row' = [c \in Cve |-> IF c \in NotFound(t) THEN [row[c] EXCEPT !.age = 0] ELSE row[c]]

Stamp(t) ==
    /\ task[t].pc = "stamp"
    /\ StampNotFound(t)
    /\ Proceed(t, "stamp")
    /\ UNCHANGED <<upstream, score, budget, key, clock, left>>

BasisOf(c) == <<row[c].flags, row[c].other>>

\* The scores that differ from the stored ones.
ScoresToWrite(t) ==
    LET changed == {c \in Found(t) : score[c] # BasisOf(c)} IN
    [c \in changed |-> BasisOf(c)]

\* _recompute_finding_priorities reads on one connection ...
ReadForRecompute(t) ==
    /\ task[t].pc = "read"
    /\ IF ScoresToWrite(t) = NoPlan THEN Proceed(t, "scores")
       ELSE Become(t, [task[t] EXCEPT !.pc = "recompute", !.plan = ScoresToWrite(t)])
    /\ UNCHANGED <<upstream, row, score, budget, key, clock, left>>

\* ... and writes on another what it computed from that.
Recompute(t) ==
    LET plan == task[t].plan IN
    /\ task[t].pc = "recompute"
    /\ score' = [c \in Cve |-> IF c \in DOMAIN plan THEN plan[c] ELSE score[c]]
    /\ Proceed(t, "scores")
    /\ UNCHANGED <<upstream, row, budget, key, clock, left>>

\* release_inflight deletes the key, whoever has set it.
Release(t) ==
    /\ task[t].pc = "release"
    /\ \/ key' = [c \in Cve |-> key[c] /\ c \notin task[t].ids] /\ UNCHANGED left
       \/ Event /\ UNCHANGED key
    /\ End(t)
    /\ UNCHANGED <<upstream, row, score, budget, clock>>

\* A statement of the database fails: nothing more is done, and the keys of a
\* background task stay until they expire.
DatabaseFails(t) ==
    /\ task[t].pc \in {"store", "stamp", "read", "recompute"}
    /\ Event
    /\ End(t)
    /\ UNCHANGED <<upstream, row, score, budget, key, clock>>

-----------------------------------------------------------------------------
\* The lifespan cancels every task; the counter is the process's own, and the
\* new scheduler runs the job at once.
Restart ==
    /\ Event
    /\ task' = [t \in Task |-> Idle]
    /\ budget' = 0
    /\ clock' = [clock EXCEPT !.ran = FALSE]
    /\ UNCHANGED <<upstream, row, score, key>>

\* The keys are shared with the tasks of the other replicas.
ClaimedElsewhere(c) ==
    /\ ~key[c]
    /\ Event
    /\ key' = [key EXCEPT ![c] = TRUE]
    /\ UNCHANGED <<upstream, row, score, budget, task, clock>>

\* The key runs out, or its holder in another replica deletes it.
Expire(c) ==
    /\ key[c]
    /\ key' = [key EXCEPT ![c] = FALSE]
    /\ UNCHANGED <<upstream, row, score, budget, task, clock, left>>

\* Mutant: the counter is not reset.
KeepCount == UNCHANGED budget

\* The first consume of a day finds _day changed and resets the counter; only
\* consume looks at it (and a log line).
ResetCount == budget' = 0

Midnight ==
    /\ ~clock.midnight
    /\ clock' = [clock EXCEPT !.midnight = TRUE]
    /\ ResetCount
    /\ UNCHANGED <<upstream, row, score, key, task, left>>

\* A day passes between two runs of the job (IntervalTrigger, 24 hours);
\* tasks last minutes at most.
Day ==
    /\ clock.ran /\ clock.midnight /\ \A t \in Task : task[t].pc = "idle"
    /\ clock' = [ran |-> FALSE, midnight |-> FALSE]
    /\ row' = [c \in Cve |-> [row[c] EXCEPT !.age = IF @ < StaleDays THEN @ + 1 ELSE @]]
    /\ UNCHANGED <<upstream, score, budget, key, task, left>>

\* vulnx learns something of a CVE.
Publish(c) ==
    /\ Event
    /\ upstream' = [upstream EXCEPT ![c] = @ + 1]
    /\ UNCHANGED <<row, score, budget, key, task, clock>>

\* The EPSS and KEV jobs and the ingestion write the other columns a score
\* depends on, and none of them touches the findings.
OtherSignal(c) ==
    /\ Event
    /\ row' = [row EXCEPT ![c].other = @ + 1]
    /\ UNCHANGED <<upstream, score, budget, key, task, clock>>

-----------------------------------------------------------------------------
Work(t) ==
    \/ (\E c \in Cve : Claim(t, c)) \/ AskBatch(t) \/ Answer(t) \/ Store(t) \/ Stamp(t)
    \/ ReadForRecompute(t) \/ Recompute(t) \/ Release(t)

Progress == JobSelect \/ Midnight \/ Day \/ \E t \in Task : Work(t)

Next ==
    \/ Progress \/ Restart
    \/ \E t \in Lazy, shown \in SUBSET Cve : ShowFindings(t, shown)
    \/ \E t \in Intel, c \in Cve : RequestIntel(t, c)
    \/ \E t \in Sync, c \in Cve : SyncReads(t, c)
    \/ \E t \in Task : BatchFails(t) \/ FetchRaises(t) \/ DatabaseFails(t)
    \/ \E c \in Cve : ClaimedElsewhere(c) \/ Expire(c) \/ Publish(c) \/ OtherSignal(c)

\* Time passes, the scheduler runs the job, and tasks run on unless they fail.
\* One condition for all of them is enough: tasks end, and no day passes
\* before they have.  Nobody need ask for anything, no key need expire.
Spec == Init /\ [][Next]_vars /\ WF_vars(Progress)

-----------------------------------------------------------------------------
\* What is stored of a CVE is what vulnx has said of that CVE, and what a
\* finding's score was computed from are signals its own CVE has had: neither
\* batches and answers, nor a plan carried from one connection to another, mix
\* two CVEs up or run ahead of what they are about.
IntelIsItsOwn ==
    \A c \in Cve :
        /\ row[c].flags <= upstream[c]
        /\ score[c][1] <= upstream[c] /\ score[c][2] <= row[c].other

\* However failures, exhausted budgets and CVEs unknown to vulnx interleave,
\* a stale CVE gets its turn: the job's page never fills up with CVEs that
\* come first in its order and never get a new timestamp.
StaleIsRefreshed == \A c \in Cve : row[c].age = StaleDays ~> row[c].age < StaleDays

\* When failures and requests have stopped, the flags of every CVE vulnx knows
\* become and stay what vulnx says, and the stored score of its finding what
\* these flags and the other signals give: a score written late from an older
\* row, flags overwritten by an older answer, or a refresh that computed no
\* score are all made good, and so is a sync that computed it without flags.
ScoresCatchUp ==
    <>[](\A c \in Cve : /\ row[c].flags = upstream[c]
                        /\ upstream[c] # 0 => score[c] = BasisOf(c))
=============================================================================

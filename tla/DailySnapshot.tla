--------------------------- MODULE DailySnapshot ---------------------------
(***************************************************************************)
(* app/workers/daily_snapshot.py and its job in the scheduler: the day's   *)
(* row of exec_snapshots.                                                  *)
(*                                                                         *)
(* The job's queries are statements of their own, without a transaction    *)
(* around them: findings change between them.  The job is due when a       *)
(* replica starts and every 24 hours after; an event loop that is busy, or *)
(* a process that sleeps, starts it late, and APScheduler drops a run that *)
(* is later than its grace time.  It does nothing in a replica whose       *)
(* is_leader flag is not set at that moment, which may be either way in    *)
(* any replica (LeaderElection).  Time is in steps, DaySteps to a day.     *)
(***************************************************************************)
EXTENDS Integers, FiniteSets

CONSTANTS
    Replica,
    Finding,
    HotFinding, KevFinding, \* findings of priority 80 and more, of KEV CVEs
    Mttr,               \* mean days to remediate what is critical
    DaySteps,
    Grace,              \* misfire_grace_time, which the scheduler leaves at its default
    MaxSteps, MaxChanges    \* bounds: the clock, what happens to findings

\* Findings by what the queries tell apart: open (or in review, or planned),
\* open and past the due date, or neither.
Condition == {"open", "overdue", "done"}
NoRow == -1

ASSUME SnapshotAssumption ==
    /\ HotFinding \subseteq Finding /\ KevFinding \subseteq Finding /\ IsFiniteSet(Finding)
    /\ Mttr \subseteq Nat
    /\ DaySteps \in Nat \ {0} /\ Grace \in Nat /\ MaxSteps \in Nat /\ MaxChanges \in Nat

VARIABLES
    clock,
    condition,      \* of every finding
    changes,
    since,          \* per replica: the day it started, -1 when it is down
    due,            \* per replica: next_run_time of its job
    run,            \* per replica: the capture in progress
    missed,         \* the days whose turn came and went without a capture
    rows            \* exec_snapshots: the risk score by captured_on

snapshotVars == <<clock, condition, changes, since, due, run, missed, rows>>

DayOf(t) == t \div DaySteps
Day == DayOf(clock)
LastDay == DayOf(MaxSteps)
Running(n) == run[n].step # "none"
NoRun == [step |-> "none"]

-----------------------------------------------------------------------------
OpenFindings == {f \in Finding : condition[f] # "done"}
Least(a, b) == IF a < b THEN a ELSE b

\* Mutant: the components are not capped.
RiskUncapped(open, hot, kev, breached, mttr) ==
    (IF open = 0 THEN 0 ELSE (40 * hot + 30 * kev + 20 * breached) \div open)
    + Least(mttr, 30) \div 3

\* round(100 * (0.40 .. + 0.30 .. + 0.20 .. + 0.10 ..)), each component at most 1.
risk_score(open, hot, kev, breached, mttr) ==
    LET den == 3 * (IF open = 0 THEN 1 ELSE open)
        num == IF open = 0 THEN Least(mttr, 30)
               ELSE 3 * (40 * Least(hot, open) + 30 * Least(kev, open) + 20 * Least(breached, open))
                    + open * Least(mttr, 30)
        floor == num \div den
        rest == 2 * (num % den)
    IN  IF rest > den \/ (rest = den /\ floor % 2 = 1) THEN floor + 1 ELSE floor

-----------------------------------------------------------------------------
SnapshotInit ==
    /\ clock = 0
    /\ condition = [f \in Finding |-> "overdue"]
    /\ changes = 0
    /\ since = [n \in Replica |-> -1]
    /\ due = [n \in Replica |-> 0]
    /\ run = [n \in Replica |-> NoRun]
    /\ missed = {}
    /\ rows = [d \in 0..LastDay |-> NoRow]

\* create_scheduler: next_run_time is the time of the start.
Start(n) ==
    /\ since[n] = -1
    /\ since' = [since EXCEPT ![n] = Day]
    /\ due' = [due EXCEPT ![n] = clock]
    /\ missed' = {m \in missed : m[1] # n}
    /\ UNCHANGED <<clock, condition, changes, run, rows>>

\* The process ends, with what it was doing.
Stop(n) ==
    /\ since[n] # -1
    /\ since' = [since EXCEPT ![n] = -1]
    /\ run' = [run EXCEPT ![n] = NoRun]
    /\ UNCHANGED <<clock, condition, changes, due, missed, rows>>

\* The scheduler finds the job due; of several turns that have gone by, the
\* last one stands for all (coalesce).  The run is dropped if its turn is more
\* than Grace ago or the last capture has not ended, and a replica that is not
\* the leader returns at once; else today is the day the coroutine starts on,
\* be it the day after its turn.
Fire(n, is_leader) ==
    LET late == (clock - due[n]) % DaySteps
        captures == is_leader /\ ~Running(n) /\ late <= Grace
    IN  /\ since[n] # -1 /\ due[n] <= clock
        /\ due' = [due EXCEPT ![n] = clock - late + DaySteps]
        /\ run' = IF captures THEN [run EXCEPT ![n] = [step |-> "findings", today |-> Day]]
                  ELSE run
        /\ missed' = missed \cup
               {<<n, d>> : d \in (DayOf(due[n])..DayOf(clock - late))
                                 \ (IF captures THEN {Day} ELSE {})}
        /\ UNCHANGED <<clock, condition, changes, since, rows>>

\* finding_row.
ReadFindings(n) ==
    /\ run[n].step = "findings"
    /\ run' = [run EXCEPT ![n] = [step |-> "signals", today |-> run[n].today,
                  breached |-> Cardinality({f \in Finding : condition[f] = "overdue"})]]
    /\ UNCHANGED <<clock, condition, changes, since, due, missed, rows>>

\* finding_signal_row, the mean time to remediate and the score.
ReadSignals(n) ==
    /\ run[n].step = "signals"
    /\ \E mttr \in Mttr :
        run' = [run EXCEPT ![n] = [step |-> "write", today |-> run[n].today,
                   score |-> risk_score(Cardinality(OpenFindings),
                                        Cardinality(OpenFindings \cap HotFinding),
                                        Cardinality(OpenFindings \cap KevFinding),
                                        run[n].breached, mttr)]]
    /\ UNCHANGED <<clock, condition, changes, since, due, missed, rows>>

\* INSERT .. ON CONFLICT (captured_on) DO UPDATE.
InsertSnapshot(day, score) == rows' = [rows EXCEPT ![day] = score]

\* Mutant: the row is labelled with the day it is written on.
WriteToday(n) ==
    /\ run[n].step = "write"
    /\ InsertSnapshot(Day, run[n].score)
    /\ run' = [run EXCEPT ![n] = NoRun]
    /\ UNCHANGED <<clock, condition, changes, since, due, missed>>

\* The last connection of the job: one statement.
Write(n) ==
    /\ run[n].step = "write"
    /\ InsertSnapshot(run[n].today, run[n].score)
    /\ run' = [run EXCEPT ![n] = NoRun]
    /\ UNCHANGED <<clock, condition, changes, since, due, missed>>

\* A statement fails: the job logs it and waits for its next turn.
CaptureFails(n) ==
    /\ Running(n)
    /\ missed' = missed \cup {<<n, run[n].today>>}
    /\ run' = [run EXCEPT ![n] = NoRun]
    /\ UNCHANGED <<clock, condition, changes, since, due, rows>>

\* Findings are worked on, reopened or become overdue meanwhile.
Change(f, c) ==
    /\ changes < MaxChanges /\ condition[f] # c
    /\ condition' = [condition EXCEPT ![f] = c]
    /\ changes' = changes + 1
    /\ UNCHANGED <<clock, since, due, run, missed, rows>>

\* Time passes, also while a job is due.
SnapshotTick ==
    /\ clock < MaxSteps
    /\ clock' = clock + 1
    /\ UNCHANGED <<condition, changes, since, due, run, missed, rows>>

SnapshotNext ==
    \/ \E n \in Replica : \/ Start(n) \/ Stop(n) \/ \E flag \in BOOLEAN : Fire(n, flag)
                          \/ ReadFindings(n) \/ ReadSignals(n) \/ Write(n) \/ CaptureFails(n)
    \/ \E f \in Finding, c \in Condition : Change(f, c)
    \/ SnapshotTick

SnapshotSpec == SnapshotInit /\ [][SnapshotNext]_snapshotVars

-----------------------------------------------------------------------------
\* Every score on the trend line is between 0 and 100, though the counts it is
\* made of were read at different moments and need not fit together.
RiskScoreIsAPercentage ==
    \A d \in DOMAIN rows : rows[d] # NoRow => rows[d] \in 0..100

\* "the trend line has continuous data": in a replica that stays up, every day
\* that is over has its row, or its capture is still at work (past midnight it
\* keeps the day it began on), or its turn is still to come, the loop being
\* that late, or its turn went by for a reason: the replica was not the leader,
\* was busy, failed, or came more than Grace too late or on the next day.
NoUnexplainedGap ==
    \A n \in Replica : since[n] # -1 =>
        \A d \in since[n]..(Day - 1) :
            \/ rows[d] # NoRow
            \/ Running(n) /\ run[n].today = d
            \/ DayOf(due[n]) <= d
            \/ <<n, d>> \in missed
=============================================================================

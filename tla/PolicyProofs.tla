---------------------------- MODULE PolicyProofs ----------------------------
(***************************************************************************)
(* Proofs about the components that decide without tables of their own:    *)
(* CircuitBreaker (whether a provider is called), VersionMatcher (whether  *)
(* a CVE affects a version), Scoring (how urgent it is and until when),    *)
(* DailySnapshot (what the day's row says) and LeaderElection (in which    *)
(* process the jobs run).  They have no name in common, so one module can  *)
(* extend them all; Spec, Init and Next are the breaker's, the others'     *)
(* have prefixes.                                                          *)
(***************************************************************************)
EXTENDS CircuitBreaker, VersionMatcher, Scoring, DailySnapshot, LeaderElection,
        FiniteSetTheorems, WellFoundedInduction, TLAPS

-----------------------------------------------------------------------------
(***************************************************************************)
(* The circuit breaker, for any number of callers, any threshold and any   *)
(* recovery time.                                                          *)
(***************************************************************************)

BreakerInv == TypeOK /\ ClosedBelowThreshold

\* Every step of a coroutine keeps the invariant.  OnSuccess leaves an open
\* breaker alone, so the count it left at the threshold stays there.
LEMMA BreakerStep ==
    ASSUME BreakerInv, NEW c \in Caller, Step(c)
    PROVE  BreakerInv'
<1> USE BreakerAssumption DEF BreakerInv, TypeOK, ClosedBelowThreshold
<1>1. CASE Look(c) \/ TurnAway(c)
  BY <1>1 DEF Look, TurnAway
<1>2. CASE Reject(c)
  BY <1>2 DEF Reject
<1>3. CASE Admit(c)
  BY <1>3 DEF Admit
<1>4. CASE Succeed(c)
  BY <1>4 DEF Succeed, OnSuccess
<1>5. CASE Fail(c)
  BY <1>5 DEF Fail, OnFailure, Count
<1> QED
  BY <1>1, <1>2, <1>3, <1>4, <1>5 DEF Step

\* The inductive invariant holds in every reachable state.
THEOREM BreakerInvariant == Spec => []BreakerInv
<1>1. Init => BreakerInv
  BY BreakerAssumption DEF Init, BreakerInv, TypeOK, ClosedBelowThreshold
<1>2. BreakerInv /\ [Next]_vars => BreakerInv'
  <2> SUFFICES ASSUME BreakerInv, [Next]_vars PROVE BreakerInv'
    OBVIOUS
  <2>1. CASE Provider
    BY <2>1 DEF Provider, BreakerInv, TypeOK, ClosedBelowThreshold
  <2>2. CASE Tick
    BY <2>2, BreakerAssumption DEF Tick, BreakerInv, TypeOK, ClosedBelowThreshold
  <2>3. ASSUME NEW c \in Caller, Step(c) PROVE BreakerInv'
    BY <2>3, BreakerStep
  <2>4. CASE UNCHANGED vars
    BY <2>4 DEF vars, BreakerInv, TypeOK, ClosedBelowThreshold
  <2> QED
    BY <2>1, <2>2, <2>3, <2>4 DEF Next
<1> QED
  BY <1>1, <1>2, PTL DEF Spec

\* Every variable keeps its type: the count stops at the threshold and
\* _open_until is never further away than recovery_timeout.
THEOREM BreakerTypes == Spec => []TypeOK
<1>1. BreakerInv => TypeOK
  BY DEF BreakerInv
<1> QED
  BY <1>1, BreakerInvariant, PTL

\* The breaker is closed exactly while its count is below the threshold.
THEOREM CountDecidesState == Spec => []ClosedBelowThreshold
<1>1. BreakerInv => ClosedBelowThreshold
  BY DEF BreakerInv
<1> QED
  BY <1>1, BreakerInvariant, PTL

\* An open breaker is left only by a probe after recovery_timeout.
THEOREM OpenUntilRecovery == Spec => OpenLastsRecovery
<1> DEFINE Lasts == state = "open" /\ state' # "open" => wait = 0 /\ state' = "half_open"
<1>1. BreakerInv /\ [Next]_vars => [Lasts]_vars
  <2> SUFFICES ASSUME BreakerInv, [Next]_vars PROVE Lasts \/ UNCHANGED vars
    OBVIOUS
  <2>1. CASE Provider \/ Tick
    BY <2>1 DEF Provider, Tick
  <2>2. ASSUME NEW c \in Caller, Step(c) PROVE Lasts
    <3>1. CASE Admit(c)
      BY <3>1 DEF Admit, BreakerInv, TypeOK
    <3>2. CASE Look(c) \/ TurnAway(c) \/ Reject(c) \/ Succeed(c)
      BY <3>2 DEF Look, TurnAway, Reject, Succeed, OnSuccess
    <3>3. CASE Fail(c)
      BY <3>3, BreakerAssumption DEF Fail, OnFailure, Count, BreakerInv, TypeOK, ClosedBelowThreshold
    <3> QED
      BY <2>2, <3>1, <3>2, <3>3 DEF Step
  <2> QED
    BY <2>1, <2>2 DEF Next
<1> QED
  BY <1>1, BreakerInvariant, PTL DEF Spec, OpenLastsRecovery

-----------------------------------------------------------------------------
(***************************************************************************)
(* The daily snapshot, for any number of replicas and findings, any length *)
(* of a day and any grace time.                                            *)
(***************************************************************************)

Capture ==
    {NoRun}
    \cup [step : {"findings"}, today : 0..LastDay]
    \cup [step : {"signals"}, today : 0..LastDay, breached : Nat]
    \cup [step : {"write"}, today : 0..LastDay, score : 0..100]

SnapshotTypes ==
    /\ clock \in 0..MaxSteps
    /\ since \in [Replica -> Int] /\ due \in [Replica -> Nat]
    /\ run \in [Replica -> Capture]
    /\ rows \in [0..LastDay -> {NoRow} \cup 0..100]

\* A day that replica n has nothing to answer for.
Settles(n, d) == rows[d] # NoRow \/ <<n, d>> \in missed \/ (Running(n) /\ run[n].today = d)

\* Every day before that of the next turn is settled: a claim about the days
\* up to the clock would not carry over midnight, up to the next turn it does.
SettledUpToTurn ==
    \A n \in Replica : since[n] # -1 =>
        \A d \in since[n]..(DayOf(due[n]) - 1) : Settles(n, d)

SnapshotInv == SnapshotTypes /\ SettledUpToTurn

\* Days by integer division: they do not run backwards, DaySteps steps make
\* one, and the clock stays within the days the table has.
LEMMA DayFacts ==
    ASSUME NEW t \in Nat
    PROVE  /\ DayOf(t) \in Nat
           /\ DayOf(t + DaySteps) = DayOf(t) + 1
           /\ \A u \in Nat : t <= u => DayOf(t) <= DayOf(u)
           /\ t <= MaxSteps => DayOf(t) \in 0..LastDay
<1>1. DaySteps \in Nat /\ DaySteps > 0 /\ MaxSteps \in Nat
  BY SnapshotAssumption
<1>2. DayOf(t) \in Nat /\ DayOf(t + DaySteps) = DayOf(t) + 1
  BY <1>1 DEF DayOf
<1>3. \A u \in Nat : t <= u => DayOf(t) <= DayOf(u)
  BY <1>1 DEF DayOf
<1>4. LastDay = DayOf(MaxSteps) /\ LastDay \in Nat
  BY <1>1 DEF DayOf, LastDay
<1> QED
  BY <1>1, <1>2, <1>3, <1>4

\* The turn that a firing stands for lies between the one that was due and now.
LEMMA TurnFacts ==
    ASSUME NEW now \in Nat, NEW first \in Nat, first <= now
    PROVE  LET turn == now - ((now - first) % DaySteps)
           IN  turn \in Nat /\ first <= turn /\ turn <= now
<1>1. DaySteps \in Nat /\ DaySteps > 0
  BY SnapshotAssumption
<1> DEFINE gap == now - first
           q == gap \div DaySteps
           late == gap % DaySteps
<1>2. gap \in Nat
  OBVIOUS
<1>3. q \in Nat /\ late \in Nat /\ gap = (DaySteps * q) + late /\ late <= gap
  <2> HIDE DEF gap
  <2> QED
    BY <1>1, <1>2, SMT
<1>4. now - late \in Nat /\ first <= now - late /\ now - late <= now
  <2> HIDE DEF q, late
  <2> QED
    BY <1>3
<1> QED
  BY <1>4

\* A fraction of at most 100, rounded half to even, is at most 100.
LEMMA RoundedPercentage ==
    ASSUME NEW num \in Nat, NEW den \in Nat, den > 0, num <= 100 * den
    PROVE  (IF 2 * (num % den) > den \/ (2 * (num % den) = den /\ (num \div den) % 2 = 1)
            THEN (num \div den) + 1 ELSE num \div den) \in 0..100
<1> DEFINE q == num \div den
           r == num % den
<1>1. q \in Nat /\ r \in Nat /\ r < den /\ num = (den * q) + r
  BY SMT
<1>2. 0 <= q /\ q <= 100 /\ (q = 100 => r = 0)
  <2> HIDE DEF q, r
  <2> QED
    BY <1>1, SMT
<1> HIDE DEF q, r
<1>3. (IF 2 * r > den \/ (2 * r = den /\ q % 2 = 1) THEN q + 1 ELSE q) \in 0..100
  <2>1. CASE q = 100
    <3>1. r = 0
      BY <1>2, <2>1
    <3>2. ~(2 * r > den) /\ ~(2 * r = den)
      BY <3>1
    <3> QED
      BY <2>1, <3>2
  <2>2. CASE q # 100
    BY <1>1, <1>2, <2>2
  <2> QED
    BY <2>1, <2>2
<1> QED
  BY <1>3 DEF q, r

\* Each component of the score is capped, so whatever counts the queries
\* returned, fitting together or not, the score is a percentage.
LEMMA RiskIsAPercentage ==
    ASSUME NEW open \in Nat, NEW hot \in Nat, NEW kev \in Nat, NEW breached \in Nat, NEW mttr \in Nat
    PROVE  risk_score(open, hot, kev, breached, mttr) \in 0..100
<1> DEFINE den == 3 * (IF open = 0 THEN 1 ELSE open)
           num == IF open = 0 THEN Least(mttr, 30)
                  ELSE 3 * (40 * Least(hot, open) + 30 * Least(kev, open) + 20 * Least(breached, open))
                       + open * Least(mttr, 30)
<1>1. den \in Nat /\ den > 0
  OBVIOUS
<1>2. num \in Nat /\ num <= 100 * den
  <2>1. CASE open = 0
    BY <2>1 DEF Least
  <2>2. CASE open # 0
    <3> DEFINE h == Least(hot, open)
               k == Least(kev, open)
               b == Least(breached, open)
               m == Least(mttr, 30)
    <3>1. h \in 0..open /\ k \in 0..open /\ b \in 0..open /\ m \in 0..30
      BY DEF Least
    <3> HIDE DEF h, k, b, m
    <3>2. open * m \in Nat /\ open * m <= 30 * open
      BY <3>1, SMT
    <3> DEFINE om == open * m
    <3>3. om \in Nat /\ om <= 30 * open
      BY <3>2
    <3>4. num = 3 * (40 * h + 30 * k + 20 * b) + om
      BY <2>2 DEF h, k, b, m
    <3>5. den = 3 * open
      BY <2>2
    <3> HIDE DEF om, num, den
    <3> QED
      BY <3>1, <3>3, <3>4, <3>5
  <2> QED
    BY <2>1, <2>2
<1>3. risk_score(open, hot, kev, breached, mttr)
      = IF 2 * (num % den) > den \/ (2 * (num % den) = den /\ (num \div den) % 2 = 1)
        THEN (num \div den) + 1 ELSE num \div den
  BY Zenon DEF risk_score
<1> HIDE DEF num, den
<1> QED
  BY <1>1, <1>2, <1>3, RoundedPercentage

\* What a capture carries at each of its steps.
LEMMA CaptureFields ==
    ASSUME NEW c \in Capture
    PROVE  /\ c.step # "none" => c.today \in 0..LastDay
           /\ c.step = "signals" => c.breached \in Nat
           /\ c.step = "write" => c.score \in 0..100
<1>1. CASE c = NoRun
  BY <1>1 DEF NoRun
<1>2. CASE c \in [step : {"findings"}, today : 0..LastDay]
  BY <1>2
<1>3. CASE c \in [step : {"signals"}, today : 0..LastDay, breached : Nat]
  BY <1>3
<1>4. CASE c \in [step : {"write"}, today : 0..LastDay, score : 0..100]
  BY <1>4
<1> QED
  BY <1>1, <1>2, <1>3, <1>4 DEF Capture

\* The types: what the findings counted are finite sets, and the capture keeps
\* a day of the table and a score that is a percentage.
LEMMA SnapshotTypesStep ==
    ASSUME SnapshotTypes, SnapshotNext
    PROVE  SnapshotTypes'
<1>1. /\ clock \in Nat /\ clock <= MaxSteps /\ MaxSteps \in Nat /\ DaySteps \in Nat /\ DaySteps > 0
      /\ since \in [Replica -> Int] /\ due \in [Replica -> Nat] /\ run \in [Replica -> Capture]
      /\ rows \in [0..LastDay -> {NoRow} \cup 0..100]
  BY SnapshotAssumption DEF SnapshotTypes
<1>2. Day \in 0..LastDay /\ Day \in Int
  BY <1>1, DayFacts DEF Day, DayOf
<1>3. NoRun \in Capture
  BY DEF Capture
<1>4. ASSUME NEW S, S \subseteq Finding PROVE Cardinality(S) \in Nat
  BY <1>4, SnapshotAssumption, FS_Subset, FS_CardinalityType
<1> USE DEF SnapshotTypes
<1>5. ASSUME NEW n \in Replica, Start(n) PROVE SnapshotTypes'
  BY <1>5, <1>1, <1>2 DEF Start
<1>6. ASSUME NEW n \in Replica, Stop(n) PROVE SnapshotTypes'
  BY <1>6, <1>1, <1>3 DEF Stop
<1>7. ASSUME NEW n \in Replica, NEW flag \in BOOLEAN, Fire(n, flag) PROVE SnapshotTypes'
  <2>1. [step |-> "findings", today |-> Day] \in Capture
    BY <1>2 DEF Capture
  <2> DEFINE turn == clock - ((clock - due[n]) % DaySteps)
  <2>2. turn + DaySteps \in Nat
    <3>1. due[n] \in Nat /\ due[n] <= clock
      BY <1>7, <1>1 DEF Fire
    <3>2. turn \in Nat
      BY <1>1, <3>1, TurnFacts
    <3> QED
      BY <1>1, <3>2
  <2>3. due' = [due EXCEPT ![n] = turn + DaySteps]
    BY <1>7 DEF Fire
  <2> HIDE DEF turn
  <2>4. \/ run' = run
        \/ run' = [run EXCEPT ![n] = [step |-> "findings", today |-> Day]]
    BY <1>7 DEF Fire
  <2>5. UNCHANGED <<clock, since, rows>>
    BY <1>7 DEF Fire
  <2> QED
    BY <1>1, <2>1, <2>2, <2>3, <2>4, <2>5
<1>8. ASSUME NEW n \in Replica, ReadFindings(n) PROVE SnapshotTypes'
  <2> DEFINE late == Cardinality({f \in Finding : condition[f] = "overdue"})
  <2>1. run[n].today \in 0..LastDay
    BY <1>1, <1>8, CaptureFields DEF ReadFindings
  <2>2. late \in Nat
    BY <1>4
  <2> HIDE DEF late
  <2>3. [step |-> "signals", today |-> run[n].today, breached |-> late] \in Capture
    BY <2>1, <2>2 DEF Capture
  <2>4. run' = [run EXCEPT ![n] = [step |-> "signals", today |-> run[n].today, breached |-> late]]
    BY <1>8 DEF ReadFindings, late
  <2> QED
    BY <1>8, <1>1, <2>3, <2>4 DEF ReadFindings
<1>9. ASSUME NEW n \in Replica, ReadSignals(n) PROVE SnapshotTypes'
  <2>1. run[n].today \in 0..LastDay /\ run[n].breached \in Nat
    BY <1>1, <1>9, CaptureFields DEF ReadSignals
  <2> DEFINE open == Cardinality(OpenFindings)
             hot == Cardinality(OpenFindings \cap HotFinding)
             kev == Cardinality(OpenFindings \cap KevFinding)
  <2>2. open \in Nat /\ hot \in Nat /\ kev \in Nat
    BY <1>4 DEF OpenFindings
  <2>3. PICK mttr \in Mttr :
          run' = [run EXCEPT ![n] = [step |-> "write", today |-> run[n].today,
                     score |-> risk_score(open, hot, kev, run[n].breached, mttr)]]
    BY <1>9, Zenon DEF ReadSignals
  <2>4. mttr \in Nat
    BY SnapshotAssumption
  <2> HIDE DEF open, hot, kev
  <2> DEFINE score == risk_score(open, hot, kev, run[n].breached, mttr)
  <2>5. score \in 0..100
    BY <2>1, <2>2, <2>4, RiskIsAPercentage
  <2>6. run' = [run EXCEPT ![n] = [step |-> "write", today |-> run[n].today, score |-> score]]
    BY <2>3
  <2> HIDE DEF score
  <2>7. [step |-> "write", today |-> run[n].today, score |-> score] \in Capture
    BY <2>1, <2>5 DEF Capture
  <2> QED
    BY <1>9, <1>1, <2>6, <2>7 DEF ReadSignals
<1>10. ASSUME NEW n \in Replica, Write(n) PROVE SnapshotTypes'
  <2>1. run[n].today \in 0..LastDay /\ run[n].score \in 0..100
    BY <1>1, <1>10, CaptureFields DEF Write
  <2> QED
    BY <1>10, <1>1, <1>3, <2>1 DEF Write, InsertSnapshot
<1>11. ASSUME NEW n \in Replica, CaptureFails(n) PROVE SnapshotTypes'
  BY <1>11, <1>1, <1>3 DEF CaptureFails
<1>12. ASSUME NEW f \in Finding, NEW c \in Condition, Change(f, c) PROVE SnapshotTypes'
  BY <1>12 DEF Change
<1>13. CASE SnapshotTick
  BY <1>13, <1>1 DEF SnapshotTick
<1> QED
  BY <1>5, <1>6, <1>7, <1>8, <1>9, <1>10, <1>11, <1>12, <1>13 DEF SnapshotNext

\* Once settled, a day stays settled while the replica stays up: a capture that
\* ends has written its row or is on record as missed.
LEMMA SettledStays ==
    ASSUME SnapshotTypes, SnapshotNext, NEW n \in Replica, since[n] # -1, since'[n] # -1,
           NEW d \in Int, Settles(n, d)
    PROVE  Settles(n, d)'
<1>1. run \in [Replica -> Capture] /\ rows \in [0..LastDay -> {NoRow} \cup 0..100]
      /\ since \in [Replica -> Int]
  BY DEF SnapshotTypes
<1> USE DEF Settles, Running
<1>2. ASSUME NEW m \in Replica, Start(m) PROVE Settles(n, d)'
  BY <1>1, <1>2 DEF Start
<1>3. ASSUME NEW m \in Replica, Stop(m) PROVE Settles(n, d)'
  BY <1>1, <1>3 DEF Stop
<1>4. ASSUME NEW m \in Replica, NEW flag \in BOOLEAN, Fire(m, flag) PROVE Settles(n, d)'
  <2>1. /\ rows' = rows /\ missed \subseteq missed'
        /\ run' = run \/ (~Running(m) /\ \E c : run' = [run EXCEPT ![m] = c])
    BY <1>4 DEF Fire
  <2> QED
    BY <1>1, <2>1
<1>5. ASSUME NEW m \in Replica, ReadFindings(m) PROVE Settles(n, d)'
  BY <1>1, <1>5 DEF ReadFindings
<1>6. ASSUME NEW m \in Replica, ReadSignals(m) PROVE Settles(n, d)'
  BY <1>1, <1>6 DEF ReadSignals
<1>7. ASSUME NEW m \in Replica, Write(m) PROVE Settles(n, d)'
  <2>1. run[m].today \in 0..LastDay /\ run[m].score \in 0..100
    BY <1>1, <1>7, CaptureFields DEF Write
  <2>2. rows' = [rows EXCEPT ![run[m].today] = run[m].score]
    BY <1>7 DEF Write, InsertSnapshot
  <2>3. rows'[run[m].today] # NoRow
    <3>1. rows'[run[m].today] = run[m].score
      BY <1>1, <2>1, <2>2
    <3> QED
      BY <2>1, <3>1 DEF NoRow
  <2>4. rows[d] # NoRow => rows'[d] # NoRow
    BY <1>1, <2>2, <2>3
  <2>5. missed' = missed /\ run' = [run EXCEPT ![m] = NoRun]
    BY <1>7 DEF Write
  <2> QED
    BY <1>1, <2>3, <2>4, <2>5
<1>8. ASSUME NEW m \in Replica, CaptureFails(m) PROVE Settles(n, d)'
  BY <1>1, <1>8 DEF CaptureFails
<1>9. ASSUME NEW f \in Finding, NEW c \in Condition, Change(f, c) PROVE Settles(n, d)'
  BY <1>9 DEF Change
<1>10. CASE SnapshotTick
  BY <1>10 DEF SnapshotTick
<1> QED
  BY <1>2, <1>3, <1>4, <1>5, <1>6, <1>7, <1>8, <1>9, <1>10 DEF SnapshotNext

\* A turn settles its day and those of the turns it stands for; every earlier
\* day was settled.
LEMMA SettledStep ==
    ASSUME SnapshotInv, SnapshotNext
    PROVE  SettledUpToTurn'
<1> SUFFICES ASSUME NEW n \in Replica, since'[n] # -1, NEW d \in (since[n]..(DayOf(due[n]) - 1))'
             PROVE  Settles(n, d)'
  BY DEF SettledUpToTurn
<1>1. /\ SnapshotTypes /\ SettledUpToTurn
      /\ clock \in Nat /\ DaySteps \in Nat /\ DaySteps > 0
      /\ since \in [Replica -> Int] /\ due \in [Replica -> Nat] /\ run \in [Replica -> Capture]
  BY SnapshotAssumption DEF SnapshotInv, SnapshotTypes
<1>2. Day \in Nat /\ Day = DayOf(clock) /\ DayOf(clock + DaySteps) = Day + 1
  BY <1>1, DayFacts DEF Day, DayOf
<1>3. d \in Int /\ since'[n] <= d /\ d <= DayOf(due'[n]) - 1
  <2>1. SnapshotTypes'
    BY <1>1, SnapshotTypesStep
  <2>2. since'[n] \in Int /\ due'[n] \in Nat
    BY <2>1 DEF SnapshotTypes
  <2>3. DayOf(due'[n]) \in Nat
    BY <2>2, DayFacts
  <2>4. d \in since'[n]..(DayOf(due'[n]) - 1)
    BY DEF DayOf
  <2> QED
    BY <2>2, <2>3, <2>4
<1>4. CASE since[n] = since'[n] /\ due[n] = due'[n]
  <2>1. Settles(n, d)
    BY <1>1, <1>3, <1>4 DEF SettledUpToTurn
  <2> QED
    BY <1>1, <1>3, <1>4, <2>1, SettledStays
<1>5. CASE Start(n)
  <2>1. since'[n] = Day /\ due'[n] = clock
    BY <1>1, <1>5 DEF Start
  <2> QED
    BY <1>2, <1>3, <2>1
<1>6. ASSUME NEW flag \in BOOLEAN, Fire(n, flag) PROVE Settles(n, d)'
  <2> DEFINE late == (clock - due[n]) % DaySteps
             turn == clock - late
             captures == flag /\ ~Running(n) /\ late <= Grace
  <2>1. /\ since'[n] = since[n] /\ since[n] # -1 /\ due[n] <= clock
        /\ due'[n] = turn + DaySteps
    BY <1>1, <1>6 DEF Fire
  <2>2. captures => run' = [run EXCEPT ![n] = [step |-> "findings", today |-> Day]]
    BY <1>6 DEF Fire
  <2>3. missed' = missed \cup {<<n, e>> : e \in (DayOf(due[n])..DayOf(turn))
                                               \ (IF captures THEN {Day} ELSE {})}
    BY <1>6 DEF Fire
  <2>4. due[n] \in Nat /\ turn \in Nat
    BY <1>1, <2>1, TurnFacts
  <2> HIDE DEF late, turn, captures
  <2>5. DayOf(due[n]) \in Nat /\ DayOf(turn) \in Nat /\ DayOf(turn + DaySteps) = DayOf(turn) + 1
    BY <2>4, DayFacts
  <2>6. since[n] <= d /\ d <= DayOf(turn) /\ since[n] \in Int
    BY <1>1, <1>3, <2>1, <2>5
  <2>7. CASE d < DayOf(due[n])
    <3>1. Settles(n, d)
      BY <1>1, <1>3, <2>1, <2>5, <2>6, <2>7 DEF SettledUpToTurn
    <3> QED
      BY <1>1, <1>3, <2>1, <3>1, SettledStays
  <2>8. CASE d >= DayOf(due[n]) /\ captures /\ d = Day
    <3>1. run'[n].step = "findings" /\ run'[n].today = d
      BY <1>1, <2>2, <2>8
    <3> QED
      BY <3>1 DEF Settles, Running
  <2>9. CASE d >= DayOf(due[n]) /\ ~(captures /\ d = Day)
    <3>1. d \in (DayOf(due[n])..DayOf(turn)) \ (IF captures THEN {Day} ELSE {})
      BY <1>3, <2>5, <2>6, <2>9
    <3>2. <<n, d>> \in missed'
      BY <2>3, <3>1
    <3> QED
      BY <3>2 DEF Settles
  <2> QED
    BY <1>3, <2>5, <2>7, <2>8, <2>9
<1>7. CASE Stop(n)
  BY <1>1, <1>7 DEF Stop
<1>8. ASSUME NEW m \in Replica, m # n, Start(m) \/ Stop(m) \/ \E flag \in BOOLEAN : Fire(m, flag)
      PROVE  Settles(n, d)'
  <2>1. since[n] = since'[n] /\ due[n] = due'[n]
    BY <1>1, <1>8 DEF Start, Stop, Fire
  <2> QED
    BY <1>4, <2>1
<1>9. ASSUME NEW m \in Replica, ReadFindings(m) \/ ReadSignals(m) \/ Write(m) \/ CaptureFails(m)
      PROVE  Settles(n, d)'
  <2>1. since[n] = since'[n] /\ due[n] = due'[n]
    BY <1>9 DEF ReadFindings, ReadSignals, Write, CaptureFails
  <2> QED
    BY <1>4, <2>1
<1>10. ASSUME NEW f \in Finding, NEW c \in Condition, Change(f, c) PROVE Settles(n, d)'
  <2>1. since[n] = since'[n] /\ due[n] = due'[n]
    BY <1>10 DEF Change
  <2> QED
    BY <1>4, <2>1
<1>11. CASE SnapshotTick
  <2>1. since[n] = since'[n] /\ due[n] = due'[n]
    BY <1>11 DEF SnapshotTick
  <2> QED
    BY <1>4, <2>1
<1> QED
  BY <1>5, <1>6, <1>7, <1>8, <1>9, <1>10, <1>11 DEF SnapshotNext

\* The inductive invariant of the daily snapshot.
THEOREM SnapshotInvariant == SnapshotSpec => []SnapshotInv
<1>1. SnapshotInit => SnapshotInv
  <2> SUFFICES ASSUME SnapshotInit PROVE SnapshotInv
    OBVIOUS
  <2>1. MaxSteps \in Nat /\ NoRun \in Capture
    BY SnapshotAssumption DEF Capture
  <2>2. SnapshotTypes
    BY <2>1 DEF SnapshotInit, SnapshotTypes
  <2>3. SettledUpToTurn
    BY DEF SnapshotInit, SettledUpToTurn
  <2> QED
    BY <2>2, <2>3 DEF SnapshotInv
<1>2. SnapshotInv /\ [SnapshotNext]_snapshotVars => SnapshotInv'
  <2> SUFFICES ASSUME SnapshotInv, [SnapshotNext]_snapshotVars PROVE SnapshotInv'
    OBVIOUS
  <2>1. CASE SnapshotNext
    BY <2>1, SnapshotTypesStep, SettledStep DEF SnapshotInv
  <2>2. CASE UNCHANGED snapshotVars
    BY <2>2 DEF snapshotVars, SnapshotInv, SnapshotTypes, SettledUpToTurn, Settles, Running
  <2> QED
    BY <2>1, <2>2
<1> QED
  BY <1>1, <1>2, PTL DEF SnapshotSpec

\* compute_risk_score never leaves 0..100, whatever the findings did between
\* the queries its counts come from.
THEOREM ScoreIsAPercentage == SnapshotSpec => []RiskScoreIsAPercentage
<1>1. SnapshotInv => RiskScoreIsAPercentage
  BY DEF SnapshotInv, SnapshotTypes, RiskScoreIsAPercentage
<1> QED
  BY <1>1, SnapshotInvariant, PTL

\* In a replica that stays up, no day goes by without a row unless its turn
\* went by without a capture of that day: however late the loop is, however
\* many turns are dropped or merged and however long a capture runs, the trigger
\* skips no day of its own accord, and no row is written for another day.
THEOREM TrendGapsAreExplained == SnapshotSpec => []NoUnexplainedGap
<1>1. SnapshotInv => NoUnexplainedGap
  <2> SUFFICES ASSUME SnapshotInv, NEW n \in Replica, since[n] # -1, NEW d \in since[n]..(Day - 1),
                      ~(DayOf(due[n]) <= d)
               PROVE  Settles(n, d)
    BY DEF NoUnexplainedGap, Settles
  <2>1. clock \in Nat /\ since[n] \in Int /\ due[n] \in Nat
    BY SnapshotAssumption DEF SnapshotInv, SnapshotTypes
  <2>2. Day \in Nat /\ DayOf(due[n]) \in Nat
    BY <2>1, DayFacts DEF Day
  <2>3. d \in since[n]..(DayOf(due[n]) - 1)
    BY <2>1, <2>2
  <2> QED
    BY <2>3 DEF SnapshotInv, SettledUpToTurn
<1> QED
  BY <1>1, SnapshotInvariant, PTL

-----------------------------------------------------------------------------
(***************************************************************************)
(* The version matcher, for any parts and any number of them.              *)
(***************************************************************************)

ParsedComponent == [n : Int, type : 0..2, text : Nat]

\* The positions at which zero-padded versions have a component.
Position == Nat \ {0}

LEMMA ComponentType ==
    ASSUME NEW v \in Versions, NEW i \in Position
    PROVE  Component(v, i) \in ParsedComponent
<1>1. Zero \in ParsedComponent
  BY DEF Zero, ParsedComponent
<1>2. ASSUME NEW q \in Part PROVE ParseComponent(q) \in ParsedComponent
  <2>1. q.num \in Int /\ q.rank \in Nat
    BY MatcherAssumption
  <2>2. CASE q.rest = "-letter"
    BY <2>1, <2>2 DEF ParseComponent, ParsedComponent
  <2>3. CASE q.rest = "letter"
    <3>1. ParseComponent(q) = [n |-> q.num, type |-> 2, text |-> q.rank]
      BY <2>1, <2>3 DEF ParseComponent
    <3> QED
      BY <2>1, <3>1 DEF ParsedComponent
  <2>4. CASE q.rest = ""
    <3>1. ParseComponent(q) = [n |-> q.num, type |-> 1, text |-> 0]
      BY <2>1, <2>4 DEF ParseComponent
    <3> QED
      BY <2>1, <3>1 DEF ParsedComponent
  <2>5. CASE q.rest = "other"
    <3>1. ParseComponent(q) = [n |-> 0, type |-> 0, text |-> q.rank]
      BY <2>5 DEF ParseComponent
    <3> QED
      BY <2>1, <3>1 DEF ParsedComponent
  <2> QED
    BY <2>2, <2>3, <2>4, <2>5, MatcherAssumption
<1>3. PICK m \in 1..Depth : v \in {Version(q) : q \in [1..m -> Part]}
  BY DEF Versions
<1>4. PICK q \in [1..m -> Part] : v = Version(q)
  BY <1>3
<1>5. v.parts = q /\ m \in Nat
  <2>1. Depth \in Nat
    BY MatcherAssumption
  <2>2. v.parts = q
    BY <1>4 DEF Version
  <2> QED
    BY <2>1, <2>2
<1>6. Len(v.parts) = m
  BY <1>5
<1> QED
  BY <1>1, <1>2, <1>5, <1>6 DEF Component, Position

LEMMA VersionShape ==
    ASSUME NEW v \in Versions
    PROVE  v.text = "version" /\ Len(v.parts) \in Nat /\ ~IsUnknown(v) /\ Given(v)
<1>1. PICK m \in 1..Depth : v \in {Version(q) : q \in [1..m -> Part]}
  BY DEF Versions
<1>2. PICK q \in [1..m -> Part] : v = Version(q)
  BY <1>1
<1>3. v.parts = q /\ v.text = "version" /\ m \in Nat
  <2>1. Depth \in Nat
    BY MatcherAssumption
  <2>2. v.parts = q /\ v.text = "version"
    BY <1>2 DEF Version
  <2> QED
    BY <2>1, <2>2
<1>4. Len(v.parts) = m
  BY <1>3
<1>5. v # Absent
  <2>1. Absent.text = ""
    BY DEF Absent
  <2> QED
    BY <1>3, <2>1
<1> QED
  BY <1>3, <1>4, <1>5 DEF IsUnknown, Given

\* Components are totally ordered by (number, type, text).
LEMMA ComponentOrder ==
    ASSUME NEW x \in ParsedComponent, NEW y \in ParsedComponent, NEW z \in ParsedComponent
    PROVE  /\ CompareComponents(x, y) \in {-1, 0, 1}
           /\ CompareComponents(x, y) = 0 <=> x = y
           /\ CompareComponents(x, y) = -CompareComponents(y, x)
           /\ CompareComponents(x, y) < 0 /\ CompareComponents(y, z) < 0
              => CompareComponents(x, z) < 0
<1>1. /\ x.n \in Int /\ x.type \in Int /\ x.text \in Int
      /\ y.n \in Int /\ y.type \in Int /\ y.text \in Int
      /\ z.n \in Int /\ z.type \in Int /\ z.text \in Int
  BY DEF ParsedComponent
<1>2. x = y <=> x.n = y.n /\ x.type = y.type /\ x.text = y.text
  BY DEF ParsedComponent
<1>3. CompareComponents(x, y) \in {-1, 0, 1}
  BY <1>1 DEF CompareComponents, Sign
<1>4. CompareComponents(x, y) = 0 <=> x = y
  BY <1>1, <1>2 DEF CompareComponents, Sign
<1>5. CompareComponents(x, y) = -CompareComponents(y, x)
  BY <1>1 DEF CompareComponents, Sign
<1>6. CompareComponents(x, y) < 0 /\ CompareComponents(y, z) < 0 => CompareComponents(x, z) < 0
  BY <1>1 DEF CompareComponents, Sign
<1> QED
  BY <1>3, <1>4, <1>5, <1>6

\* A set of naturals that is not empty has a least element.
LEMMA LeastElement ==
    ASSUME NEW T, T \subseteq Nat, T # {}
    PROVE  \E x \in T : \A y \in T : x <= y
<1> DEFINE R == OpToRel(<, Nat)
<1>1. IsWellFoundedOn(R, Nat)
  BY NatLessThanWellFounded
<1>2. \A x, y \in Nat : y < x => <<y, x>> \in R
  BY DEF OpToRel
<1> HIDE DEF R
<1>3. PICK x \in T : \A y \in T : ~ (<<y, x>> \in R)
  BY <1>1, WFMin
<1>4. ASSUME NEW y \in T PROVE x <= y
  <2>1. x \in Nat /\ y \in Nat
    OBVIOUS
  <2>2. ~ (y < x)
    BY <1>2, <1>3, <2>1
  <2> QED
    BY <2>1, <2>2
<1> QED
  BY <1>4

\* What the loop over the zipped components computes: two versions agree at
\* every position, or the first one at which they do not decides.
Agree(a, b, k) == \A i \in Position : i < k => Component(a, i) = Component(b, i)

DecidedAt(a, b, k) ==
    /\ Agree(a, b, k)
    /\ Component(a, k) # Component(b, k)
    /\ compare_versions(a, b) = CompareComponents(Component(a, k), Component(b, k))

SameVersion(a, b) ==
    /\ compare_versions(a, b) = 0
    /\ \A i \in Position : Component(a, i) = Component(b, i)

LEMMA FirstDifferenceDecides ==
    ASSUME NEW a \in Versions, NEW b \in Versions
    PROVE  SameVersion(a, b) \/ \E k \in Position : DecidedAt(a, b, k)
<1> DEFINE len == IF Len(a.parts) > Len(b.parts) THEN Len(a.parts) ELSE Len(b.parts)
           cmp == [i \in 1..len |-> CompareComponents(Component(a, i), Component(b, i))]
           diff == {i \in 1..len : cmp[i] # 0}
<1>1. len \in Nat /\ Len(a.parts) <= len /\ Len(b.parts) <= len
      /\ Len(a.parts) \in Nat /\ Len(b.parts) \in Nat
  BY VersionShape
<1>2. compare_versions(a, b) = IF diff = {} THEN 0 ELSE cmp[CHOOSE i \in diff : \A j \in diff : i <= j]
  <2>1. ~IsUnknown(a) /\ ~IsUnknown(b)
    BY VersionShape
  <2> QED
    BY <2>1, Zenon DEF compare_versions
<1> HIDE DEF len
<1>3. \A i \in Position : i > len => Component(a, i) = Component(b, i)
  BY <1>1 DEF Component, Position
<1>4. \A i \in 1..len : i \in Position /\ cmp[i] = CompareComponents(Component(a, i), Component(b, i))
  BY <1>1 DEF Position
<1>5. \A i \in 1..len : cmp[i] = 0 <=> Component(a, i) = Component(b, i)
  BY <1>4, ComponentType, ComponentOrder
<1>6. \A i \in Position : i \in 1..len \/ i > len
  BY <1>1 DEF Position
<1> HIDE DEF cmp
<1>7. CASE diff = {}
  BY <1>2, <1>3, <1>5, <1>6, <1>7 DEF SameVersion
<1>8. CASE diff # {}
  <2> DEFINE k == CHOOSE i \in diff : \A j \in diff : i <= j
  <2>1. diff \subseteq Nat
    BY <1>1
  <2>2. \E i \in diff : \A j \in diff : i <= j
    BY <1>8, <2>1, LeastElement
  <2>3. k \in diff /\ \A j \in diff : k <= j
    BY <2>2, Zenon
  <2>4. compare_versions(a, b) = cmp[k]
    BY <1>2, <1>8
  <2> HIDE DEF k
  <2>5. k \in 1..len /\ cmp[k] # 0
    BY <2>3
  <2>6. \A i \in 1..len : i < k => cmp[i] = 0
    <3> SUFFICES ASSUME NEW i \in 1..len, i < k, cmp[i] # 0 PROVE FALSE
      OBVIOUS
    <3>1. k <= i
      BY <2>3
    <3> QED
      BY <1>1, <2>5, <3>1
  <2>7. Agree(a, b, k)
    BY <1>1, <1>3, <1>5, <1>6, <2>5, <2>6 DEF Agree
  <2>8. DecidedAt(a, b, k) /\ k \in Position
    BY <1>4, <1>5, <2>4, <2>5, <2>7 DEF DecidedAt
  <2> QED
    BY <2>8
<1> QED
  BY <1>7, <1>8

\* Comparing the other way round gives the other sign.
LEMMA CompareAntisymmetric ==
    ASSUME NEW a \in Versions, NEW b \in Versions
    PROVE  /\ compare_versions(a, b) \in {-1, 0, 1}
           /\ compare_versions(a, b) = -compare_versions(b, a)
<1>1. CASE SameVersion(a, b)
  <2>1. \A k \in Position : ~DecidedAt(b, a, k)
    BY <1>1 DEF SameVersion, DecidedAt
  <2>2. SameVersion(b, a)
    BY <2>1, FirstDifferenceDecides
  <2>3. compare_versions(a, b) = 0 /\ compare_versions(b, a) = 0
    BY <1>1, <2>2 DEF SameVersion
  <2>4. \A x \in Int, y \in Int : x + y = 0 => x = -y
    OBVIOUS
  <2>5. /\ compare_versions(a, b) \in Int /\ compare_versions(b, a) \in Int
        /\ compare_versions(a, b) + compare_versions(b, a) = 0
    BY <2>3
  <2>6. compare_versions(a, b) = -compare_versions(b, a)
    BY <2>4, <2>5
  <2>7. compare_versions(a, b) \in {-1, 0, 1}
    BY <2>3
  <2> QED
    BY <2>6, <2>7
<1>2. ASSUME NEW k \in Position, DecidedAt(a, b, k)
      PROVE  /\ compare_versions(a, b) \in {-1, 0, 1}
             /\ compare_versions(a, b) = -compare_versions(b, a)
  <2>1. ~SameVersion(b, a)
    BY <1>2 DEF SameVersion, DecidedAt
  <2>2. PICK m \in Position : DecidedAt(b, a, m)
    BY <2>1, FirstDifferenceDecides
  <2>3. ~(k < m) /\ ~(m < k)
    BY <1>2, <2>2 DEF DecidedAt, Agree
  <2>4. m = k
    BY <2>3 DEF Position
  <2>5. Component(a, k) \in ParsedComponent /\ Component(b, k) \in ParsedComponent
    BY ComponentType
  <2> DEFINE x == Component(a, k)
             y == Component(b, k)
  <2>6. compare_versions(a, b) = CompareComponents(x, y) /\ compare_versions(b, a) = CompareComponents(y, x)
    BY <1>2, <2>2, <2>4 DEF DecidedAt
  <2> HIDE DEF x, y
  <2>7. x \in ParsedComponent /\ y \in ParsedComponent
    BY <2>5 DEF x, y
  <2>8. /\ CompareComponents(x, y) \in {-1, 0, 1}
        /\ CompareComponents(x, y) = -CompareComponents(y, x)
    BY <2>7, ComponentOrder
  <2> QED
    BY <2>6, <2>8
<1> QED
  BY <1>1, <1>2, FirstDifferenceDecides

\* The order of versions is transitive: lexicographic in the components, with
\* the shorter version padded by zeros.
LEMMA CompareTransitive ==
    ASSUME NEW a \in Versions, NEW b \in Versions, NEW c \in Versions,
           compare_versions(a, b) <= 0, compare_versions(b, c) <= 0
    PROVE  compare_versions(a, c) <= 0
<1>1. CASE SameVersion(a, b) /\ SameVersion(b, c)
  <2>1. \A k \in Position : ~DecidedAt(a, c, k)
    BY <1>1 DEF SameVersion, DecidedAt
  <2> QED
    BY <2>1, FirstDifferenceDecides DEF SameVersion
<1>2. ASSUME NEW k \in Position,
             \A i \in Position : i < k =>
                 Component(a, i) = Component(b, i) /\ Component(b, i) = Component(c, i),
             CompareComponents(Component(a, k), Component(c, k)) < 0
      PROVE  compare_versions(a, c) <= 0
  <2> DEFINE x == Component(a, k)
             z == Component(c, k)
  <2>1. x \in ParsedComponent /\ z \in ParsedComponent
    BY ComponentType
  <2>2. x # z
    <3>1. CompareComponents(x, z) < 0
      BY <1>2
    <3> HIDE DEF x, z
    <3> QED
      BY <2>1, <3>1, ComponentOrder
  <2>3. ~SameVersion(a, c)
    BY <2>2 DEF SameVersion
  <2>4. PICK m \in Position : DecidedAt(a, c, m)
    BY <2>3, FirstDifferenceDecides
  <2>5. ~(k < m)
    BY <2>2, <2>4 DEF DecidedAt, Agree
  <2>6. ~(m < k)
    BY <1>2, <2>4 DEF DecidedAt
  <2>7. m = k
    BY <2>5, <2>6 DEF Position
  <2>8. CompareComponents(x, z) \in {-1, 0, 1}
    <3> HIDE DEF x, z
    <3> QED
      BY <2>1, ComponentOrder
  <2> QED
    BY <1>2, <2>4, <2>7, <2>8 DEF DecidedAt
<1>3. ASSUME NEW k \in Position, DecidedAt(a, b, k), Agree(b, c, k)
      PROVE  compare_versions(a, c) <= 0 \/ DecidedAt(b, c, k)
  <2>1. CASE Component(b, k) = Component(c, k)
    <3> DEFINE x == Component(a, k)
               y == Component(b, k)
    <3>1. compare_versions(a, b) = CompareComponents(x, y) /\ x # y
      BY <1>3 DEF DecidedAt
    <3>2. x \in ParsedComponent /\ y \in ParsedComponent
      BY ComponentType
    <3>3. CompareComponents(x, y) < 0
      <4> HIDE DEF x, y
      <4> QED
        BY <3>1, <3>2, ComponentOrder
    <3>4. \A i \in Position : i < k =>
              Component(a, i) = Component(b, i) /\ Component(b, i) = Component(c, i)
      BY <1>3 DEF DecidedAt, Agree
    <3> QED
      BY <1>2, <2>1, <3>3, <3>4
  <2>2. CASE Component(b, k) # Component(c, k)
    <3>1. PICK m \in Position : DecidedAt(b, c, m)
      BY <2>2, FirstDifferenceDecides DEF SameVersion
    <3>2. ~(k < m) /\ ~(m < k)
      BY <1>3, <2>2, <3>1 DEF DecidedAt, Agree
    <3>3. m = k
      BY <3>2 DEF Position
    <3> QED
      BY <3>1, <3>3
  <2> QED
    BY <2>1, <2>2
<1>4. ASSUME NEW k \in Position, DecidedAt(a, b, k), DecidedAt(b, c, k)
      PROVE  compare_versions(a, c) <= 0
  <2> DEFINE x == Component(a, k)
             y == Component(b, k)
             z == Component(c, k)
  <2>1. x \in ParsedComponent /\ y \in ParsedComponent /\ z \in ParsedComponent
    BY ComponentType
  <2>2. /\ compare_versions(a, b) = CompareComponents(x, y) /\ x # y
        /\ compare_versions(b, c) = CompareComponents(y, z) /\ y # z
    BY <1>4 DEF DecidedAt
  <2>3. CompareComponents(x, z) < 0
    <3> HIDE DEF x, y, z
    <3>1. CompareComponents(x, y) < 0 /\ CompareComponents(y, z) < 0
      BY <2>1, <2>2, ComponentOrder
    <3> QED
      BY <2>1, <3>1, ComponentOrder
  <2>4. \A i \in Position : i < k =>
            Component(a, i) = Component(b, i) /\ Component(b, i) = Component(c, i)
    BY <1>4 DEF DecidedAt, Agree
  <2> QED
    BY <1>2, <2>3, <2>4
<1>5. ASSUME NEW k \in Position, DecidedAt(b, c, k), Agree(a, b, k), Component(a, k) = Component(b, k)
      PROVE  compare_versions(a, c) <= 0
  <2> DEFINE y == Component(b, k)
             z == Component(c, k)
  <2>1. y \in ParsedComponent /\ z \in ParsedComponent
    BY ComponentType
  <2>2. compare_versions(b, c) = CompareComponents(y, z) /\ y # z
    BY <1>5 DEF DecidedAt
  <2>3. CompareComponents(y, z) < 0
    <3> HIDE DEF y, z
    <3> QED
      BY <2>1, <2>2, ComponentOrder
  <2>4. \A i \in Position : i < k =>
            Component(a, i) = Component(b, i) /\ Component(b, i) = Component(c, i)
    BY <1>5 DEF DecidedAt, Agree
  <2> QED
    BY <1>2, <1>5, <2>3, <2>4
<1>6. ASSUME NEW k \in Position, DecidedAt(a, b, k), NEW m \in Position, DecidedAt(b, c, m)
      PROVE  compare_versions(a, c) <= 0
  <2>1. CASE k < m
    <3>1. Agree(b, c, k) /\ ~DecidedAt(b, c, k)
      BY <1>6, <2>1 DEF DecidedAt, Agree, Position
    <3> QED
      BY <1>3, <1>6, <3>1
  <2>2. CASE k = m
    BY <1>4, <1>6, <2>2
  <2>3. CASE m < k
    <3>1. Agree(a, b, m) /\ Component(a, m) = Component(b, m)
      BY <1>6, <2>3 DEF DecidedAt, Agree, Position
    <3> QED
      BY <1>5, <1>6, <3>1
  <2> QED
    BY <2>1, <2>2, <2>3 DEF Position
<1>7. ASSUME NEW k \in Position, DecidedAt(a, b, k), SameVersion(b, c)
      PROVE  compare_versions(a, c) <= 0
  <2>1. Agree(b, c, k) /\ ~DecidedAt(b, c, k)
    BY <1>7 DEF SameVersion, Agree, DecidedAt
  <2> QED
    BY <1>3, <1>7, <2>1
<1>8. ASSUME SameVersion(a, b), NEW k \in Position, DecidedAt(b, c, k)
      PROVE  compare_versions(a, c) <= 0
  <2>1. Agree(a, b, k) /\ Component(a, k) = Component(b, k)
    BY <1>8 DEF SameVersion, Agree
  <2> QED
    BY <1>5, <1>8, <2>1
<1> QED
  BY <1>1, <1>6, <1>7, <1>8, FirstDifferenceDecides

\* The cases the actions ask about.
MatcherInv ==
    \/ case = NoCase
    \/ /\ case.kind = "compare"
       /\ case.a \in Versions /\ case.b \in Versions /\ case.c \in Versions
    \/ /\ case.kind = "verdict" /\ case.version \in Installed
       /\ case.from \in Boundary /\ case.split \in Boundary
       /\ case.again \in Boundary /\ case.to \in Boundary

THEOREM MatcherInvariant == MatcherSpec => []MatcherInv
<1>1. MatcherInit => MatcherInv
  BY DEF MatcherInit, MatcherInv
<1>2. MatcherInv /\ [CompareCase \/ VerdictCase]_case => MatcherInv'
  <2> SUFFICES ASSUME MatcherInv, [CompareCase \/ VerdictCase]_case PROVE MatcherInv'
    OBVIOUS
  <2>1. CASE CompareCase
    BY <2>1 DEF CompareCase, MatcherInv
  <2>2. CASE VerdictCase
    BY <2>2 DEF VerdictCase, MatcherInv
  <2>3. CASE UNCHANGED case
    BY <2>3 DEF MatcherInv
  <2> QED
    BY <2>1, <2>2, <2>3
<1> QED
  BY <1>1, <1>2, PTL DEF MatcherSpec

\* compare_versions is antisymmetric and transitive on all versions of any
\* length, whatever their numbers, pre-releases and patch letters.
THEOREM VersionsAreOrdered == MatcherSpec => []CompareIsAnOrder
<1>1. MatcherInv => CompareIsAnOrder
  <2> SUFFICES ASSUME MatcherInv, case.kind = "compare" PROVE CompareIsAnOrder
    BY DEF CompareIsAnOrder
  <2>1. case.a \in Versions /\ case.b \in Versions /\ case.c \in Versions
    BY DEF MatcherInv, NoCase
  <2>2. compare_versions(case.a, case.b) = -compare_versions(case.b, case.a)
    BY <2>1, CompareAntisymmetric
  <2>3. compare_versions(case.a, case.b) <= 0 /\ compare_versions(case.b, case.c) <= 0
        => compare_versions(case.a, case.c) <= 0
    BY <2>1, CompareTransitive
  <2> QED
    BY <2>2, <2>3 DEF CompareIsAnOrder
<1> QED
  BY <1>1, MatcherInvariant, PTL

\* What an entry may give as a bound: nothing, a text that means "unknown", or
\* a version of any length.
AnyBound == {Absent} \cup {Wild(text) : text \in Unknown} \cup Versions

\* What a bound says of a version only depends on where the version is in the
\* order; a bound that is unknown says the same of every version.
LEMMA BoundsCut ==
    ASSUME NEW a \in Versions, NEW b \in Versions, compare_versions(a, b) <= 0, NEW t \in AnyBound
    PROVE  /\ compare_versions(a, t) >= 0 => compare_versions(b, t) >= 0
           /\ compare_versions(a, t) > 0 => compare_versions(b, t) > 0
           /\ compare_versions(b, t) <= 0 => compare_versions(a, t) <= 0
           /\ compare_versions(b, t) < 0 => compare_versions(a, t) < 0
           /\ compare_versions(a, t) \in Int /\ compare_versions(b, t) \in Int
<1>1. CASE t \in Versions
  <2>1. /\ compare_versions(a, t) \in {-1, 0, 1} /\ compare_versions(a, t) = -compare_versions(t, a)
        /\ compare_versions(b, t) \in {-1, 0, 1} /\ compare_versions(b, t) = -compare_versions(t, b)
        /\ compare_versions(t, a) \in {-1, 0, 1} /\ compare_versions(t, b) \in {-1, 0, 1}
    BY <1>1, CompareAntisymmetric
  <2>2. compare_versions(b, t) <= 0 => compare_versions(a, t) <= 0
    BY <1>1, CompareTransitive
  <2>3. compare_versions(t, a) <= 0 => compare_versions(t, b) <= 0
    BY <1>1, CompareTransitive
  <2> QED
    BY <2>1, <2>2, <2>3
<1>2. CASE IsUnknown(t)
  <2>1. compare_versions(a, t) = 0 /\ compare_versions(b, t) = 0
    BY <1>2 DEF compare_versions
  <2> QED
    BY <2>1
<1>3. IsUnknown(Absent) /\ \A text \in Unknown : IsUnknown(Wild(text))
  BY DEF IsUnknown, Absent, Wild, Unknown
<1> QED
  BY <1>1, <1>2, <1>3 DEF AnyBound

\* The versions a range covers form an interval of the order, for any
\* combination of the four bounds and the exact version.
LEMMA RangeIsConvex ==
    ASSUME NEW a \in Versions, NEW b \in Versions, NEW c \in Versions,
           compare_versions(a, b) <= 0, compare_versions(b, c) <= 0,
           NEW r,
           r.startInc \in AnyBound, r.startExc \in AnyBound, r.endInc \in AnyBound,
           r.endExc \in AnyBound, r.exact \in AnyBound,
           is_version_in_range(a, r), is_version_in_range(c, r)
    PROVE  is_version_in_range(b, r)
<1>1. ASSUME NEW v \in Versions PROVE Given(v) /\ v.text # "*"
  BY VersionShape
<1>2. CASE \E t \in {r.startInc, r.startExc, r.endInc, r.endExc} : Given(t)
  <2>1. InBounds(a, r) /\ InBounds(c, r)
    BY <1>1, <1>2 DEF is_version_in_range
  <2>2. Given(r.startInc) => compare_versions(b, r.startInc) >= 0
    BY <2>1, BoundsCut DEF InBounds
  <2>3. Given(r.startExc) => compare_versions(b, r.startExc) > 0
    BY <2>1, BoundsCut DEF InBounds
  <2>4. Given(r.endInc) => compare_versions(b, r.endInc) <= 0
    BY <2>1, BoundsCut DEF InBounds
  <2>5. Given(r.endExc) => compare_versions(b, r.endExc) < 0
    BY <2>1, BoundsCut DEF InBounds
  <2>6. InBounds(b, r)
    BY <2>2, <2>3, <2>4, <2>5 DEF InBounds
  <2> QED
    BY <1>2, <2>6 DEF is_version_in_range
<1>3. CASE \A t \in {r.startInc, r.startExc, r.endInc, r.endExc} : ~Given(t)
  <2>1. CASE ~Given(r.exact) \/ r.exact.text \in {"*", "-"}
    BY <1>3, <2>1 DEF is_version_in_range
  <2>2. CASE Given(r.exact) /\ r.exact.text \notin {"*", "-"}
    <3>1. compare_versions(a, r.exact) = 0 /\ compare_versions(c, r.exact) = 0
      BY <1>1, <1>3, <2>2 DEF is_version_in_range
    <3>2. /\ compare_versions(b, r.exact) >= 0 /\ compare_versions(b, r.exact) <= 0
          /\ compare_versions(b, r.exact) \in Int
      BY <3>1, BoundsCut
    <3>3. compare_versions(b, r.exact) = 0
      BY <3>2
    <3> QED
      BY <1>3, <3>3 DEF is_version_in_range
  <2> QED
    BY <2>1, <2>2
<1> QED
  BY <1>2, <1>3

\* The ranges the runs go through are some of those.
LEMMA RangesHaveBounds ==
    ASSUME NEW r \in Ranges
    PROVE  /\ r.startInc \in AnyBound /\ r.startExc \in AnyBound /\ r.endInc \in AnyBound
           /\ r.endExc \in AnyBound /\ r.exact \in AnyBound
<1>1. Absent \in AnyBound /\ Wild("*") \in AnyBound
  BY DEF AnyBound, Unknown
<1>2. 1 \in 1..Depth
  <2>1. Depth \in Nat /\ Depth # 0
    BY MatcherAssumption
  <2> QED
    BY <2>1
<1>3. {Version(q) : q \in [1..1 -> Part]} \subseteq Versions
  BY <1>2 DEF Versions
<1>4. Bound \subseteq AnyBound
  BY <1>1, <1>3 DEF Bound, AnyBound
<1>5. CASE r \in [startInc : Bound, startExc : {Absent}, endInc : {Absent}, endExc : Bound, exact : {Absent}]
  BY <1>1, <1>4, <1>5
<1>6. CASE r \in [startInc : {Absent}, startExc : Bound, endInc : Bound, endExc : {Absent}, exact : {Absent}]
  BY <1>1, <1>4, <1>6
<1>7. CASE r \in [startInc : {Absent}, startExc : {Absent}, endInc : {Absent}, endExc : {Absent}, exact : Bound]
  BY <1>1, <1>4, <1>7
<1> QED
  BY <1>5, <1>6, <1>7 DEF Ranges

\* No version between two affected ones is reported as safe.
THEOREM AffectedIsAnInterval == MatcherSpec => []RangeIsAnInterval
<1>1. MatcherInv => RangeIsAnInterval
  <2> SUFFICES ASSUME MatcherInv, case.kind = "compare",
                      compare_versions(case.a, case.b) <= 0, compare_versions(case.b, case.c) <= 0,
                      NEW r \in Ranges,
                      is_version_in_range(case.a, r), is_version_in_range(case.c, r)
               PROVE  is_version_in_range(case.b, r)
    BY Zenon DEF RangeIsAnInterval
  <2>1. case.a \in Versions /\ case.b \in Versions /\ case.c \in Versions
    BY DEF MatcherInv, NoCase
  <2> QED
    BY <2>1, RangeIsConvex, RangesHaveBounds
<1> QED
  BY <1>1, MatcherInvariant, PTL

\* The verdict of a list of entries: uncertain when none names the product,
\* else whether one of those that do covers the version.
Covers(product, v, entries) ==
    \E i \in DOMAIN entries : MatchesCpe(product, entries[i]) /\ is_version_in_range(v, entries[i])

Names(product, entries) == \E i \in DOMAIN entries : MatchesCpe(product, entries[i])

LEMMA VerdictOf ==
    ASSUME NEW product, NEW v, NEW entries
    PROVE  LET verdict == is_cve_affecting_product(product, v, entries) IN
           /\ ~Names(product, entries) => verdict = [affected |-> TRUE, certain |-> FALSE]
           /\ Names(product, entries) =>
                verdict = [affected |-> Covers(product, v, entries), certain |-> TRUE]
<1> DEFINE named == {i \in DOMAIN entries : MatchesCpe(product, entries[i])}
<1>1. is_cve_affecting_product(product, v, entries)
      = IF named = {} THEN [affected |-> TRUE, certain |-> FALSE]
        ELSE [affected |-> \E i \in named : is_version_in_range(v, entries[i]), certain |-> TRUE]
  BY Zenon DEF is_cve_affecting_product
<1>2. named = {} <=> ~Names(product, entries)
  BY Zenon DEF Names
<1>3. (\E i \in named : is_version_in_range(v, entries[i])) <=> Covers(product, v, entries)
  BY Zenon DEF Covers
<1>4. (\E i \in named : is_version_in_range(v, entries[i])) = Covers(product, v, entries)
  BY <1>3, Zenon DEF Covers
<1> HIDE DEF named
<1> QED
  BY <1>1, <1>2, <1>4, Zenon

LEMMA NamesAndCovers ==
    ASSUME NEW product, NEW v, NEW e, NEW f, NEW g
    PROVE  /\ Names(product, <<e, f>>) <=> MatchesCpe(product, e) \/ MatchesCpe(product, f)
           /\ Covers(product, v, <<e, f>>)
              <=> \/ MatchesCpe(product, e) /\ is_version_in_range(v, e)
                  \/ MatchesCpe(product, f) /\ is_version_in_range(v, f)
           /\ Names(product, <<e, f, g>>)
              <=> MatchesCpe(product, e) \/ MatchesCpe(product, f) \/ MatchesCpe(product, g)
           /\ Covers(product, v, <<e, f, g>>)
              <=> \/ MatchesCpe(product, e) /\ is_version_in_range(v, e)
                  \/ MatchesCpe(product, f) /\ is_version_in_range(v, f)
                  \/ MatchesCpe(product, g) /\ is_version_in_range(v, g)
<1>1. DOMAIN <<e, f>> = {1, 2} /\ <<e, f>>[1] = e /\ <<e, f>>[2] = f
  OBVIOUS
<1>2. /\ DOMAIN <<e, f, g>> = {1, 2, 3}
      /\ <<e, f, g>>[1] = e /\ <<e, f, g>>[2] = f /\ <<e, f, g>>[3] = g
  OBVIOUS
<1>3. Names(product, <<e, f>>) <=> MatchesCpe(product, e) \/ MatchesCpe(product, f)
  BY <1>1, Zenon DEF Names
<1>4. Covers(product, v, <<e, f>>)
      <=> \/ MatchesCpe(product, e) /\ is_version_in_range(v, e)
          \/ MatchesCpe(product, f) /\ is_version_in_range(v, f)
  BY <1>1, Zenon DEF Covers
<1>5. Names(product, <<e, f, g>>)
      <=> MatchesCpe(product, e) \/ MatchesCpe(product, f) \/ MatchesCpe(product, g)
  BY <1>2, Zenon DEF Names
<1>6. Covers(product, v, <<e, f, g>>)
      <=> \/ MatchesCpe(product, e) /\ is_version_in_range(v, e)
          \/ MatchesCpe(product, f) /\ is_version_in_range(v, f)
          \/ MatchesCpe(product, g) /\ is_version_in_range(v, g)
  BY <1>2, Zenon DEF Covers
<1> QED
  BY <1>3, <1>4, <1>5, <1>6

\* What an entry covers whose range has an included start and an excluded end.
LEMMA RangedCovers ==
    ASSUME NEW f, NEW from \in Versions, NEW to \in Versions, NEW v
    PROVE  is_version_in_range(v, Ranged(f, from, to))
           <=> \/ ~Given(v) \/ v.text = "*"
               \/ compare_versions(v, from) >= 0 /\ compare_versions(v, to) < 0
<1> DEFINE r == Ranged(f, from, to)
<1>1. /\ r.startInc = from /\ r.startExc = Absent /\ r.endInc = Absent
      /\ r.endExc = to /\ r.exact = Absent
  BY DEF Ranged
<1>2. Given(from) /\ Given(to) /\ ~Given(Absent)
  BY VersionShape DEF Given
<1> HIDE DEF r
<1>3. \E b \in {r.startInc, r.startExc, r.endInc, r.endExc} : Given(b)
  BY <1>1, <1>2
<1>4. InBounds(v, r) <=> compare_versions(v, from) >= 0 /\ compare_versions(v, to) < 0
  BY <1>1, <1>2 DEF InBounds
<1>5. is_version_in_range(v, r) <=> ~Given(v) \/ v.text = "*" \/ InBounds(v, r)
  BY <1>3 DEF is_version_in_range
<1> QED
  BY <1>4, <1>5 DEF r

\* Two ranges that meet cover what the whole range covers.
LEMMA SplitCovers ==
    ASSUME NEW f, NEW v, IsUnknown(v) \/ v \in Versions,
           NEW from \in Versions, NEW split \in Versions,
           NEW again \in Versions, NEW to \in Versions,
           compare_versions(from, split) <= 0, compare_versions(split, again) = 0,
           compare_versions(again, to) <= 0
    PROVE  \/ is_version_in_range(v, Ranged(f, from, split))
           \/ is_version_in_range(v, Ranged(f, again, to))
           <=> is_version_in_range(v, Ranged(f, from, to))
<1>1. CASE IsUnknown(v)
  <2>1. \A t : compare_versions(v, t) = 0
    BY <1>1 DEF compare_versions
  <2>2. \A x, y \in Versions :
            is_version_in_range(v, Ranged(f, x, y)) <=> ~Given(v) \/ v.text = "*"
    BY <2>1, RangedCovers
  <2> QED
    BY <2>2
<1>2. CASE v \in Versions
  <2>1. \A x, y \in Versions :
            is_version_in_range(v, Ranged(f, x, y))
            <=> compare_versions(v, x) >= 0 /\ compare_versions(v, y) < 0
    BY <1>2, RangedCovers, VersionShape
  <2>2. \A x, y \in Versions : /\ compare_versions(x, y) \in {-1, 0, 1}
                               /\ compare_versions(x, y) = -compare_versions(y, x)
    BY CompareAntisymmetric
  <2>3. \A x, y, z \in Versions :
            compare_versions(x, y) <= 0 /\ compare_versions(y, z) <= 0
            => compare_versions(x, z) <= 0
    BY CompareTransitive
  <2> DEFINE Below(x, y) == compare_versions(x, y) <= 0
  <2>4. \A x, y \in Versions : (compare_versions(x, y) >= 0 <=> Below(y, x))
                               /\ (compare_versions(x, y) < 0 <=> ~Below(y, x))
    BY <2>2
  <2>5. Below(from, split) /\ Below(split, again) /\ Below(again, split) /\ Below(again, to)
    BY <2>2
  <2>6. \A x, y, z \in Versions : Below(x, y) /\ Below(y, z) => Below(x, z)
    BY <2>3
  <2> HIDE DEF Below
  <2>7. \/ Below(from, v) /\ ~Below(split, v)
        \/ Below(again, v) /\ ~Below(to, v)
        <=> Below(from, v) /\ ~Below(to, v)
    BY <1>2, <2>5, <2>6, Zenon
  <2> QED
    BY <1>2, <2>1, <2>4, <2>7
<1> QED
  BY <1>1, <1>2

\* The versions of a range that is cut in two, and the one asked about.
CutInTwo(v, from, split, again, to) ==
    /\ IsUnknown(v) \/ v \in Versions
    /\ from \in Versions /\ split \in Versions /\ again \in Versions /\ to \in Versions
    /\ compare_versions(from, split) <= 0
    /\ compare_versions(split, again) = 0
    /\ compare_versions(again, to) <= 0

LEMMA SplitVerdict ==
    ASSUME NEW p, NEW e, NEW f, NEW v, NEW from, NEW split, NEW again, NEW to,
           CutInTwo(v, from, split, again, to)
    PROVE  is_cve_affecting_product(p, v, <<Ranged(f, from, split), e, Ranged(f, again, to)>>)
           = is_cve_affecting_product(p, v, <<e, Ranged(f, from, to)>>)
<1> DEFINE lower == Ranged(f, from, split)
           upper == Ranged(f, again, to)
           whole == Ranged(f, from, to)
<1>1. /\ MatchesCpe(p, lower) <=> MatchesCpe(p, whole)
      /\ MatchesCpe(p, upper) <=> MatchesCpe(p, whole)
  BY DEF MatchesCpe, Ranged
<1>2. is_version_in_range(v, lower) \/ is_version_in_range(v, upper)
      <=> is_version_in_range(v, whole)
  BY SplitCovers DEF CutInTwo
<1> HIDE DEF lower, upper, whole
<1>3. Names(p, <<lower, e, upper>>) <=> Names(p, <<e, whole>>)
  BY <1>1, NamesAndCovers, Zenon
<1>4. Covers(p, v, <<lower, e, upper>>) <=> Covers(p, v, <<e, whole>>)
  BY <1>1, <1>2, NamesAndCovers, Zenon
<1>5. Covers(p, v, <<lower, e, upper>>) = Covers(p, v, <<e, whole>>)
  BY <1>4, Zenon DEF Covers
<1>6. is_cve_affecting_product(p, v, <<lower, e, upper>>)
      = is_cve_affecting_product(p, v, <<e, whole>>)
  BY <1>3, <1>5, VerdictOf, Zenon
<1> QED
  BY <1>6, Zenon DEF lower, upper, whole

\* However a range is cut into two that meet, and however the version they meet
\* at is spelled, the verdict on the CVE stays the same, for any product, any
\* versions of any length and any entry besides.
THEOREM SplitRangesAgree == MatcherSpec => []SplitRangeIsWhole
<1>1. IsUnknown(Absent) /\ \A t \in Unknown : IsUnknown(Wild(t))
  BY DEF IsUnknown, Wild, Absent, Unknown
<1>2. \A v \in Installed : IsUnknown(v) \/ v \in Versions
  BY <1>1, VersionAssumption
<1>3. MatcherInv => SplitRangeIsWhole
  <2> SUFFICES ASSUME MatcherInv, case.kind = "verdict",
                      compare_versions(case.from, case.split) <= 0,
                      compare_versions(case.split, case.again) = 0,
                      compare_versions(case.again, case.to) <= 0
               PROVE  SplitRangeIsWhole
    BY DEF SplitRangeIsWhole
  <2>1. /\ case.version \in Installed
        /\ case.from \in Boundary /\ case.split \in Boundary
        /\ case.again \in Boundary /\ case.to \in Boundary
    BY DEF MatcherInv, NoCase
  <2>2. CutInTwo(case.version, case.from, case.split, case.again, case.to)
    BY <1>2, <2>1, VersionAssumption DEF CutInTwo
  <2>3. \A p, e, f :
          is_cve_affecting_product(p, case.version,
              <<Ranged(f, case.from, case.split), e, Ranged(f, case.again, case.to)>>)
          = is_cve_affecting_product(p, case.version, <<e, Ranged(f, case.from, case.to)>>)
    BY <2>2, SplitVerdict
  <2> QED
    BY <2>3, Zenon DEF SplitRangeIsWhole
<1> QED
  BY <1>3, MatcherInvariant, PTL

-----------------------------------------------------------------------------
(***************************************************************************)
(* The priority score and the SLA, for any signals and any days.           *)
(***************************************************************************)

\* Everything the signals can be, sampled or not.
AnySignals ==
    [epss : 0..80 \cup {None}, v3 : 0..100 \cup {None}, v2 : 0..100 \cup {None}, kev : BOOLEAN,
     age : Nat \cup {None}, poc : BOOLEAN, nuclei : BOOLEAN, circl : BOOLEAN]

ScoringInv ==
    \/ signals = NoSignals
    \/ signals.kind = "score" /\ signals.s \in AnySignals
    \/ /\ signals.kind = "sla" /\ signals.status \in Status
       /\ signals.due \in Nat \cup {None} /\ signals.today \in Nat

THEOREM ScoringInvariant == ScoringSpec => []ScoringInv
<1>1. ScoringInit => ScoringInv
  BY DEF ScoringInit, ScoringInv
<1>2. ScoringInv /\ [ScoreCase \/ SlaCase]_signals => ScoringInv'
  <2> SUFFICES ASSUME ScoringInv, [ScoreCase \/ SlaCase]_signals PROVE ScoringInv'
    OBVIOUS
  <2>1. CASE ScoreCase
    <3>1. PICK s \in Signals : signals' = [kind |-> "score", s |-> s]
      BY <2>1 DEF ScoreCase
    <3>2. /\ s \in [epss : Epss \cup {None}, v3 : Cvss \cup {None}, v2 : Cvss \cup {None},
                    kev : BOOLEAN, age : Age \cup {None}, poc : BOOLEAN, nuclei : BOOLEAN,
                    circl : BOOLEAN]
          /\ Epss \subseteq 0..80 /\ Cvss \subseteq 0..100 /\ Age \subseteq Nat
      BY ScoringAssumption DEF Signals
    <3>3. s \in AnySignals
      BY <3>2 DEF AnySignals
    <3> QED
      BY <3>1, <3>3 DEF ScoringInv
  <2>2. CASE SlaCase
    <3>1. PICK st \in Status, deadline \in DueDate \cup {None}, today \in Today :
            signals' = [kind |-> "sla", status |-> st, due |-> deadline, today |-> today]
      BY <2>2 DEF SlaCase
    <3>2. deadline \in Nat \cup {None} /\ today \in Nat
      BY ScoringAssumption
    <3> QED
      BY <3>1, <3>2 DEF ScoringInv
  <2>3. CASE UNCHANGED signals
    BY <2>3 DEF ScoringInv
  <2> QED
    BY <2>1, <2>2, <2>3
<1> QED
  BY <1>1, <1>2, PTL DEF ScoringSpec

\* The SLA report, the snapshot's counts and the days overdue tell one story,
\* and a finding nobody touches only gets worse.
THEOREM SlaStatesAgree == ScoringSpec => []SlaViewsAgree
<1>1. ASSUME NEW st \in Status, NEW d \in Nat \cup {None}, NEW t \in Nat
      PROVE  /\ breached_count(st, d, t)
                  <=> compute_sla_state(st, d, t) = "breached" /\ st # "accepted_risk"
             /\ at_risk_count(st, d, t)
                  <=> compute_sla_state(st, d, t) = "at_risk" /\ st # "accepted_risk"
             /\ days_overdue(d, t) > 0 => compute_sla_state(st, d, t) \in {"breached", "met"}
             /\ \A u \in Nat : t <= u =>
                  Rank(compute_sla_state(st, d, t)) <= Rank(compute_sla_state(st, d, u))
  <2>1. (d = None \/ d \in Nat) /\ None = -1
    BY DEF None
  <2>2. CASE st \in Closed
    <3>1. \A u \in Nat : compute_sla_state(st, d, u) = "met"
      BY <2>2 DEF compute_sla_state
    <3>2. st \notin Open /\ st # "accepted_risk"
      BY <2>2 DEF Open, Closed
    <3> QED
      BY <3>1, <3>2 DEF breached_count, at_risk_count, Rank
  <2>3. CASE st \notin Closed /\ d = None
    <3>1. \A u \in Nat : compute_sla_state(st, d, u) = "on_track"
      BY <2>3 DEF compute_sla_state
    <3>2. days_overdue(d, t) = 0
      BY <2>3 DEF days_overdue
    <3> QED
      BY <2>3, <3>1, <3>2 DEF breached_count, at_risk_count, Rank
  <2>4. CASE st \notin Closed /\ d # None
    <3>1. d \in Nat /\ (st \in Open <=> st # "accepted_risk")
      BY <2>1, <2>4 DEF Status, Open, Closed
    <3>2. \A u \in Nat : compute_sla_state(st, d, u)
                           = IF d < u THEN "breached" ELSE IF d - u <= 7 THEN "at_risk" ELSE "on_track"
      BY <2>4 DEF compute_sla_state
    <3>3. breached_count(st, d, t) <=> compute_sla_state(st, d, t) = "breached" /\ st # "accepted_risk"
      BY <2>4, <3>1, <3>2 DEF breached_count
    <3>4. at_risk_count(st, d, t) <=> compute_sla_state(st, d, t) = "at_risk" /\ st # "accepted_risk"
      BY <2>4, <3>1, <3>2 DEF at_risk_count
    <3>5. days_overdue(d, t) > 0 => compute_sla_state(st, d, t) \in {"breached", "met"}
      BY <2>4, <3>1, <3>2 DEF days_overdue
    <3>6. \A u \in Nat : t <= u => Rank(compute_sla_state(st, d, t)) <= Rank(compute_sla_state(st, d, u))
      BY <3>1, <3>2 DEF Rank
    <3> QED
      BY <3>3, <3>4, <3>5, <3>6
  <2> QED
    BY <2>2, <2>3, <2>4
<1>2. ScoringInv => SlaViewsAgree
  <2> SUFFICES ASSUME ScoringInv, signals.kind = "sla" PROVE SlaViewsAgree
    BY DEF SlaViewsAgree
  <2>1. /\ signals.status \in Status /\ signals.due \in Nat \cup {None} /\ signals.today \in Nat
        /\ Today \subseteq Nat
    BY ScoringAssumption DEF ScoringInv, NoSignals
  <2> QED
    BY <1>1, <2>1, Zenon DEF SlaViewsAgree
<1> QED
  BY <1>2, ScoringInvariant, PTL

LEMMA SignalFields ==
    ASSUME NEW s \in AnySignals
    PROVE  /\ s.epss \in Int /\ -1 <= s.epss /\ s.epss <= 80
           /\ s.v3 \in Int /\ -1 <= s.v3 /\ s.v3 <= 100
           /\ s.v2 \in Int /\ -1 <= s.v2 /\ s.v2 <= 100
           /\ s.age \in Int /\ -1 <= s.age
           /\ s.kev \in BOOLEAN /\ s.poc \in BOOLEAN /\ s.nuclei \in BOOLEAN /\ s.circl \in BOOLEAN
BY DEF AnySignals, None

\* Each factor is a natural number, so what their sum is does not depend on
\* the rest.
LEMMA FactorTypes ==
    ASSUME NEW s \in AnySignals
    PROVE  /\ EpssPoints(s) \in Nat /\ SqlEpss(s) \in Nat
           /\ Band(Severity(s), CvssFor(s)) \in Nat /\ SqlBand(s) \in Nat
           /\ Band(Severity(s), OrZero(s.v3)) \in Nat
           /\ Recency(s) \in Nat /\ SqlRecency(s) \in Nat
           /\ Kev(s) \in Nat /\ Exploitability(s) \in Nat /\ SqlExploitability(s) \in Nat
<1>1. EpssPoints(s) \in Nat /\ SqlEpss(s) \in Nat
  BY SignalFields DEF EpssPoints, SqlEpss, OrZero, None
<1>2. /\ Band(Severity(s), CvssFor(s)) \in Nat /\ SqlBand(s) \in Nat
      /\ Band(Severity(s), OrZero(s.v3)) \in Nat
  BY DEF Band, SqlBand
<1>3. Recency(s) \in Nat /\ SqlRecency(s) \in Nat /\ Kev(s) \in Nat
      /\ Exploitability(s) \in Nat /\ SqlExploitability(s) \in Nat
  BY DEF Recency, SqlRecency, Kev, Exploitability, SqlExploitability
<1> QED
  BY <1>1, <1>2, <1>3

LEMMA ScoreIsASum ==
    ASSUME NEW s
    PROVE  compute_priority_score(s)
           = Clamp(EpssPoints(s) + Band(Severity(s), CvssFor(s)) + Kev(s) + Recency(s) + Exploitability(s))
BY DEF compute_priority_score, compute_priority_factors

\* EPSS and recency: SQL's rounding and its exact intervals differ from
\* Python's at the edges only.
LEMMA EpssAndRecencyAgree ==
    ASSUME NEW s \in AnySignals
    PROVE  /\ OrZero(s.epss) % 4 # 1 => SqlEpss(s) = EpssPoints(s)
           /\ s.age \notin {61, 181, 731} => SqlRecency(s) = Recency(s)
<1>1. OrZero(s.epss) % 4 # 1 => SqlEpss(s) = EpssPoints(s)
  BY DEF SqlEpss, EpssPoints
<1>2. s.age \notin {61, 181, 731} => SqlRecency(s) = Recency(s)
  <2>1. CASE s.age = None
    BY <2>1 DEF SqlRecency, Recency
  <2>2. CASE s.age # None
    <3>1. s.age \in Nat
      BY <2>2, SignalFields DEF None
    <3>2. ASSUME NEW n \in Nat, NEW h \in {30, 90, 365}, n # 2 * h + 1
          PROVE  n \div 2 <= h <=> n <= 2 * h
      <4>1. h \in Nat
        OBVIOUS
      <4> QED
        BY <3>2, <4>1
    <3> QED
      BY <2>2, <3>1, <3>2 DEF SqlRecency, Recency
  <2> QED
    BY <2>1, <2>2
<1> QED
  BY <1>1, <1>2

\* The bands agree but where a v2 score counts as critical, or stands in for a
\* v3 score of zero.
LEMMA BandsAgree ==
    ASSUME NEW s \in AnySignals
    PROVE  /\ ~V2Counts(s, 40) => SqlBand(s) = Band(Severity(s), CvssFor(s))
           /\ ~V2Counts(s, 1) => Band(Severity(s), OrZero(s.v3)) = Band(Severity(s), CvssFor(s))
<1>1. /\ s.v3 \in Int /\ -1 <= s.v3 /\ s.v3 <= 100
      /\ s.v2 \in Int /\ -1 <= s.v2 /\ s.v2 <= 100
      /\ s.circl \in BOOLEAN
  BY SignalFields
<1>2. CASE s.v3 > 0
  BY <1>1, <1>2 DEF Band, SqlBand, Severity, BaseSeverity, CvssFor, OrZero, V2Counts, None
<1>3. CASE s.v3 = 0
  BY <1>1, <1>3 DEF Band, SqlBand, Severity, BaseSeverity, CvssFor, OrZero, V2Counts, None
<1>4. CASE s.v3 = -1
  BY <1>1, <1>4 DEF Band, SqlBand, Severity, BaseSeverity, CvssFor, OrZero, V2Counts, None
<1> QED
  BY <1>1, <1>2, <1>3, <1>4

\* "mirrors compute_priority_score()", for all signals off the edges named.
THEOREM ScoresAgree == ScoringSpec => []ScoresAgreeOffTheEdges
<1>1. ASSUME NEW s \in AnySignals, ~OnAnEdge(s)
      PROVE  priority_expr(s) = compute_priority_score(s)
  <2>1. SqlEpss(s) = EpssPoints(s) /\ SqlRecency(s) = Recency(s)
    BY <1>1, EpssAndRecencyAgree, Zenon DEF OnAnEdge
  <2>2. SqlBand(s) = Band(Severity(s), CvssFor(s))
    BY <1>1, BandsAgree, Zenon DEF OnAnEdge
  <2>3. SqlExploitability(s) = Exploitability(s)
    BY DEF SqlExploitability, Exploitability
  <2>4. priority_expr(s)
        = Clamp(EpssPoints(s) + Band(Severity(s), CvssFor(s)) + Kev(s) + Recency(s) + Exploitability(s))
    BY <2>1, <2>2, <2>3, Zenon DEF priority_expr
  <2> QED
    BY <2>4, ScoreIsASum, Zenon
<1>2. ASSUME NEW s \in AnySignals, ~V2Counts(s, 1)
      PROVE  SyncScore(s) = compute_priority_score([s EXCEPT !.poc = FALSE, !.nuclei = FALSE])
  <2> DEFINE q == [s EXCEPT !.poc = FALSE]
             w == [s EXCEPT !.poc = FALSE, !.nuclei = FALSE]
  <2>1. /\ w.epss = s.epss /\ w.v3 = s.v3 /\ w.v2 = s.v2 /\ w.kev = s.kev /\ w.age = s.age
        /\ w.circl = s.circl /\ w.poc = FALSE /\ w.nuclei = FALSE
    BY DEF AnySignals
  <2> HIDE DEF w
  <2>2. EpssPoints(w) = EpssPoints(s) /\ Kev(w) = Kev(s) /\ Recency(w) = Recency(s)
    BY <2>1 DEF EpssPoints, Kev, Recency
  <2>3. Severity(w) = Severity(s) /\ CvssFor(w) = CvssFor(s)
    BY <2>1 DEF Severity, CvssFor
  <2>4. Exploitability(w) = 0
    BY <2>1 DEF Exploitability
  <2> DEFINE band == Band(Severity(s), CvssFor(s))
  <2>5. compute_priority_score(w) = Clamp(EpssPoints(s) + band + Kev(s) + Recency(s) + 0)
    <3>1. compute_priority_score(w)
          = Clamp(EpssPoints(w) + Band(Severity(w), CvssFor(w)) + Kev(w) + Recency(w) + Exploitability(w))
      BY ScoreIsASum, Zenon
    <3> QED
      BY <2>2, <2>3, <2>4, <3>1, Zenon
  <2>6. SyncScore(s) = Clamp(EpssPoints(s) + band + Kev(s) + Recency(s))
    <3>1. Band(Severity(s), OrZero(s.v3)) = band
      BY <1>2, BandsAgree, Zenon
    <3> QED
      BY <3>1, Zenon DEF SyncScore
  <2>7. EpssPoints(s) \in Nat /\ band \in Nat /\ Kev(s) \in Nat /\ Recency(s) \in Nat
    BY FactorTypes
  <2> HIDE DEF band
  <2>8. EpssPoints(s) + band + Kev(s) + Recency(s) + 0 = EpssPoints(s) + band + Kev(s) + Recency(s)
    BY <2>7
  <2>9. SyncScore(s) = compute_priority_score(w)
    BY <2>5, <2>6, <2>8, Zenon
  <2> QED
    BY <2>9 DEF w
<1>3. ScoringInv => ScoresAgreeOffTheEdges
  <2> SUFFICES ASSUME ScoringInv, signals.kind = "score" PROVE ScoresAgreeOffTheEdges
    BY DEF ScoresAgreeOffTheEdges
  <2>1. signals.s \in AnySignals
    BY DEF ScoringInv, NoSignals
  <2> QED
    BY <1>1, <1>2, <2>1, Zenon DEF ScoresAgreeOffTheEdges
<1> QED
  BY <1>3, ScoringInvariant, PTL

\* w is at least as bad as s in every signal, with the same kind of CVSS score.
AsBadAs(w, s) ==
    /\ w.epss >= s.epss
    /\ w.v3 = s.v3 \/ (s.v3 > 0 /\ w.v3 >= s.v3)
    /\ w.v2 = s.v2 \/ (s.v2 > 0 /\ w.v2 >= s.v2)
    /\ w.age = s.age \/ (0 <= w.age /\ w.age <= s.age)
    /\ (s.kev => w.kev) /\ (s.poc => w.poc) /\ (s.nuclei => w.nuclei)
    /\ w.circl = s.circl

\* Every factor is monotone on its own.
LEMMA FactorsAreMonotone ==
    ASSUME NEW s \in AnySignals, NEW w \in AnySignals, AsBadAs(w, s)
    PROVE  /\ EpssPoints(s) <= EpssPoints(w) /\ SqlEpss(s) <= SqlEpss(w)
           /\ Band(Severity(s), CvssFor(s)) <= Band(Severity(w), CvssFor(w))
           /\ SqlBand(s) <= SqlBand(w)
           /\ Recency(s) <= Recency(w) /\ SqlRecency(s) <= SqlRecency(w)
           /\ Kev(s) <= Kev(w)
           /\ Exploitability(s) <= Exploitability(w) /\ SqlExploitability(s) <= SqlExploitability(w)
<1>1. /\ s.epss \in Int /\ -1 <= s.epss /\ s.v3 \in Int /\ -1 <= s.v3 /\ s.v2 \in Int /\ -1 <= s.v2
      /\ w.epss \in Int /\ -1 <= w.epss /\ w.v3 \in Int /\ -1 <= w.v3 /\ w.v2 \in Int /\ -1 <= w.v2
      /\ s.age \in Int /\ -1 <= s.age /\ w.age \in Int /\ -1 <= w.age
      /\ s.circl \in BOOLEAN /\ w.circl \in BOOLEAN
  BY SignalFields
<1>2. EpssPoints(s) <= EpssPoints(w) /\ SqlEpss(s) <= SqlEpss(w)
  <2> DEFINE e == OrZero(s.epss)
             f == OrZero(w.epss)
  <2>1. e \in Nat /\ f \in Nat /\ e <= f
    BY <1>1 DEF AsBadAs, OrZero, None
  <2> HIDE DEF e, f
  <2>2. (e + 1) \div 2 <= (f + 1) \div 2
    BY <2>1
  <2>3. (IF e % 4 = 1 THEN e \div 2 ELSE (e + 1) \div 2)
        <= (IF f % 4 = 1 THEN f \div 2 ELSE (f + 1) \div 2)
    BY <2>1
  <2> QED
    BY <2>2, <2>3 DEF EpssPoints, SqlEpss, e, f
<1>3. /\ Band(Severity(s), CvssFor(s)) <= Band(Severity(w), CvssFor(w))
      /\ SqlBand(s) <= SqlBand(w)
  <2>1. CASE s.v3 > 0
    BY <1>1, <2>1 DEF AsBadAs, Band, SqlBand, Severity, BaseSeverity, CvssFor, OrZero, None
  <2>2. CASE s.v3 = 0
    BY <1>1, <2>2 DEF AsBadAs, Band, SqlBand, Severity, BaseSeverity, CvssFor, OrZero, None
  <2>3. CASE s.v3 = -1
    BY <1>1, <2>3 DEF AsBadAs, Band, SqlBand, Severity, BaseSeverity, CvssFor, OrZero, None
  <2> QED
    BY <1>1, <2>1, <2>2, <2>3
<1>4. Recency(s) <= Recency(w) /\ SqlRecency(s) <= SqlRecency(w)
  <2>1. CASE s.age = -1
    BY <1>1, <2>1 DEF AsBadAs, Recency, SqlRecency, None
  <2>2. CASE s.age # -1
    <3>1. s.age \in Nat /\ w.age \in Nat /\ w.age <= s.age
      BY <1>1, <2>2 DEF AsBadAs
    <3>2. (w.age \div 2) <= (s.age \div 2) /\ (w.age \div 2) \in Nat /\ (s.age \div 2) \in Nat
      BY <3>1
    <3> QED
      BY <3>1, <3>2 DEF Recency, SqlRecency, None
  <2> QED
    BY <2>1, <2>2
<1>5. Kev(s) <= Kev(w)
  BY DEF Kev, AsBadAs
<1>6. Exploitability(s) <= Exploitability(w) /\ SqlExploitability(s) <= SqlExploitability(w)
  BY DEF Exploitability, SqlExploitability, AsBadAs
<1> QED
  BY <1>2, <1>3, <1>4, <1>5, <1>6

\* Clamping a sum of five keeps the order of its parts.
LEMMA ClampedSums ==
    ASSUME NEW a \in Nat, NEW b \in Nat, NEW c \in Nat, NEW d \in Nat, NEW e \in Nat,
           NEW a2 \in Nat, NEW b2 \in Nat, NEW c2 \in Nat, NEW d2 \in Nat, NEW e2 \in Nat,
           a <= a2, b <= b2, c <= c2, d <= d2, e <= e2
    PROVE  Clamp(a + b + c + d + e) <= Clamp(a2 + b2 + c2 + d2 + e2)
BY DEF Clamp

\* What is worse in every signal is never ranked lower, by either of the two
\* expressions, and is never given more days.
LEMMA WorseRanksHigher ==
    ASSUME NEW s \in AnySignals, NEW w \in AnySignals, AsBadAs(w, s)
    PROVE  /\ compute_priority_score(s) <= compute_priority_score(w)
           /\ priority_expr(s) <= priority_expr(w)
           /\ compute_due_date(w, 0, 0) <= compute_due_date(s, 0, 0)
<1>1. compute_priority_score(s) <= compute_priority_score(w)
  <2> DEFINE BandOf(q) == Band(Severity(q), CvssFor(q))
  <2>1. ASSUME NEW q \in AnySignals
        PROVE  /\ EpssPoints(q) \in Nat /\ BandOf(q) \in Nat /\ Kev(q) \in Nat
               /\ Recency(q) \in Nat /\ Exploitability(q) \in Nat
    BY FactorTypes
  <2>2. /\ EpssPoints(s) <= EpssPoints(w) /\ BandOf(s) <= BandOf(w) /\ Kev(s) <= Kev(w)
        /\ Recency(s) <= Recency(w) /\ Exploitability(s) <= Exploitability(w)
    BY FactorsAreMonotone
  <2>3. \A q : compute_priority_score(q)
               = Clamp(EpssPoints(q) + BandOf(q) + Kev(q) + Recency(q) + Exploitability(q))
    BY ScoreIsASum, Zenon
  <2> HIDE DEF BandOf
  <2>4. Clamp(EpssPoints(s) + BandOf(s) + Kev(s) + Recency(s) + Exploitability(s))
        <= Clamp(EpssPoints(w) + BandOf(w) + Kev(w) + Recency(w) + Exploitability(w))
    BY <2>1, <2>2, ClampedSums
  <2> QED
    BY <2>3, <2>4, Zenon
<1>2. priority_expr(s) <= priority_expr(w)
  <2>1. ASSUME NEW q \in AnySignals
        PROVE  /\ SqlEpss(q) \in Nat /\ SqlBand(q) \in Nat /\ Kev(q) \in Nat
               /\ SqlRecency(q) \in Nat /\ SqlExploitability(q) \in Nat
    BY FactorTypes
  <2>2. /\ SqlEpss(s) <= SqlEpss(w) /\ SqlBand(s) <= SqlBand(w) /\ Kev(s) <= Kev(w)
        /\ SqlRecency(s) <= SqlRecency(w) /\ SqlExploitability(s) <= SqlExploitability(w)
    BY FactorsAreMonotone
  <2>3. \A q : priority_expr(q)
               = Clamp(SqlEpss(q) + SqlBand(q) + Kev(q) + SqlRecency(q) + SqlExploitability(q))
    BY Zenon DEF priority_expr
  <2>4. Clamp(SqlEpss(s) + SqlBand(s) + Kev(s) + SqlRecency(s) + SqlExploitability(s))
        <= Clamp(SqlEpss(w) + SqlBand(w) + Kev(w) + SqlRecency(w) + SqlExploitability(w))
    BY <2>1, <2>2, ClampedSums
  <2> QED
    BY <2>3, <2>4, Zenon
<1>3. compute_due_date(w, 0, 0) <= compute_due_date(s, 0, 0)
  <2>1. SlaDays(Severity(w), w.kev) <= SlaDays(Severity(s), s.kev)
    <3>1. /\ s.v3 \in Int /\ -1 <= s.v3 /\ s.v2 \in Int /\ -1 <= s.v2
          /\ w.v3 \in Int /\ -1 <= w.v3 /\ w.v2 \in Int /\ -1 <= w.v2
          /\ s.circl \in BOOLEAN /\ w.circl \in BOOLEAN /\ s.kev \in BOOLEAN /\ w.kev \in BOOLEAN
      BY SignalFields
    <3>2. CASE s.v3 > 0
      BY <3>1, <3>2 DEF AsBadAs, SlaDays, Severity, BaseSeverity, None
    <3>3. CASE s.v3 = 0
      BY <3>1, <3>3 DEF AsBadAs, SlaDays, Severity, BaseSeverity, None
    <3>4. CASE s.v3 = -1
      BY <3>1, <3>4 DEF AsBadAs, SlaDays, Severity, BaseSeverity, None
    <3> QED
      BY <3>1, <3>2, <3>3, <3>4
  <2>2. SlaDays(Severity(w), w.kev) \in Nat /\ SlaDays(Severity(s), s.kev) \in Nat
    BY DEF SlaDays
  <2>3. \A q : compute_due_date(q, 0, 0) = 0 + SlaDays(Severity(q), q.kev)
    BY DEF compute_due_date, None
  <2> QED
    BY <2>1, <2>2, <2>3
<1> QED
  BY <1>1, <1>2, <1>3

\* Each of the changes the runs try makes a CVE as bad as it was, or worse.
LEMMA WorseIsAsBad ==
    ASSUME NEW s \in AnySignals, NEW w \in Worse(s)
    PROVE  w \in AnySignals /\ AsBadAs(w, s)
<1>1. Epss \subseteq 0..80 /\ Cvss \subseteq 0..100 /\ Age \subseteq Nat
  BY ScoringAssumption
<1>2. /\ s.epss \in Int /\ s.v3 \in Int /\ s.v2 \in Int /\ s.age \in Int
  BY SignalFields
<1>3. CASE w = [s EXCEPT !.kev = TRUE]
  <2>1. /\ w.epss = s.epss /\ w.v3 = s.v3 /\ w.v2 = s.v2 /\ w.age = s.age
        /\ w.poc = s.poc /\ w.nuclei = s.nuclei /\ w.circl = s.circl /\ w.kev = TRUE
    BY <1>3 DEF AnySignals
  <2>2. w \in AnySignals
    <3>1. [s EXCEPT !.kev = TRUE] \in AnySignals
      BY Zenon DEF AnySignals
    <3> QED
      BY <1>3, <3>1, Zenon
  <2>3. s.epss >= s.epss
    BY <1>2
  <2> QED
    BY <2>1, <2>2, <2>3, Zenon DEF AsBadAs
<1>4. CASE w = [s EXCEPT !.poc = TRUE]
  <2>1. /\ w.epss = s.epss /\ w.v3 = s.v3 /\ w.v2 = s.v2 /\ w.kev = s.kev
        /\ w.age = s.age /\ w.nuclei = s.nuclei /\ w.circl = s.circl /\ w.poc = TRUE
    BY <1>4 DEF AnySignals
  <2>2. w \in AnySignals
    <3>1. [s EXCEPT !.poc = TRUE] \in AnySignals
      BY Zenon DEF AnySignals
    <3> QED
      BY <1>4, <3>1, Zenon
  <2>3. s.epss >= s.epss
    BY <1>2
  <2> QED
    BY <2>1, <2>2, <2>3, Zenon DEF AsBadAs
<1>5. CASE w = [s EXCEPT !.nuclei = TRUE]
  <2>1. /\ w.epss = s.epss /\ w.v3 = s.v3 /\ w.v2 = s.v2 /\ w.kev = s.kev
        /\ w.age = s.age /\ w.poc = s.poc /\ w.circl = s.circl /\ w.nuclei = TRUE
    BY <1>5 DEF AnySignals
  <2>2. w \in AnySignals
    <3>1. [s EXCEPT !.nuclei = TRUE] \in AnySignals
      BY Zenon DEF AnySignals
    <3> QED
      BY <1>5, <3>1, Zenon
  <2>3. s.epss >= s.epss
    BY <1>2
  <2> QED
    BY <2>1, <2>2, <2>3, Zenon DEF AsBadAs
<1>6. ASSUME NEW e \in Epss, e >= s.epss, w = [s EXCEPT !.epss = e]
      PROVE  w \in AnySignals /\ AsBadAs(w, s)
  BY <1>1, <1>2, <1>6 DEF AnySignals, AsBadAs
<1>7. ASSUME NEW c \in Cvss, s.v3 > 0, c >= s.v3, w = [s EXCEPT !.v3 = c]
      PROVE  w \in AnySignals /\ AsBadAs(w, s)
  BY <1>1, <1>2, <1>7 DEF AnySignals, AsBadAs
<1>8. ASSUME NEW c \in Cvss, s.v2 > 0, c >= s.v2, w = [s EXCEPT !.v2 = c]
      PROVE  w \in AnySignals /\ AsBadAs(w, s)
  BY <1>1, <1>2, <1>8 DEF AnySignals, AsBadAs
<1>9. ASSUME NEW a \in Age, a <= s.age, w = [s EXCEPT !.age = a]
      PROVE  w \in AnySignals /\ AsBadAs(w, s)
  BY <1>1, <1>2, <1>9 DEF AnySignals, AsBadAs
<1> QED
  BY <1>3, <1>4, <1>5, <1>6, <1>7, <1>8, <1>9 DEF Worse

\* The priority score and the SLA are monotone in every signal.
THEOREM ScoresAreMonotone == ScoringSpec => []ScoreIsMonotone
<1>1. ScoringInv => ScoreIsMonotone
  <2> SUFFICES ASSUME ScoringInv, signals.kind = "score", NEW w \in Worse(signals.s)
               PROVE  /\ compute_priority_score(signals.s) <= compute_priority_score(w)
                      /\ priority_expr(signals.s) <= priority_expr(w)
                      /\ compute_due_date(w, 0, 0) <= compute_due_date(signals.s, 0, 0)
    BY Zenon DEF ScoreIsMonotone
  <2>1. signals.s \in AnySignals
    BY DEF ScoringInv, NoSignals
  <2> QED
    BY <2>1, WorseIsAsBad, WorseRanksHigher, Zenon
<1> QED
  BY <1>1, ScoringInvariant, PTL
-----------------------------------------------------------------------------
(***************************************************************************)
(* The elector, for any number of processes, any TTL and any number of     *)
(* lost connections.                                                       *)
(***************************************************************************)

\* What is left of a node's grant is what is left of the key it was granted:
\* while it lasts, the key is the node's.
LeaseIsTheKey ==
    \A n \in Node : lease[n] > 0 => key = [owner |-> n, ttl |-> lease[n]]

ElectorInv == ElectorTypeOK /\ LeaseIsTheKey

\* What a step of a node may do to the key and to the grants: leave them
\* alone, give a free key to the node, extend the node's own key, drop the
\* node's own key.
KeyStep(n) ==
    \/ UNCHANGED <<key, lease>>
    \/ /\ key.owner \in {Nobody, n}
       /\ key' = [owner |-> n, ttl |-> Ttl]
       /\ lease' = [lease EXCEPT ![n] = Ttl]
    \/ /\ key.owner = n
       /\ key' = NoKey
       /\ lease' = [lease EXCEPT ![n] = 0]
       /\ call'[n].cmd = "release"

USE LeaderAssumption

\* Send, whatever the command, is a KeyStep and keeps the types of call.
LEMMA SendStep ==
    ASSUME ElectorTypeOK, NEW n \in Node, NEW cmd \in Command, Send(n, cmd)
    PROVE  /\ KeyStep(n)
           /\ call' \in [Node -> {NoCall} \cup [cmd : Command, answer : Answer]]
<1>1. ASSUME NEW c \in Command, NEW a \in Answer, Await(n, c, a)
      PROVE  /\ call' \in [Node -> {NoCall} \cup [cmd : Command, answer : Answer]]
             /\ call'[n].cmd = c
  BY <1>1 DEF ElectorTypeOK, Await
<1>2. "yes" \in Answer /\ "no" \in Answer /\ "error" \in Answer
      /\ "acquire" \in Command /\ "refresh" \in Command /\ "release" \in Command
  BY DEF Answer, Command
<1>3. CASE n \in cut
  BY <1>1, <1>2, <1>3 DEF Send, KeyStep
<1>4. CASE n \notin cut /\ SetNx(n)
  BY <1>1, <1>2, <1>4 DEF SetNx, Grant, Refuse, KeyStep
<1>5. CASE n \notin cut /\ Extend(n)
  BY <1>1, <1>2, <1>5 DEF Extend, Grant, Refuse, KeyStep
<1>6. CASE n \notin cut /\ Delete(n)
  BY <1>1, <1>2, <1>6 DEF Delete, Drop, Refuse, KeyStep
<1> QED
  BY <1>3, <1>4, <1>5, <1>6 DEF Send

\* A KeyStep keeps the key and the grants well typed and in agreement.
LEMMA KeyStepPreserves ==
    ASSUME ElectorInv, NEW n \in Node, KeyStep(n)
    PROVE  /\ key' \in [owner : Node \cup {Nobody}, ttl : 0..Ttl]
           /\ key'.owner = Nobody <=> key'.ttl = 0
           /\ lease' \in [Node -> 0..Ttl]
           /\ LeaseIsTheKey'
<1> USE DEF ElectorInv, ElectorTypeOK
<1>1. CASE UNCHANGED <<key, lease>>
  BY <1>1 DEF LeaseIsTheKey
<1>2. CASE /\ key.owner \in {Nobody, n}
           /\ key' = [owner |-> n, ttl |-> Ttl]
           /\ lease' = [lease EXCEPT ![n] = Ttl]
  <2>1. ASSUME NEW m \in Node, m # n PROVE lease[m] = 0
    BY <1>2, <2>1 DEF LeaseIsTheKey
  <2> QED
    BY <1>2, <2>1 DEF LeaseIsTheKey
<1>3. CASE /\ key.owner = n
           /\ key' = NoKey
           /\ lease' = [lease EXCEPT ![n] = 0]
  <2>1. ASSUME NEW m \in Node, m # n PROVE lease[m] = 0
    BY <1>3, <2>1 DEF LeaseIsTheKey
  <2> QED
    BY <1>3, <2>1 DEF LeaseIsTheKey, NoKey
<1> QED
  BY <1>1, <1>2, <1>3 DEF KeyStep

\* Every step of a node is a KeyStep and keeps the rest of the state typed.
LEMMA NodeStepPreserves ==
    ASSUME ElectorInv, NEW n \in Node, NodeStep(n)
    PROVE  ElectorInv' /\ KeyStep(n)
<1> USE DEF ElectorInv
<1>0. /\ "acquire" \in Command /\ "refresh" \in Command /\ "release" \in Command
      /\ Life = {"new", "starting", "up", "stopping", "gone"}
  BY DEF Command, Life
<1>1. CASE Launch(n)
  <2>1. KeyStep(n) /\ call' \in [Node -> {NoCall} \cup [cmd : Command, answer : Answer]]
    BY <1>0, <1>1, SendStep DEF Launch
  <2> QED
    BY <1>0, <1>1, <2>1, KeyStepPreserves DEF Launch, ElectorTypeOK
<1>2. CASE Wake(n)
  <2>1. KeyStep(n) /\ call' \in [Node -> {NoCall} \cup [cmd : Command, answer : Answer]]
    BY <1>0, <1>2, SendStep DEF Wake
  <2> QED
    BY <1>2, <2>1, KeyStepPreserves DEF Wake, ElectorTypeOK
<1>3. CASE Return(n)
  <2>1. KeyStep(n)
    BY <1>3 DEF Return, KeyStep
  <2>2. Belief(n) \in BOOLEAN
    BY DEF Belief
  <2> QED
    BY <1>0, <1>3, <2>1, <2>2, KeyStepPreserves DEF Return, ElectorTypeOK
<1>4. CASE CronTick(n)
  BY <1>4, KeyStepPreserves DEF CronTick, KeyStep, ElectorTypeOK
<1>5. CASE CronDone(n)
  BY <1>5, KeyStepPreserves DEF CronDone, KeyStep, ElectorTypeOK
<1>6. CASE Shutdown(n)
  <2>1. KeyStep(n) /\ call' \in [Node -> {NoCall} \cup [cmd : Command, answer : Answer]]
    <3>1. CASE Send(n, "release")
      BY <1>0, <3>1, SendStep
    <3>2. CASE UNCHANGED <<key, lease>> /\ call' = [call EXCEPT ![n] = NoCall]
      BY <3>2 DEF KeyStep, ElectorTypeOK
    <3> QED
      BY <1>6, <3>1, <3>2 DEF Shutdown
  <2> QED
    BY <1>0, <1>6, <2>1, KeyStepPreserves DEF Shutdown, ElectorTypeOK
<1>7. CASE Released(n)
  BY <1>0, <1>7, KeyStepPreserves DEF Released, KeyStep, ElectorTypeOK
<1>8. CASE Crash(n)
  BY <1>0, <1>8, KeyStepPreserves DEF Crash, KeyStep, ElectorTypeOK
<1>9. CASE Cut(n)
  <2>1. KeyStep(n)
    BY <1>9 DEF Cut, KeyStep
  <2>2. call' \in [Node -> {NoCall} \cup [cmd : Command, answer : Answer]]
    BY <1>9 DEF Cut, ElectorTypeOK, Answer
  <2> QED
    BY <1>9, <2>1, <2>2, KeyStepPreserves DEF Cut, ElectorTypeOK
<1>10. CASE Heal(n)
  BY <1>10, KeyStepPreserves DEF Heal, KeyStep, ElectorTypeOK
<1> QED
  BY <1>1, <1>2, <1>3, <1>4, <1>5, <1>6, <1>7, <1>8, <1>9, <1>10 DEF NodeStep

\* Time takes the same from the key as from the grants.
LEMMA ElectorTickStep ==
    ASSUME ElectorInv, ElectorTick
    PROVE  ElectorInv'
<1> USE DEF ElectorInv, ElectorTypeOK, ElectorTick
<1>1. key' \in [owner : Node \cup {Nobody}, ttl : 0..Ttl] /\ (key'.owner = Nobody <=> key'.ttl = 0)
  BY DEF NoKey
<1>2. sleep' \in [Node -> 0..1] /\ lease' \in [Node -> 0..Ttl]
  BY DEF Sooner
<1>3. ASSUME NEW n \in Node, lease'[n] > 0
      PROVE  key' = [owner |-> n, ttl |-> lease'[n]]
  <2>1. lease[n] > 1 /\ lease'[n] = lease[n] - 1
    BY <1>3 DEF Sooner
  <2>2. key = [owner |-> n, ttl |-> lease[n]]
    BY <2>1 DEF LeaseIsTheKey
  <2> QED
    BY <2>1, <2>2
<1> QED
  BY <1>1, <1>2, <1>3 DEF LeaseIsTheKey

\* The inductive invariant holds in every reachable state.
THEOREM ElectorInvariant == ElectorSpec => []ElectorInv
<1>1. ElectorInit => ElectorInv
  BY DEF ElectorInit, ElectorInv, ElectorTypeOK, LeaseIsTheKey, NoKey, Life
<1>2. ElectorInv /\ [ElectorNext]_electorVars => ElectorInv'
  <2> SUFFICES ASSUME ElectorInv, [ElectorNext]_electorVars PROVE ElectorInv'
    OBVIOUS
  <2>1. CASE ElectorTick
    BY <2>1, ElectorTickStep
  <2>2. ASSUME NEW n \in Node, NodeStep(n) PROVE ElectorInv'
    BY <2>2, NodeStepPreserves
  <2>3. CASE UNCHANGED electorVars
    BY <2>3 DEF electorVars, ElectorInv, ElectorTypeOK, LeaseIsTheKey
  <2> QED
    BY <2>1, <2>2, <2>3 DEF ElectorNext
<1> QED
  BY <1>1, <1>2, PTL DEF ElectorSpec

\* The elector's state is always well typed; in particular the key has an
\* owner exactly as long as it has time to live.
THEOREM ElectorTypes == ElectorSpec => []ElectorTypeOK
<1>1. ElectorInv => ElectorTypeOK
  BY DEF ElectorInv
<1> QED
  BY <1>1, ElectorInvariant, PTL

\* At most one leader has had its lock extended within the last TTL, however
\* many processes compete and however late their answers arrive.
THEOREM FreshLeaderIsUnique == ElectorSpec => []OneFreshLeader
<1>1. ElectorInv => OneFreshLeader
  BY DEF ElectorInv, LeaseIsTheKey, OneFreshLeader
<1> QED
  BY <1>1, ElectorInvariant, PTL

\* No refresh, acquire or release of one process ends another one's lock.
THEOREM LockStaysWithItsOwner == ElectorSpec => LockIsNotStolen
<1> DEFINE Kept ==
      key.ttl > 0 /\ key'.owner # key.owner =>
          \/ key.ttl = 1 /\ key' = NoKey
          \/ key' = NoKey /\ call'[key.owner].cmd = "release"
<1>1. ElectorInv /\ [ElectorNext]_electorVars => [Kept]_electorVars
  <2> SUFFICES ASSUME ElectorInv, [ElectorNext]_electorVars PROVE Kept \/ UNCHANGED electorVars
    OBVIOUS
  <2>1. CASE ElectorTick
    BY <2>1 DEF ElectorTick, ElectorInv, ElectorTypeOK
  <2>2. ASSUME NEW n \in Node, NodeStep(n) PROVE Kept
    BY <2>2, NodeStepPreserves DEF KeyStep, ElectorInv, ElectorTypeOK
  <2> QED
    BY <2>1, <2>2 DEF ElectorNext
<1> QED
  BY <1>1, ElectorInvariant, PTL DEF ElectorSpec, LockIsNotStolen
=============================================================================

------------------------------ MODULE Scoring ------------------------------
(***************************************************************************)
(* app/models/priority.py; the SQL expression of GET /cves and             *)
(* /dashboard/triage that "mirrors compute_priority_score()";              *)
(* app/services/sla.py.  Pure functions; the variable holds one set of     *)
(* arguments.                                                              *)
(*                                                                         *)
(* EPSS is given in 80ths (two of them are one point, so that halves       *)
(* occur), CVSS in tenths, the age of a CVE in half days.  None is NULL.   *)
(***************************************************************************)
EXTENDS Integers

CONSTANTS
    Epss, Cvss, Age,    \* the values the runs go through
    Today, DueDate      \* days, for due dates

None == -1

ASSUME ScoringAssumption ==
    /\ Epss \subseteq 0..80 /\ Cvss \subseteq 0..100 /\ Age \subseteq Nat
    /\ Today \subseteq Nat /\ DueDate \subseteq Nat

\* CIRCL's records have no v3 score.
Signals ==
    {s \in [epss : Epss \cup {None}, v3 : Cvss \cup {None}, v2 : Cvss \cup {None},
            kev : BOOLEAN, age : Age \cup {None}, poc : BOOLEAN, nuclei : BOOLEAN,
            circl : BOOLEAN] :
        s.circl => s.v3 = None}

OrZero(x) == IF x = None THEN 0 ELSE x
Kev(s) == IF s.kev THEN 25 ELSE 0
Clamp(n) == IF n > 100 THEN 100 ELSE IF n < 0 THEN 0 ELSE n

\* The base severity of a CVSS v3 score, as the feeds give it.
BaseSeverity(v3) ==
    IF v3 >= 90 THEN "CRITICAL" ELSE IF v3 >= 70 THEN "HIGH"
    ELSE IF v3 >= 40 THEN "MEDIUM" ELSE IF v3 > 0 THEN "LOW" ELSE "NONE"

\* cves.severity: from v3 when there is one, else from v2, which has no
\* CRITICAL but in what comes from CIRCL.
Severity(s) ==
    IF s.v3 # None THEN BaseSeverity(s.v3)
    ELSE IF s.v2 = None THEN ""
    ELSE IF s.circl /\ s.v2 >= 90 THEN "CRITICAL"
    ELSE IF s.v2 >= 70 THEN "HIGH" ELSE IF s.v2 >= 40 THEN "MEDIUM" ELSE "LOW"

-----------------------------------------------------------------------------
\* Python's round goes to the even neighbour at a half.
EpssPoints(s) ==
    LET e == OrZero(s.epss) IN IF e % 4 = 1 THEN e \div 2 ELSE (e + 1) \div 2

\* cvss_v3_score or cvss_v2_score: a v3 score of 0.0 counts as missing.
CvssFor(s) == IF OrZero(s.v3) # 0 THEN s.v3 ELSE OrZero(s.v2)

\* Mutant: HIGH is tested before CRITICAL.
BandHighFirst(severity, cvss) ==
    IF severity = "HIGH" \/ cvss >= 70 THEN 18
    ELSE IF severity = "CRITICAL" \/ cvss >= 90 THEN 25
    ELSE IF severity = "MEDIUM" \/ cvss >= 40 THEN 10
    ELSE IF severity = "LOW" \/ cvss > 0 THEN 4 ELSE 0

Band(severity, cvss) ==
    IF severity = "CRITICAL" \/ cvss >= 90 THEN 25
    ELSE IF severity = "HIGH" \/ cvss >= 70 THEN 18
    ELSE IF severity = "MEDIUM" \/ cvss >= 40 THEN 10
    ELSE IF severity = "LOW" \/ cvss > 0 THEN 4 ELSE 0

\* timedelta.days counts whole days.
Recency(s) ==
    LET days == s.age \div 2 IN
    IF s.age = None THEN 0
    ELSE IF days <= 30 THEN 10 ELSE IF days <= 90 THEN 6 ELSE IF days <= 365 THEN 3 ELSE 0

\* Mutant: the flags are looked at in the other order.
ExploitabilityPocFirst(s) == IF s.poc THEN 5 ELSE IF s.nuclei THEN 8 ELSE 0

Exploitability(s) == IF s.nuclei THEN 8 ELSE IF s.poc THEN 5 ELSE 0

compute_priority_factors(s) ==
    [epss |-> EpssPoints(s), cvss |-> Band(Severity(s), CvssFor(s)), kev |-> Kev(s),
     recency |-> Recency(s), exploitability |-> Exploitability(s)]

compute_priority_score(s) ==
    LET f == compute_priority_factors(s) IN
    Clamp(f.epss + f.cvss + f.kev + f.recency + f.exploitability)

\* The score a product sync stores: v3 only, and no flags.
SyncScore(s) ==
    Clamp(EpssPoints(s) + Band(Severity(s), OrZero(s.v3)) + Kev(s) + Recency(s))

-----------------------------------------------------------------------------
\* PostgreSQL's ROUND of a numeric goes away from zero at a half, a NULL
\* compares as not true, and intervals are compared exactly.
SqlEpss(s) == (OrZero(s.epss) + 1) \div 2

SqlBand(s) ==
    IF Severity(s) = "CRITICAL" \/ s.v3 >= 90 THEN 25
    ELSE IF Severity(s) = "HIGH" \/ s.v3 >= 70 THEN 18
    ELSE IF Severity(s) = "MEDIUM" \/ s.v3 >= 40 THEN 10
    ELSE IF Severity(s) = "LOW" \/ s.v3 > 0 \/ s.v2 > 0 THEN 4 ELSE 0

SqlRecency(s) ==
    IF s.age = None THEN 0
    ELSE IF s.age <= 60 THEN 10 ELSE IF s.age <= 180 THEN 6 ELSE IF s.age <= 730 THEN 3 ELSE 0

SqlExploitability(s) == IF s.nuclei THEN 8 ELSE IF s.poc THEN 5 ELSE 0

priority_expr(s) ==
    Clamp(SqlEpss(s) + SqlBand(s) + Kev(s) + SqlRecency(s) + SqlExploitability(s))

-----------------------------------------------------------------------------
\* app/services/sla.py.  Days are counted from the publication, without one
\* from the creation of the finding.  A finding may have no due date.
SlaDays(severity, kev) ==
    IF kev THEN 3
    ELSE CASE severity = "CRITICAL" -> 7 [] severity = "HIGH" -> 30
           [] severity = "LOW" -> 180 [] OTHER -> 90

compute_due_date(s, published, created) ==
    (IF published = None THEN created ELSE published) + SlaDays(Severity(s), s.kev)

Closed == {"remediated", "closed", "false_positive"}
Open == {"open", "in_review", "planned"}
Status == Closed \cup Open \cup {"accepted_risk"}

\* Mutant: the due date itself is late.
SlaStateEarly(status, due, today) ==
    IF status \in Closed THEN "met" ELSE IF due = None THEN "on_track"
    ELSE IF due <= today THEN "breached"
    ELSE IF due - today <= 7 THEN "at_risk" ELSE "on_track"

compute_sla_state(status, due, today) ==
    IF status \in Closed THEN "met" ELSE IF due = None THEN "on_track"
    ELSE IF due < today THEN "breached"
    ELSE IF due - today <= 7 THEN "at_risk" ELSE "on_track"

days_overdue(due, today) == IF due = None \/ due >= today THEN 0 ELSE today - due

\* The counts of the daily snapshot (and of the dashboards) test the columns
\* themselves.
breached_count(status, due, today) == status \in Open /\ due # None /\ due < today
at_risk_count(status, due, today) ==
    status \in Open /\ due # None /\ due >= today /\ due <= today + 7

-----------------------------------------------------------------------------
VARIABLE signals

NoSignals == [kind |-> "none"]
ScoringInit == signals = NoSignals

ScoreCase ==
    /\ signals = NoSignals
    /\ \E s \in Signals : signals' = [kind |-> "score", s |-> s]

SlaCase ==
    /\ signals = NoSignals
    /\ \E st \in Status, due \in DueDate \cup {None}, today \in Today :
        signals' = [kind |-> "sla", status |-> st, due |-> due, today |-> today]

ScoringSpec == ScoringInit /\ [][ScoreCase \/ SlaCase]_signals

-----------------------------------------------------------------------------
\* Between two inputs with the same kind of CVSS score, the one that is worse
\* in every signal never ranks lower, in Python or in SQL, and is never given
\* more days.
Worse(s) ==
    {[s EXCEPT !.kev = TRUE], [s EXCEPT !.poc = TRUE], [s EXCEPT !.nuclei = TRUE]}
    \cup {[s EXCEPT !.epss = e] : e \in {e \in Epss : e >= s.epss}}
    \cup {[s EXCEPT !.v3 = c] : c \in {c \in Cvss : s.v3 > 0 /\ c >= s.v3}}
    \cup {[s EXCEPT !.v2 = c] : c \in {c \in Cvss : s.v2 > 0 /\ c >= s.v2}}
    \cup {[s EXCEPT !.age = a] : a \in {a \in Age : a <= s.age}}

ScoreIsMonotone ==
    signals.kind = "score" =>
        \A w \in Worse(signals.s) :
            /\ compute_priority_score(signals.s) <= compute_priority_score(w)
            /\ priority_expr(signals.s) <= priority_expr(w)
            /\ compute_due_date(w, 0, 0) <= compute_due_date(signals.s, 0, 0)

\* "mirrors compute_priority_score()": the listing's expression gives the
\* score of the stored one but for three edges: EPSS that falls on half a
\* point, an age within the day after 30, 90 and 365 days, and v2 scores of
\* 9.0 and more (or standing in for a v3 score of 0.0).  What a product sync
\* stores is that score too, but for the flags and the same v2 scores.
V2Counts(s, least) ==
    \/ s.v3 = None /\ ~s.circl /\ s.v2 >= 90
    \/ s.v3 = 0 /\ s.v2 >= least

OnAnEdge(s) ==
    OrZero(s.epss) % 4 = 1 \/ s.age \in {61, 181, 731} \/ V2Counts(s, 40)

ScoresAgreeOffTheEdges ==
    signals.kind = "score" =>
        LET s == signals.s IN
        /\ ~OnAnEdge(s) => priority_expr(s) = compute_priority_score(s)
        /\ ~V2Counts(s, 1) =>
            SyncScore(s) = compute_priority_score([s EXCEPT !.poc = FALSE, !.nuclei = FALSE])

\* What /findings/sla calls breached or at risk is what the snapshot counts as
\* that, but for accepted risks, which only the former goes on to judge; what
\* has days overdue is breached or closed; and a finding nobody touches only gets
\* worse with the days.
Rank(state) == CASE state = "met" -> 0 [] state = "on_track" -> 1 [] state = "at_risk" -> 2 [] OTHER -> 3

SlaViewsAgree ==
    signals.kind = "sla" =>
        LET status == signals.status
            due == signals.due
            today == signals.today
            State(day) == compute_sla_state(status, due, day)
        IN /\ breached_count(status, due, today)
                <=> State(today) = "breached" /\ status # "accepted_risk"
           /\ at_risk_count(status, due, today)
                <=> State(today) = "at_risk" /\ status # "accepted_risk"
           /\ days_overdue(due, today) > 0 => State(today) \in {"breached", "met"}
           /\ \A later \in {d \in Today : d >= today} : Rank(State(today)) <= Rank(State(later))
=============================================================================

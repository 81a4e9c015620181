-------------------------- MODULE FindingLifecycle --------------------------
(***************************************************************************)
(* The findings table, its findings_history, and risk_acceptances, under   *)
(* the requests and jobs that write them concurrently: PATCH on a finding, *)
(* request and decision of a risk acceptance, soft-delete of a product,    *)
(* the finding upsert of a product sync, the daily expiry sweep, and the   *)
(* daily retention, whose DELETE of old CVEs cascades to both tables.      *)
(*                                                                         *)
(* A handler that reads outside the transaction it writes in has two       *)
(* steps; a transaction is one step.                                       *)
(***************************************************************************)
EXTENDS Integers, Sequences, FiniteSets

CONSTANTS
    Finding,        \* ids of rows of findings (BIGSERIAL: never used again)
    Product,
    Cve,
    ProductOf,      \* the product_id of a finding
    CveOf,          \* the cve_id of a finding
    Acceptance,     \* ids of rows of risk_acceptances (BIGSERIAL)
    User,           \* JWT subjects with the analyst role
    Nobody,         \* approved_by IS NULL
    Request,        \* bound: HTTP requests ever made to the two-step handlers,
                    \* numbered as they arrive
    PatchStatus,    \* the statuses PATCH requests ask for
    MaxDay          \* bound: days that pass

Status == {"open", "in_review", "false_positive", "accepted_risk",
           "planned", "remediated", "closed"}

ASSUME LifecycleAssumption ==
    /\ ProductOf \in [Finding -> Product]
    /\ CveOf \in [Finding -> Cve]
    /\ Nobody \notin User
    /\ Finding \subseteq Nat /\ Acceptance \subseteq Nat /\ Request \subseteq Nat
    /\ IsFiniteSet(Acceptance)          \* a table has finitely many rows
    /\ PatchStatus \subseteq Status     \* _VALID_STATUSES: others are refused
    /\ MaxDay \in Nat

VARIABLES
    finding,        \* per id: findings.status, "absent" before the row is
                    \* inserted and "gone" once it is deleted
    history,        \* per finding: its findings_history rows, in order
    deleted,        \* products whose is_deleted is set
    acceptance,     \* the risk_acceptances rows
    request,        \* per request: what its handler read, "new" or "done"
    sweep,          \* the expiry sweep's open transaction: the due rows it locked
    day             \* CURRENT_DATE

vars == <<finding, history, deleted, acceptance, request, sweep, day>>

-----------------------------------------------------------------------------
Decision == {"approved", "rejected"}
Expiry == 1..(MaxDay - 1)

HistoryRow == [old : Status, new : Status]
AcceptanceRow == [status : {"pending", "expired"} \cup Decision, finding : Finding,
                  requestedBy : User, approvedBy : User \cup {Nobody}, expires : Expiry]
NoAcceptance == [status |-> "absent"]
GoneAcceptance == [status |-> "gone"]

New == [op |-> "new"]
Done == [op |-> "done"]
RequestState ==
    {New, Done}
    \cup [op : {"patch"}, finding : Finding, to : Status, seen : Status]
    \cup [op : {"create"}, finding : Finding, user : User, expires : Expiry]
    \cup [op : {"decide"}, acceptance : Acceptance, finding : Finding,
          user : User, to : Decision]

\* A row of the sweep's result set: the acceptance and its finding's status.
DueRow == [acceptance : Acceptance, finding : Finding, seen : Status]

TypeOK ==
    /\ finding \in [Finding -> Status \cup {"absent", "gone"}]
    /\ history \in [Finding -> Seq(HistoryRow)]
    /\ deleted \subseteq Product
    /\ acceptance \in [Acceptance -> AcceptanceRow \cup {NoAcceptance, GoneAcceptance}]
    /\ request \in [Request -> RequestState]
    /\ sweep \subseteq DueRow
    /\ day \in 0..MaxDay

Init ==
    /\ finding = [f \in Finding |-> "absent"]
    /\ history = [f \in Finding |-> <<>>]
    /\ deleted = {}
    /\ acceptance = [a \in Acceptance |-> NoAcceptance]
    /\ request = [r \in Request |-> New]
    /\ sweep = {}
    /\ day = 0

\* The row of this id is in the table.
Present(f) == finding[f] \in Status

\* The rows of f's (product_id, cve_id), of which UNIQUE allows one at a time.
PairOf(f) == {g \in Finding : ProductOf[g] = ProductOf[f] /\ CveOf[g] = CveOf[f]}

Log(f, old, new) == history' = [history EXCEPT ![f] = Append(@, [old |-> old, new |-> new])]

\* The next request to arrive.
Arrives(r) == request[r] = New /\ \A q \in Request : request[q] = New => r <= q

Finished(r) == request' = [request EXCEPT ![r] = Done]

-----------------------------------------------------------------------------
\* PATCH /findings/{product_id}/{cve_id} with a status: update_finding.

PatchRead(r, f, s) ==
    /\ Arrives(r)
    /\ Present(f)
    /\ request' = [request EXCEPT ![r] =
          [op |-> "patch", finding |-> f, to |-> s, seen |-> finding[f]]]
    /\ UNCHANGED <<finding, history, deleted, acceptance, sweep, day>>

\* The history row is written when the status asked for differs from the one
\* read before the transaction.  The UPDATE names the pair, the history row the
\* id that was read: if that row is gone its foreign key fails the transaction.
PatchCommit(r) ==
    /\ request[r].op = "patch"
    /\ LET f == request[r].finding
           to == request[r].to
           seen == request[r].seen
       IN \/ /\ to # seen /\ Present(f)
             /\ finding' = [finding EXCEPT ![f] = to]
             /\ Log(f, seen, to)
          \/ to # seen /\ ~Present(f) /\ UNCHANGED <<finding, history>>
          \/ /\ to = seen
             /\ finding' = [g \in Finding |->
                   IF g \in PairOf(f) /\ Present(g) THEN to ELSE finding[g]]
             /\ UNCHANGED history
    /\ Finished(r)
    /\ UNCHANGED <<deleted, acceptance, sweep, day>>

-----------------------------------------------------------------------------
\* POST and PATCH .../risk-acceptance.

CreateRead(r, f, u, e) ==
    /\ Arrives(r)
    /\ Present(f) /\ finding[f] \notin {"remediated", "closed", "false_positive"}
    /\ e > day
    /\ request' = [request EXCEPT ![r] =
          [op |-> "create", finding |-> f, user |-> u, expires |-> e]]
    /\ UNCHANGED <<finding, history, deleted, acceptance, sweep, day>>

\* The foreign key refuses an acceptance of a finding that went meanwhile.
CreateCommit(r) ==
    /\ request[r].op = "create"
    /\ \/ /\ Present(request[r].finding)
          /\ \E a \in Acceptance :
                /\ acceptance[a] = NoAcceptance
                /\ \A b \in Acceptance : acceptance[b] = NoAcceptance => a <= b
                /\ acceptance' = [acceptance EXCEPT ![a] =
                      [status |-> "pending", finding |-> request[r].finding,
                       requestedBy |-> request[r].user, approvedBy |-> Nobody,
                       expires |-> request[r].expires]]
       \/ ~Present(request[r].finding) /\ UNCHANGED acceptance
    /\ Finished(r)
    /\ UNCHANGED <<finding, history, deleted, sweep, day>>

\* Mutant: the segregation-of-duties test is missing.
OwnDecisionAllowed(a, u, d) == acceptance[a].status = "pending"

\* The 409 tests of decide_risk_acceptance.
MayDecide(a, u, d) ==
    /\ acceptance[a].status = "pending"
    /\ ~(d = "approved" /\ acceptance[a].requestedBy = u)

DecideRead(r, a, u, d) ==
    /\ Arrives(r)
    /\ MayDecide(a, u, d)
    /\ request' = [request EXCEPT ![r] =
          [op |-> "decide", acceptance |-> a, finding |-> acceptance[a].finding,
           user |-> u, to |-> d]]
    /\ UNCHANGED <<finding, history, deleted, acceptance, sweep, day>>

\* Mutant: an approval that leaves no history row.
AcceptUnlogged(f) ==
    /\ finding' = [finding EXCEPT ![f] = "accepted_risk"]
    /\ UNCHANGED history

\* An approval's effect on the finding; old_status is the literal 'open'.
Accept(f) ==
    /\ finding' = [finding EXCEPT ![f] = "accepted_risk"]
    /\ Log(f, "open", "accepted_risk")

\* The UPDATE is by id alone; it waits for the sweep's row lock.  Of an
\* acceptance that went meanwhile a rejection updates no row, and an approval
\* fails on the foreign key of its history row.
DecideCommit(r) ==
    /\ request[r].op = "decide"
    /\ LET a == request[r].acceptance
           to == request[r].to
       IN \/ /\ acceptance[a] # GoneAcceptance
             /\ \A d \in sweep : d.acceptance # a
             /\ acceptance' = [acceptance EXCEPT ![a].status = to,
                                                 ![a].approvedBy = request[r].user]
             /\ \/ to = "approved" /\ Accept(request[r].finding)
                \/ to = "rejected" /\ UNCHANGED <<finding, history>>
          \/ /\ acceptance[a] = GoneAcceptance
             /\ UNCHANGED <<finding, history, acceptance>>
    /\ Finished(r)
    /\ UNCHANGED <<deleted, sweep, day>>

-----------------------------------------------------------------------------
\* DELETE /products/{id}: soft-delete, closing the product's findings with a
\* history row whose old_status is the literal 'open'.
DeleteProduct(p) ==
    LET closing == {f \in Finding : ProductOf[f] = p
                       /\ Present(f)
                       /\ finding[f] \notin {"closed", "remediated", "false_positive"}}
    IN /\ p \notin deleted
       /\ deleted' = deleted \cup {p}
       /\ finding' = [f \in Finding |-> IF f \in closing THEN "closed" ELSE finding[f]]
       /\ history' = [f \in Finding |->
             IF f \in closing THEN Append(history[f], [old |-> "open", new |-> "closed"])
                              ELSE history[f]]
       /\ UNCHANGED <<acceptance, request, sweep, day>>

\* The upsert transaction of sync_product (and of the CIRCL fallback): a row,
\* with the next id, for each matched CVE that has none; rows that exist keep
\* their status.  is_deleted is not looked at.
SyncUpsert(p) ==
    \E new \in SUBSET {f \in Finding : ProductOf[f] = p /\ finding[f] = "absent"} :
       /\ new # {}
       /\ \A f \in new : \A g \in PairOf(f) :
             ~Present(g) /\ (finding[g] = "absent" => f <= g)
       /\ finding' = [f \in Finding |-> IF f \in new THEN "open" ELSE finding[f]]
       /\ UNCHANGED <<history, deleted, acceptance, request, sweep, day>>

\* findings_history REFERENCES findings(id), without a cascade.
HistoryAllows(gone) == \A f \in gone : history[f] = <<>>

\* _retention_cleanup: DELETE FROM cves, of the CVEs that are old (published
\* before this year, not in KEV), cascades to their findings and from there to
\* the acceptances, whose rows the sweep may have locked.  One old finding
\* with a history row fails the whole transaction.
RetentionCleanup ==
    \E old \in SUBSET Cve :
       LET gone == {f \in Finding : Present(f) /\ CveOf[f] \in old}
       IN /\ gone # {}
          /\ HistoryAllows(gone)
          /\ \A d \in sweep : d.finding \notin gone
          /\ finding' = [f \in Finding |-> IF f \in gone THEN "gone" ELSE finding[f]]
          /\ acceptance' = [a \in Acceptance |->
                IF acceptance[a] \in AcceptanceRow /\ acceptance[a].finding \in gone
                THEN GoneAcceptance ELSE acceptance[a]]
          /\ UNCHANGED <<history, deleted, request, sweep, day>>

-----------------------------------------------------------------------------
\* expire_risk_acceptances: one transaction that locks the due rows of
\* risk_acceptances (not of findings), then updates them one after another.

Due(a) == acceptance[a].status = "approved" /\ acceptance[a].expires < day

SweepFetch ==
    /\ sweep = {}
    /\ \E a \in Acceptance : Due(a)
    /\ sweep' = {[acceptance |-> a, finding |-> acceptance[a].finding,
                  seen |-> finding[acceptance[a].finding]] :
                  a \in {b \in Acceptance : Due(b)}}
    /\ UNCHANGED <<finding, history, deleted, acceptance, request, day>>

\* Mutant: the sweep reopens findings and forgets to flip the acceptances.
ExpireNothing == UNCHANGED acceptance

ExpireLocked ==
    acceptance' = [a \in Acceptance |->
        IF \E d \in sweep : d.acceptance = a
        THEN [acceptance[a] EXCEPT !.status = "expired"] ELSE acceptance[a]]

\* The locked rows whose finding was accepted_risk when they were fetched.
Reopening(f) == {d \in sweep : d.finding = f /\ d.seen = "accepted_risk"}

SweepCommit ==
    /\ sweep # {}
    /\ ExpireLocked
    /\ finding' = [f \in Finding |-> IF Reopening(f) # {} THEN "open" ELSE finding[f]]
    /\ history' = [f \in Finding |->
          history[f] \o [i \in 1..Cardinality(Reopening(f)) |->
                            [old |-> "accepted_risk", new |-> "open"]]]
    /\ sweep' = {}
    /\ UNCHANGED <<deleted, request, day>>

NextDay ==
    /\ day < MaxDay
    /\ day' = day + 1
    /\ UNCHANGED <<finding, history, deleted, acceptance, request, sweep>>

-----------------------------------------------------------------------------
RequestStep(r) ==
    \/ \E f \in Finding, s \in PatchStatus : PatchRead(r, f, s)
    \/ PatchCommit(r)
    \/ \E f \in Finding, u \in User, e \in Expiry : CreateRead(r, f, u, e)
    \/ CreateCommit(r)
    \/ \E a \in Acceptance, u \in User, d \in Decision : DecideRead(r, a, u, d)
    \/ DecideCommit(r)

Next ==
    \/ \E r \in Request : RequestStep(r)
    \/ \E p \in Product : DeleteProduct(p) \/ SyncUpsert(p)
    \/ SweepFetch
    \/ SweepCommit
    \/ RetentionCleanup
    \/ NextDay

Spec == Init /\ [][Next]_vars

\* The scheduler runs the sweep daily and days pass; requests owe nothing.
FairSpec == Spec /\ WF_vars(SweepFetch) /\ WF_vars(SweepCommit) /\ WF_vars(NextDay)

-----------------------------------------------------------------------------
\* Properties.

\* Whatever decisions race on an acceptance, one that took effect was made
\* by somebody other than its requester ("segregation of duties").
SegregationOfDuties ==
    \A a \in Acceptance : acceptance[a].status \in {"approved", "expired"} =>
        /\ acceptance[a].approvedBy \in User
        /\ acceptance[a].approvedBy # acceptance[a].requestedBy

\* A finding is only ever in a status that its history names, or in the one
\* it was inserted with: even the status change that PATCH leaves out of the
\* history, by comparing with a stale read, restores a status on record.
StatusIsOnRecord ==
    \A f \in Finding :
        \/ finding[f] \in {"absent", "gone", "open"}
        \/ \E i \in DOMAIN history[f] : history[f][i].new = finding[f]

\* Every approval runs out: an approved acceptance is eventually expired (or
\* overtaken by a second decision), through any interleaving of requests.
ApprovalsRunOut ==
    \A a \in Acceptance : acceptance[a].status = "approved"
        ~> acceptance[a].status \in {"expired", "rejected"}
=============================================================================

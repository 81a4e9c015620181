----------------------- MODULE FindingLifecycleProofs -----------------------
(***************************************************************************)
(* Proofs about FindingLifecycle, for any sets of findings, products,      *)
(* users, acceptances and concurrent requests.                             *)
(*                                                                         *)
(* What a request read before its transaction is stale when it commits.    *)
(* The invariant says what stays true of it: a status that was seen is the *)
(* first one or still on record, and its row then still there, since the   *)
(* retention deletes no finding with a history; an acceptance that was     *)
(* seen has gone or still has the requester the decider was compared with. *)
(***************************************************************************)
EXTENDS FindingLifecycle, FiniteSetTheorems, SequenceTheorems, TLAPS

USE LifecycleAssumption

\* Some row of the history h has s as its new status.
Names(h, s) == \E i \in DOMAIN h : h[i].new = s

\* The history g is h, row by row, with or without rows after it.
Continues(g, h) == \A i \in DOMAIN h : i \in DOMAIN g /\ g[i] = h[i]

\* The status that a PATCH compared with is the initial one or on record, and
\* a finding with a record cannot go.
PatchIsSound(q) ==
    q.op = "patch" =>
        q.seen = "open" \/ (Present(q.finding) /\ Names(history[q.finding], q.seen))

\* The acceptance is in its table.
IsRow(a) == acceptance[a].status \notin {"absent", "gone"}

\* A decision refers to an acceptance that was there; if it still is, it is of
\* the finding that was read and an approval does not come from its requester.
DecideIsSound(q) ==
    q.op = "decide" =>
        /\ acceptance[q.acceptance].status # "absent"
        /\ IsRow(q.acceptance) =>
              /\ acceptance[q.acceptance].finding = q.finding
              /\ q.to = "approved" => q.user # acceptance[q.acceptance].requestedBy

RequestsAreSound ==
    \A r \in Request : PatchIsSound(request[r]) /\ DecideIsSound(request[r])

\* The foreign key of risk_acceptances, and the trace an approval leaves.
AcceptancesHaveFindings ==
    \A a \in Acceptance : IsRow(a) =>
        /\ Present(acceptance[a].finding)
        /\ acceptance[a].status = "approved" => history[acceptance[a].finding] # <<>>

\* The row locks of the sweep: what it fetched as approved stays approved.
SweepIsLocked ==
    /\ IsFiniteSet(sweep)
    /\ \A d \in sweep : /\ acceptance[d.acceptance].status = "approved"
                        /\ acceptance[d.acceptance].finding = d.finding

\* UNIQUE (product_id, cve_id).
OnePerPair ==
    \A f, g \in Finding : g \in PairOf(f) /\ Present(f) /\ Present(g) => f = g

IInv ==
    /\ TypeOK
    /\ RequestsAreSound
    /\ AcceptancesHaveFindings
    /\ SweepIsLocked
    /\ OnePerPair
    /\ SegregationOfDuties
    /\ StatusIsOnRecord

-----------------------------------------------------------------------------
\* Lemmas about the model's operators.

\* The op of a request tells what it holds.
LEMMA RequestFields ==
    ASSUME TypeOK, NEW r \in Request
    PROVE  /\ request[r] \in RequestState
           /\ request[r].op = "patch" =>
                  /\ request[r].finding \in Finding
                  /\ request[r].to \in Status /\ request[r].seen \in Status
           /\ request[r].op = "create" =>
                  /\ request[r].finding \in Finding /\ request[r].user \in User
                  /\ request[r].expires \in Expiry
           /\ request[r].op = "decide" =>
                  /\ request[r].acceptance \in Acceptance
                  /\ request[r].finding \in Finding
                  /\ request[r].user \in User /\ request[r].to \in Decision
  BY DEF TypeOK, RequestState, New, Done

\* An acceptance with a status is a row.
LEMMA AcceptanceFields ==
    ASSUME TypeOK, NEW a \in Acceptance
    PROVE  IsRow(a) <=> acceptance[a] \in AcceptanceRow
  BY DEF TypeOK, IsRow, NoAcceptance, GoneAcceptance, AcceptanceRow, Decision

\* One that is not gone still has its row.
LEMMA StillRow ==
    ASSUME TypeOK, NEW a \in Acceptance, acceptance[a].status # "absent",
           acceptance[a] # GoneAcceptance
    PROVE  IsRow(a) /\ acceptance[a] \in AcceptanceRow
<1>1. acceptance[a] \in AcceptanceRow \cup {NoAcceptance, GoneAcceptance}
  BY DEF TypeOK
<1>2. acceptance[a] \in AcceptanceRow
  BY <1>1 DEF NoAcceptance
<1> QED
  BY <1>2, AcceptanceFields

\* The retention, when it does something, takes a finding away.
LEMMA NotRetention ==
    ASSUME UNCHANGED finding
    PROVE  ~RetentionCleanup
  BY DEF RetentionCleanup, Present, Status

\* What a history names, its continuation names.
LEMMA StillNamed ==
    ASSUME NEW g, NEW h, NEW s, Continues(g, h), Names(h, s)
    PROVE  Names(g, s)
  BY DEF Continues, Names

\* A history that names a status, or continues one with rows, has rows.
LEMMA HasRows ==
    ASSUME NEW g \in Seq(HistoryRow), NEW h \in Seq(HistoryRow)
    PROVE  /\ \A s : Names(h, s) => h # <<>>
           /\ Continues(g, h) /\ h # <<>> => g # <<>>
<1>1. Len(h) \in Nat /\ DOMAIN h = 1..Len(h) /\ (h # <<>> => 1 \in DOMAIN h)
  BY LenProperties, EmptySeq
<1>2. DOMAIN <<>> = {}
  OBVIOUS
<1> QED
  BY <1>1, <1>2 DEF Names, Continues

\* Appending to a history forgets nothing and names the new status.
LEMMA AppendNames ==
    ASSUME NEW h \in Seq(HistoryRow), NEW old \in Status, NEW new \in Status
    PROVE  LET g == Append(h, [old |-> old, new |-> new])
           IN  /\ g \in Seq(HistoryRow)
               /\ Names(g, new)
               /\ Continues(g, h)
<1> DEFINE row == [old |-> old, new |-> new]
<1> DEFINE g == Append(h, row)
<1>1. row \in HistoryRow /\ row.new = new
  BY DEF HistoryRow
<1> HIDE DEF row
<1>2. /\ g \in Seq(HistoryRow)
      /\ Len(g) = Len(h) + 1
      /\ \A i \in 1..Len(h) : g[i] = h[i]
      /\ g[Len(h) + 1] = row
  BY <1>1, AppendProperties
<1>3. /\ Len(h) \in Nat
      /\ DOMAIN h = 1..Len(h)
      /\ DOMAIN g = 1..Len(h) + 1
  BY <1>2, LenProperties
<1> HIDE DEF g
<1>4. Names(g, new)
  BY <1>1, <1>2, <1>3 DEF Names
<1>5. Continues(g, h)
  BY <1>2, <1>3 DEF Continues
<1> QED
  BY <1>2, <1>4, <1>5 DEF g, row

\* So does adding the rows of a sweep.
LEMMA ConcatNames ==
    ASSUME NEW h \in Seq(HistoryRow), NEW n \in Nat, NEW row \in HistoryRow
    PROVE  LET g == h \o [i \in 1..n |-> row]
           IN  /\ g \in Seq(HistoryRow)
               /\ Continues(g, h)
<1> DEFINE t == [i \in 1..n |-> row]
<1> DEFINE g == h \o t
<1>1. t \in Seq(HistoryRow)
  OBVIOUS
<1> HIDE DEF t
<1>2. /\ g \in Seq(HistoryRow)
      /\ Len(g) = Len(h) + Len(t)
      /\ \A i \in 1..Len(h) + Len(t) : g[i] = IF i <= Len(h) THEN h[i] ELSE t[i - Len(h)]
  BY <1>1, ConcatProperties
<1>3. /\ Len(h) \in Nat /\ Len(t) \in Nat
      /\ DOMAIN h = 1..Len(h)
      /\ DOMAIN g = 1..Len(h) + Len(t)
  BY <1>1, <1>2, LenProperties
<1> HIDE DEF g
<1>4. Continues(g, h)
  BY <1>2, <1>3 DEF Continues
<1> QED
  BY <1>2, <1>4 DEF g, t

-----------------------------------------------------------------------------
\* What every step does to a history: it only grows, and a finding that has
\* one stays.
Kept(f) ==
    /\ Continues(history'[f], history[f])
    /\ Present(f) /\ history[f] # <<>> => Present(f)'

\* What a commit's writes to a finding and its history amount to: the types,
\* and the record kept with the new status on it.
Recorded(f) ==
    /\ finding'[f] \in Status \cup {"absent", "gone"}
    /\ history'[f] \in Seq(HistoryRow)
    /\ Kept(f)
    /\ finding'[f] \in {"absent", "gone", "open"} \/ Names(history'[f], finding'[f])

\* A finding that a step leaves alone.
LEMMA UntouchedRecorded ==
    ASSUME TypeOK, StatusIsOnRecord, NEW f \in Finding,
           finding'[f] = finding[f], history'[f] = history[f]
    PROVE  Recorded(f)
  BY DEF TypeOK, StatusIsOnRecord, Recorded, Kept, Names, Continues, Present

\* A finding whose new status is logged with any old one: the literal 'open'
\* of an approval or a deletion, or a status read before the transaction.
LEMMA LoggedRecorded ==
    ASSUME TypeOK, NEW f \in Finding, NEW old \in Status, NEW new \in Status,
           finding'[f] = new,
           history'[f] = Append(history[f], [old |-> old, new |-> new])
    PROVE  Recorded(f)
<1>1. history[f] \in Seq(HistoryRow)
  BY DEF TypeOK
<1>2. /\ history'[f] \in Seq(HistoryRow)
      /\ Names(history'[f], new)
      /\ Continues(history'[f], history[f])
  BY <1>1, AppendNames
<1> QED
  BY <1>2 DEF Recorded, Kept, Present

\* Every step that writes findings keeps the record of every one of them.
LEMMA StepRecords ==
    ASSUME IInv, Next
    PROVE  \A f \in Finding : Recorded(f)
<1> SUFFICES ASSUME NEW f \in Finding PROVE Recorded(f)
  OBVIOUS
<1> USE DEF IInv
<1>1. ASSUME NEW r \in Request, PatchCommit(r) PROVE Recorded(f)
  <2> DEFINE q == request[r]
  <2>1. /\ q.finding \in Finding /\ q.to \in Status /\ q.seen \in Status
        /\ \/ q.seen = "open"
           \/ Present(q.finding) /\ Names(history[q.finding], q.seen)
    BY <1>1, RequestFields DEF PatchCommit, RequestsAreSound, PatchIsSound
  <2>2. CASE finding'[f] = finding[f] /\ history'[f] = history[f]
    BY <2>2, UntouchedRecorded
  <2>3. CASE q.to # q.seen /\ Present(q.finding)
    <3>1. /\ finding' = [finding EXCEPT ![q.finding] = q.to]
          /\ history' = [history EXCEPT ![q.finding] =
                            Append(@, [old |-> q.seen, new |-> q.to])]
      BY <1>1, <2>3 DEF PatchCommit, Log
    <3>2. CASE f = q.finding
      <4>1. /\ finding'[f] = q.to
            /\ history'[f] = Append(history[f], [old |-> q.seen, new |-> q.to])
        BY <3>1, <3>2 DEF TypeOK
      <4> QED
        BY <2>1, <4>1, LoggedRecorded
    <3>3. CASE f # q.finding
      BY <2>2, <3>1, <3>3 DEF TypeOK
    <3> QED
      BY <3>2, <3>3
  <2>4. CASE q.to = q.seen
    <3>1. /\ history' = history
          /\ finding'[f] = IF f \in PairOf(q.finding) /\ Present(f) THEN q.to ELSE finding[f]
      BY <1>1, <2>4 DEF PatchCommit
    <3>2. CASE f \in PairOf(q.finding) /\ Present(f)
      <4>1. finding'[f] = q.to
        BY <3>1, <3>2
      <4>2. q.to = "open" \/ Names(history[f], q.to)
        BY <2>1, <2>4, <3>2 DEF OnePerPair
      <4> QED
        BY <2>1, <3>1, <4>1, <4>2 DEF Recorded, Kept, Continues, TypeOK, Present
    <3> QED
      BY <2>2, <3>1, <3>2
  <2>5. CASE q.to # q.seen /\ ~Present(q.finding)
    BY <1>1, <2>2, <2>5 DEF PatchCommit
  <2> QED
    BY <2>3, <2>4, <2>5
<1>2. ASSUME NEW r \in Request, DecideCommit(r) PROVE Recorded(f)
  <2> DEFINE q == request[r]
  <2>1. q.finding \in Finding /\ q.to \in Decision
    BY <1>2, RequestFields DEF DecideCommit
  <2>2. CASE finding'[f] = finding[f] /\ history'[f] = history[f]
    BY <2>2, UntouchedRecorded
  <2>3. CASE q.to = "approved" /\ f = q.finding /\ acceptance[q.acceptance] # GoneAcceptance
    <3>1. /\ finding'[f] = "accepted_risk"
          /\ history'[f] = Append(history[f], [old |-> "open", new |-> "accepted_risk"])
      BY <1>2, <2>1, <2>3 DEF DecideCommit, Accept, Log, TypeOK
    <3> QED
      BY <3>1, LoggedRecorded DEF Status
  <2>4. CASE \/ q.to = "rejected" \/ f # q.finding
              \/ acceptance[q.acceptance] = GoneAcceptance
    BY <1>2, <2>1, <2>2, <2>4 DEF DecideCommit, Accept, Log, TypeOK
  <2> QED
    BY <2>1, <2>3, <2>4 DEF Decision
<1>3. ASSUME NEW p \in Product, DeleteProduct(p) PROVE Recorded(f)
  <2>1. CASE finding'[f] = finding[f] /\ history'[f] = history[f]
    BY <2>1, UntouchedRecorded
  <2>2. CASE /\ finding'[f] = "closed"
             /\ history'[f] = Append(history[f], [old |-> "open", new |-> "closed"])
    BY <2>2, LoggedRecorded DEF Status
  <2> QED
    BY <1>3, <2>1, <2>2 DEF DeleteProduct
<1>4. ASSUME NEW p \in Product, SyncUpsert(p) PROVE Recorded(f)
  <2>1. history' = history /\ (finding'[f] = finding[f] \/ finding'[f] = "open")
    BY <1>4 DEF SyncUpsert
  <2> QED
    BY <2>1, UntouchedRecorded DEF Recorded, Kept, Continues, Status, TypeOK, Present
<1>5. CASE SweepCommit
  <2> DEFINE n == Cardinality(Reopening(f))
             row == [old |-> "accepted_risk", new |-> "open"]
  <2>1. n \in Nat
    <3>1. Reopening(f) \in SUBSET sweep /\ IsFiniteSet(sweep)
      BY DEF Reopening, SweepIsLocked
    <3> QED
      BY <3>1, FS_Subset, FS_CardinalityType
  <2>2. row \in HistoryRow
    BY DEF HistoryRow, Status
  <2>3. /\ finding'[f] = (IF Reopening(f) # {} THEN "open" ELSE finding[f])
        /\ history'[f] = history[f] \o [i \in 1..n |-> row]
    BY <1>5 DEF SweepCommit
  <2> HIDE DEF n, row
  <2>4. /\ history'[f] \in Seq(HistoryRow)
        /\ Continues(history'[f], history[f])
    <3>1. history[f] \in Seq(HistoryRow)
      BY DEF TypeOK
    <3>2. LET g == history[f] \o [i \in 1..n |-> row]
          IN  /\ g \in Seq(HistoryRow)
              /\ Continues(g, history[f])
      BY <2>1, <2>2, <3>1, ConcatNames, Zenon
    <3> QED
      BY <2>3, <3>2, Zenon
  <2>5. /\ finding[f] \in Status \cup {"absent", "gone"}
        /\ finding[f] \in {"absent", "gone", "open"} \/ Names(history[f], finding[f])
    BY DEF TypeOK, StatusIsOnRecord, Names
  <2> QED
    BY <2>3, <2>4, <2>5, StillNamed DEF Recorded, Kept, Present, Status
<1>6. CASE UNCHANGED <<finding, history>>
  BY <1>6, UntouchedRecorded
<1>7. CASE RetentionCleanup
  <2>1. CASE finding'[f] = finding[f] /\ history'[f] = history[f]
    BY <2>1, UntouchedRecorded
  <2>2. CASE finding'[f] = "gone" /\ history'[f] = history[f] /\ history[f] = <<>>
    BY <2>2 DEF Recorded, Kept, Continues, TypeOK
  <2> QED
    BY <1>7, <2>1, <2>2 DEF RetentionCleanup, HistoryAllows
<1> QED
  BY <1>1, <1>2, <1>3, <1>4, <1>5, <1>6, <1>7
  DEF Next, RequestStep, PatchRead, CreateRead, CreateCommit, DecideRead, SweepFetch, NextDay

-----------------------------------------------------------------------------
\* Only the retention takes findings away, and only the upsert adds them.
LEMMA StepPresence ==
    ASSUME IInv, Next
    PROVE  /\ RetentionCleanup \/ \A f \in Finding : Present(f) => Present(f)'
           /\ \/ \E p \in Product : SyncUpsert(p)
              \/ \A f \in Finding : Present(f)' => Present(f)
<1> DEFINE Kept2 == \A f \in Finding : Present(f)' <=> Present(f)
<1> USE DEF IInv
<1>1. ASSUME NEW r \in Request, PatchCommit(r) PROVE Kept2
  <2>1. request[r].finding \in Finding /\ request[r].to \in Status
    BY <1>1, RequestFields DEF PatchCommit
  <2> QED
    BY <1>1, <2>1 DEF PatchCommit, Present, TypeOK
<1>2. ASSUME NEW r \in Request, DecideCommit(r) PROVE Kept2
  <2> DEFINE a == request[r].acceptance
  <2>1. CASE UNCHANGED finding
    BY <2>1 DEF Present
  <2>2. CASE acceptance[a] # GoneAcceptance /\ Accept(request[r].finding)
    <3>1. /\ a \in Acceptance /\ acceptance[a].status # "absent"
          /\ IsRow(a) => acceptance[a].finding = request[r].finding
      BY <1>2, RequestFields DEF DecideCommit, RequestsAreSound, DecideIsSound
    <3>3. IsRow(a)
      BY <2>2, <3>1, StillRow
    <3>4. Present(request[r].finding)
      BY <3>1, <3>3 DEF AcceptancesHaveFindings
    <3> QED
      BY <2>2, <3>4 DEF Accept, Present, TypeOK, Status
  <2> QED
    BY <1>2, <2>1, <2>2 DEF DecideCommit
<1>3. ASSUME NEW p \in Product, DeleteProduct(p) PROVE Kept2
  BY <1>3 DEF DeleteProduct, Present, Status
<1>4. CASE SweepCommit
  <2>1. \A f \in Finding : Reopening(f) # {} => Present(f)
    <3> SUFFICES ASSUME NEW f \in Finding, NEW d \in Reopening(f) PROVE Present(f)
      OBVIOUS
    <3>1. d \in sweep /\ d.finding = f /\ d.acceptance \in Acceptance
      BY DEF Reopening, TypeOK, DueRow
    <3>2. IsRow(d.acceptance) /\ acceptance[d.acceptance].finding = f
      BY <3>1 DEF SweepIsLocked, IsRow
    <3> QED
      BY <3>1, <3>2 DEF AcceptancesHaveFindings
  <2> QED
    BY <1>4, <2>1 DEF SweepCommit, Present, Status
<1>5. ASSUME NEW p \in Product, SyncUpsert(p)
      PROVE  \A f \in Finding : Present(f) => Present(f)'
  BY <1>5 DEF SyncUpsert, Present, Status
<1>6. CASE RetentionCleanup
  BY <1>6 DEF RetentionCleanup, Present, Status
<1>7. CASE UNCHANGED finding
  BY <1>7 DEF Present
<1> QED
  BY <1>1, <1>2, <1>3, <1>4, <1>5, <1>6, <1>7
  DEF Next, RequestStep, PatchRead, CreateRead, CreateCommit, DecideRead, SweepFetch, NextDay

\* A pair never has two rows: the upsert only adds the first unused id of a
\* pair without one.
LEMMA StepPairs ==
    ASSUME IInv, Next
    PROVE  OnePerPair'
<1> SUFFICES ASSUME NEW f \in Finding, NEW g \in Finding, g \in PairOf(f),
                    Present(f)', Present(g)'
             PROVE  f = g
  BY DEF OnePerPair, PairOf
<1>1. f \in PairOf(g)
  BY DEF PairOf
<1>2. CASE Present(f) /\ Present(g)
  BY <1>2 DEF IInv, OnePerPair
<1>3. ASSUME NEW p \in Product, SyncUpsert(p) PROVE f = g
  <2>1. PICK new \in SUBSET {x \in Finding : ProductOf[x] = p /\ finding[x] = "absent"} :
          /\ \A x \in new : \A y \in PairOf(x) :
                ~Present(y) /\ (finding[y] = "absent" => x <= y)
          /\ finding' = [x \in Finding |-> IF x \in new THEN "open" ELSE finding[x]]
    BY <1>3 DEF SyncUpsert
  <2>2. (f \in new \/ Present(f)) /\ (g \in new \/ Present(g))
    BY <2>1 DEF Present
  <2>3. CASE f \in new /\ g \in new
    <3>1. f <= g /\ g <= f
      BY <1>1, <2>1, <2>3
    <3>2. f \in Int /\ g \in Int
      OBVIOUS
    <3> QED
      BY <3>1, <3>2
  <2> QED
    BY <1>1, <1>2, <2>1, <2>2, <2>3
<1> QED
  BY <1>2, <1>3, StepPresence

-----------------------------------------------------------------------------
\* A step leaves an acceptance its finding and its requester, or takes it away
\* for good.
IdentityKept(a) ==
    /\ acceptance[a].status # "absent" => acceptance'[a].status # "absent"
    /\ IsRow(a)' /\ acceptance[a].status # "absent" =>
          /\ IsRow(a)
          /\ acceptance'[a].finding = acceptance[a].finding
          /\ acceptance'[a].requestedBy = acceptance[a].requestedBy

\* The acceptances after a step: their type, their identity, the findings
\* they refer to, the duties and the locks.
AcceptanceStep ==
    /\ acceptance' \in [Acceptance -> AcceptanceRow \cup {NoAcceptance, GoneAcceptance}]
    /\ \A a \in Acceptance : IdentityKept(a)
    /\ AcceptancesHaveFindings'
    /\ SegregationOfDuties'
    /\ SweepIsLocked'
    /\ sweep' \subseteq DueRow

\* Every step on the acceptances and the sweep keeps all of that.
LEMMA StepOnAcceptances ==
    ASSUME IInv, Next
    PROVE  AcceptanceStep
<1> USE DEF IInv
<1>1. ~RetentionCleanup => \A f \in Finding : Present(f) => Present(f)'
  BY StepPresence
<1>2. \A a \in Acceptance : IsRow(a) <=> acceptance[a] \in AcceptanceRow
  BY AcceptanceFields
<1>r. \A f \in Finding : history[f] # <<>> => history'[f] # <<>>
  BY StepRecords, HasRows DEF Recorded, Kept, TypeOK
<1>f. \A a \in Acceptance : acceptance[a] \in AcceptanceRow =>
          acceptance[a].finding \in Finding
  BY DEF AcceptanceRow
\* An acceptance that keeps its row, its finding and its status.
<1>k. ASSUME ~RetentionCleanup, NEW a \in Acceptance, IsRow(a),
             acceptance'[a].finding = acceptance[a].finding,
             acceptance'[a].status = "approved" => acceptance[a].status = "approved"
      PROVE  /\ Present(acceptance[a].finding)'
             /\ acceptance'[a].status = "approved" =>
                    history'[acceptance'[a].finding] # <<>>
  BY <1>1, <1>2, <1>r, <1>f, <1>k DEF AcceptancesHaveFindings, Present
<1>3. CASE UNCHANGED <<acceptance, sweep>> /\ ~RetentionCleanup
  <2>1. AcceptancesHaveFindings'
    BY <1>3, <1>k DEF AcceptancesHaveFindings, IsRow, Present
  <2> QED
    BY <1>2, <1>3, <2>1
    DEF AcceptanceStep, IdentityKept, SegregationOfDuties, SweepIsLocked, TypeOK, IsRow
<1>d. CASE RetentionCleanup
  <2>1. PICK old \in SUBSET Cve :
          LET gone == {f \in Finding : Present(f) /\ CveOf[f] \in old}
          IN  /\ \A d \in sweep : d.finding \notin gone
              /\ finding' = [f \in Finding |-> IF f \in gone THEN "gone" ELSE finding[f]]
              /\ acceptance' = [a \in Acceptance |->
                    IF acceptance[a] \in AcceptanceRow /\ acceptance[a].finding \in gone
                    THEN GoneAcceptance ELSE acceptance[a]]
              /\ UNCHANGED <<history, sweep>>
    BY <1>d DEF RetentionCleanup
  <2> DEFINE gone == {f \in Finding : Present(f) /\ CveOf[f] \in old}
  <2>2. /\ \A d \in sweep : d.finding \notin gone
        /\ finding' = [f \in Finding |-> IF f \in gone THEN "gone" ELSE finding[f]]
        /\ acceptance' = [a \in Acceptance |->
              IF acceptance[a] \in AcceptanceRow /\ acceptance[a].finding \in gone
              THEN GoneAcceptance ELSE acceptance[a]]
        /\ history' = history /\ sweep' = sweep
    BY <2>1
  <2> HIDE DEF gone
  <2>3. \A a \in Acceptance :
          \/ acceptance'[a] = GoneAcceptance /\ acceptance[a] \in AcceptanceRow
             /\ acceptance[a].finding \in gone
          \/ /\ acceptance'[a] = acceptance[a]
             /\ acceptance[a] \in AcceptanceRow => acceptance[a].finding \notin gone
    BY <2>2
  <2>4. acceptance' \in [Acceptance -> AcceptanceRow \cup {NoAcceptance, GoneAcceptance}]
    BY <2>2 DEF TypeOK
  <2>5. GoneAcceptance.status = "gone"
    BY DEF GoneAcceptance
  <2>6. \A a \in Acceptance : IdentityKept(a)
    BY <2>3, <2>5 DEF IdentityKept, IsRow
  <2>7. AcceptancesHaveFindings'
    <3> SUFFICES ASSUME NEW a \in Acceptance, IsRow(a)'
                 PROVE  /\ Present(acceptance[a].finding)'
                        /\ acceptance'[a].status = "approved" =>
                               history'[acceptance'[a].finding] # <<>>
      BY DEF AcceptancesHaveFindings
    <3>1. acceptance'[a] = acceptance[a] /\ IsRow(a)
      BY <2>3, <2>5 DEF IsRow
    <3>2. acceptance[a].finding \in Finding /\ acceptance[a].finding \notin gone
      BY <1>2, <1>f, <2>3, <2>5, <3>1 DEF IsRow
    <3> QED
      BY <2>2, <3>1, <3>2 DEF AcceptancesHaveFindings, Present
  <2>8. SegregationOfDuties'
    BY <2>3, <2>5 DEF SegregationOfDuties
  <2>9. SweepIsLocked' /\ sweep' \subseteq DueRow
    <3>1. ASSUME NEW d \in sweep PROVE acceptance'[d.acceptance] = acceptance[d.acceptance]
      BY <2>2, <2>3 DEF SweepIsLocked, TypeOK, DueRow
    <3> QED
      BY <2>2, <3>1 DEF SweepIsLocked, TypeOK
  <2> QED
    BY <2>4, <2>6, <2>7, <2>8, <2>9 DEF AcceptanceStep
<1>4. ASSUME NEW r \in Request, CreateCommit(r) PROVE AcceptanceStep
  <2>0. CASE UNCHANGED acceptance
    BY <1>3, <1>4, <2>0, NotRetention DEF CreateCommit
  <2> SUFFICES ASSUME acceptance' # acceptance PROVE AcceptanceStep
    BY <2>0
  <2>1. PICK b \in Acceptance :
          /\ acceptance[b] = NoAcceptance
          /\ acceptance' = [acceptance EXCEPT ![b] =
                [status |-> "pending", finding |-> request[r].finding,
                 requestedBy |-> request[r].user, approvedBy |-> Nobody,
                 expires |-> request[r].expires]]
    BY <1>4 DEF CreateCommit
  <2>2. /\ request[r].finding \in Finding /\ request[r].user \in User
        /\ request[r].expires \in Expiry /\ Present(request[r].finding)
        /\ finding' = finding
    BY <1>4, RequestFields DEF CreateCommit
  <2>3. acceptance'[b] \in AcceptanceRow /\ acceptance'[b].status = "pending"
    BY <2>1, <2>2 DEF AcceptanceRow, TypeOK
  <2>4. \A a \in Acceptance : a # b => acceptance'[a] = acceptance[a]
    BY <2>1 DEF TypeOK
  <2>5. acceptance' \in [Acceptance -> AcceptanceRow \cup {NoAcceptance, GoneAcceptance}]
    BY <2>1, <2>3, <2>4 DEF TypeOK
  <2>6. \A a \in Acceptance : IdentityKept(a)
    BY <2>1, <2>4 DEF IdentityKept, NoAcceptance, IsRow
  <2>7. AcceptancesHaveFindings'
    <3>1. acceptance'[b].finding = request[r].finding
      BY <2>1 DEF TypeOK
    <3>2. ~RetentionCleanup
      BY <1>4, <2>2 DEF RetentionCleanup, Present, Status
    <3> QED
      BY <1>k, <2>2, <2>3, <2>4, <3>1, <3>2
      DEF AcceptancesHaveFindings, Present, IsRow
  <2>8. SegregationOfDuties'
    BY <2>3, <2>4 DEF SegregationOfDuties
  <2>9. SweepIsLocked' /\ sweep' \subseteq DueRow
    <3>1. sweep' = sweep /\ sweep \subseteq DueRow
      BY <1>4 DEF CreateCommit, TypeOK
    <3> QED
      BY <2>1, <2>4, <3>1 DEF SweepIsLocked, DueRow, NoAcceptance
  <2> QED
    BY <2>5, <2>6, <2>7, <2>8, <2>9 DEF AcceptanceStep
<1>5. ASSUME NEW r \in Request, DecideCommit(r) PROVE AcceptanceStep
  <2> DEFINE q == request[r]
             b == q.acceptance
  <2>0. CASE acceptance[b] = GoneAcceptance
    <3>1. UNCHANGED <<finding, acceptance, sweep>>
      BY <1>5, <2>0 DEF DecideCommit
    <3> QED
      BY <1>3, <3>1 DEF RetentionCleanup, Present, Status
  <2> SUFFICES ASSUME acceptance[b] # GoneAcceptance PROVE AcceptanceStep
    BY <2>0
  <2>1. /\ b \in Acceptance /\ q.user \in User /\ q.to \in Decision
        /\ q.finding \in Finding /\ IsRow(b)
        /\ acceptance[b].finding = q.finding
        /\ q.to = "approved" => q.user # acceptance[b].requestedBy
    <3>1. /\ b \in Acceptance /\ q.user \in User /\ q.to \in Decision
          /\ q.finding \in Finding /\ acceptance[b].status # "absent"
      BY <1>5, RequestFields DEF DecideCommit, RequestsAreSound, DecideIsSound
    <3>3. IsRow(b)
      BY <3>1, StillRow
    <3> QED
      BY <1>5, <3>1, <3>3 DEF DecideCommit, RequestsAreSound, DecideIsSound
  <2>2. /\ acceptance' = [acceptance EXCEPT ![b].status = q.to, ![b].approvedBy = q.user]
        /\ \A d \in sweep : d.acceptance # b
        /\ sweep' = sweep
        /\ q.to = "approved" => Accept(q.finding)
        /\ q.to = "rejected" => UNCHANGED finding
    BY <1>5 DEF DecideCommit, Decision
  <2> HIDE DEF q, b
  <2>3. acceptance[b] \in AcceptanceRow
    BY <1>2, <2>1
  <2>4. /\ acceptance'[b] \in AcceptanceRow
        /\ acceptance'[b].status = q.to /\ acceptance'[b].approvedBy = q.user
        /\ acceptance'[b].finding = acceptance[b].finding
        /\ acceptance'[b].requestedBy = acceptance[b].requestedBy
    BY <2>1, <2>2, <2>3 DEF TypeOK, AcceptanceRow
  <2>5. \A a \in Acceptance : a # b => acceptance'[a] = acceptance[a]
    BY <2>2 DEF TypeOK
  <2>6. acceptance' \in [Acceptance -> AcceptanceRow \cup {NoAcceptance, GoneAcceptance}]
    BY <2>2, <2>4, <2>5 DEF TypeOK
  <2>7. \A a \in Acceptance : IdentityKept(a)
    BY <2>1, <2>4, <2>5 DEF IdentityKept, Decision, IsRow
  <2>8. AcceptancesHaveFindings'
    <3>1. ~RetentionCleanup
      <4>1. CASE q.to = "rejected"
        BY <2>2, <4>1 DEF RetentionCleanup, Present, Status
      <4>2. CASE q.to = "approved"
        <5>1. Present(q.finding)
          BY <2>1 DEF AcceptancesHaveFindings
        <5>2. \A f \in Finding : Present(f) => Present(f)'
          BY <2>1, <2>2, <4>2, <5>1 DEF Accept, Present, Status, TypeOK
        <5> QED
          BY <5>2 DEF RetentionCleanup, Present, Status
      <4> QED
        BY <2>1, <4>1, <4>2 DEF Decision
    <3>2. q.to = "approved" => history'[q.finding] # <<>>
      <4>1. ASSUME q.to = "approved"
            PROVE  /\ history[q.finding] \in Seq(HistoryRow)
                   /\ history'[q.finding] =
                         Append(history[q.finding], [old |-> "open", new |-> "accepted_risk"])
        BY <2>1, <2>2, <4>1 DEF Accept, Log, TypeOK
      <4>2. [old |-> "open", new |-> "accepted_risk"] \in HistoryRow
        BY DEF HistoryRow, Status
      <4> QED
        BY <4>1, <4>2, AppendProperties
    <3>3. finding'[q.finding] \in Status
      <4>1. Present(q.finding)
        BY <2>1 DEF AcceptancesHaveFindings
      <4> QED
        BY <1>1, <2>1, <3>1, <4>1 DEF Present
    <3>4. ASSUME NEW a \in Acceptance, IsRow(a)'
          PROVE  /\ Present(acceptance[a].finding)'
                 /\ acceptance'[a].status = "approved" =>
                        history'[acceptance'[a].finding] # <<>>
      <4>1. CASE a = b
        BY <2>1, <2>4, <3>2, <3>3, <4>1 DEF Present
      <4>2. CASE a # b
        BY <1>k, <2>5, <3>1, <3>4, <4>2 DEF IsRow, Present
      <4> QED
        BY <4>1, <4>2
    <3> QED
      BY <3>4 DEF AcceptancesHaveFindings
  <2>9. SegregationOfDuties'
    BY <2>1, <2>4, <2>5 DEF SegregationOfDuties, Decision
  <2>10. SweepIsLocked' /\ sweep' \subseteq DueRow
    BY <2>2, <2>5 DEF SweepIsLocked, DueRow, TypeOK
  <2> QED
    BY <2>6, <2>7, <2>8, <2>9, <2>10 DEF AcceptanceStep
<1>6. CASE SweepFetch
  <2> DEFINE D == {b \in Acceptance : Due(b)}
             Fetched(a) == [acceptance |-> a, finding |-> acceptance[a].finding,
                            seen |-> finding[acceptance[a].finding]]
  <2>1. sweep' = {Fetched(a) : a \in D} /\ acceptance' = acceptance /\ finding' = finding
    BY <1>6 DEF SweepFetch
  <2>2. \A a \in D : /\ Fetched(a) \in DueRow
                      /\ acceptance[a].status = "approved" /\ Fetched(a).acceptance = a
                      /\ Fetched(a).finding = acceptance[a].finding
    BY <1>2, <1>f DEF Due, DueRow, AcceptancesHaveFindings, Present, IsRow
  <2>3. IsFiniteSet(sweep')
    <3> DEFINE g == [a \in D |-> Fetched(a)]
    <3>1. g \in Surjection(D, sweep')
      BY <2>1 DEF Surjection
    <3>2. IsFiniteSet(D)
      BY FS_Subset
    <3> QED
      BY <3>1, <3>2, FS_Surjection
  <2>4. AcceptancesHaveFindings'
    <3>1. ~RetentionCleanup
      BY <2>1 DEF RetentionCleanup, Present, Status
    <3> QED
      BY <1>k, <2>1, <3>1 DEF AcceptancesHaveFindings, IsRow, Present
  <2> QED
    BY <1>2, <2>1, <2>2, <2>3, <2>4
    DEF AcceptanceStep, IdentityKept, SegregationOfDuties, SweepIsLocked, TypeOK, IsRow
<1>7. CASE SweepCommit
  <2>1. sweep' = {} /\ ExpireLocked
    BY <1>7 DEF SweepCommit
  <2>2. \A a \in Acceptance :
          \/ acceptance'[a] = acceptance[a]
          \/ /\ acceptance[a].status = "approved" /\ acceptance[a] \in AcceptanceRow
             /\ acceptance'[a] = [acceptance[a] EXCEPT !.status = "expired"]
    BY <1>2, <2>1 DEF ExpireLocked, SweepIsLocked, IsRow
  <2>3. \A a \in Acceptance :
          acceptance[a] \in AcceptanceRow =>
              /\ [acceptance[a] EXCEPT !.status = "expired"] \in AcceptanceRow
              /\ [acceptance[a] EXCEPT !.status = "expired"].status = "expired"
              /\ [acceptance[a] EXCEPT !.status = "expired"].finding = acceptance[a].finding
              /\ [acceptance[a] EXCEPT !.status = "expired"].requestedBy
                     = acceptance[a].requestedBy
              /\ [acceptance[a] EXCEPT !.status = "expired"].approvedBy
                     = acceptance[a].approvedBy
    BY DEF AcceptanceRow
  <2>4. acceptance' \in [Acceptance -> AcceptanceRow \cup {NoAcceptance, GoneAcceptance}]
    BY <2>1, <2>2, <2>3 DEF ExpireLocked, TypeOK
  <2>5. \A a \in Acceptance : IdentityKept(a)
    BY <2>2, <2>3 DEF IdentityKept, IsRow
  <2>6. AcceptancesHaveFindings'
    <3>1. ~RetentionCleanup
      BY <1>7, <2>1 DEF SweepCommit, RetentionCleanup
    <3> SUFFICES ASSUME NEW a \in Acceptance, IsRow(a)'
                 PROVE  /\ Present(acceptance[a].finding)'
                        /\ acceptance'[a].status = "approved" =>
                               history'[acceptance'[a].finding] # <<>>
      BY DEF AcceptancesHaveFindings
    <3>2. /\ IsRow(a)
          /\ acceptance'[a].finding = acceptance[a].finding
          /\ acceptance'[a].status = "approved" => acceptance[a].status = "approved"
      BY <2>2, <2>3 DEF IsRow
    <3> QED
      BY <1>k, <3>1, <3>2
  <2>7. SegregationOfDuties'
    <3> SUFFICES ASSUME NEW a \in Acceptance, acceptance'[a].status \in {"approved", "expired"}
                 PROVE  /\ acceptance'[a].approvedBy \in User
                        /\ acceptance'[a].approvedBy # acceptance'[a].requestedBy
      BY DEF SegregationOfDuties
    <3>1. /\ acceptance[a].status \in {"approved", "expired"}
          /\ acceptance'[a].approvedBy = acceptance[a].approvedBy
          /\ acceptance'[a].requestedBy = acceptance[a].requestedBy
      BY <2>2, <2>3
    <3> QED
      BY <3>1 DEF SegregationOfDuties
  <2>8. SweepIsLocked' /\ sweep' \subseteq DueRow
    BY <2>1, FS_EmptySet DEF SweepIsLocked
  <2> QED
    BY <2>4, <2>5, <2>6, <2>7, <2>8 DEF AcceptanceStep
<1> QED
  BY <1>3, <1>d, <1>4, <1>5, <1>6, <1>7
  DEF Next, RequestStep, PatchRead, PatchCommit, CreateRead, DecideRead, DeleteProduct,
      SyncUpsert, NextDay

-----------------------------------------------------------------------------
\* Every step keeps what the requests under way have read.
LEMMA StepOnRequests ==
    ASSUME IInv, Next
    PROVE  request' \in [Request -> RequestState] /\ RequestsAreSound'
<1> USE DEF IInv
<1> DEFINE Sound(q) == PatchIsSound(q) /\ DecideIsSound(q)
<1>1. \A f \in Finding : Kept(f) /\ history'[f] \in Seq(HistoryRow)
  BY StepRecords DEF Recorded
<1>2. \A a \in Acceptance : IdentityKept(a)
  BY StepOnAcceptances DEF AcceptanceStep
\* A request that the step does not touch stays sound.
<1>3. ASSUME NEW r \in Request, request'[r] = request[r]
      PROVE  request'[r] \in RequestState /\ Sound(request[r])'
  <2>1. PatchIsSound(request[r])'
    <3> SUFFICES ASSUME request[r].op = "patch", request[r].seen # "open"
                 PROVE  /\ Present(request[r].finding)'
                        /\ Names(history'[request[r].finding], request[r].seen)
      BY <1>3 DEF PatchIsSound
    <3> DEFINE f == request[r].finding
    <3>1. f \in Finding /\ Present(f) /\ Names(history[f], request[r].seen)
      BY RequestFields DEF RequestsAreSound, PatchIsSound
    <3>2. history[f] # <<>>
      BY <3>1, HasRows DEF TypeOK
    <3> QED
      BY <1>1, <1>3, <3>1, <3>2, StillNamed DEF Kept, Present
  <2>2. DecideIsSound(request[r])'
    <3> DEFINE q == request[r]
    <3>1. CASE q.op = "decide"
      <4>1. /\ q.acceptance \in Acceptance /\ acceptance[q.acceptance].status # "absent"
            /\ IsRow(q.acceptance) =>
                  /\ acceptance[q.acceptance].finding = q.finding
                  /\ q.to = "approved" => q.user # acceptance[q.acceptance].requestedBy
        BY <3>1, RequestFields DEF RequestsAreSound, DecideIsSound
      <4>2. IdentityKept(q.acceptance)
        BY <1>2, <4>1
      <4> QED
        BY <1>3, <4>1, <4>2 DEF DecideIsSound, IdentityKept, IsRow
    <3>2. CASE q.op # "decide"
      BY <1>3, <3>2 DEF DecideIsSound
    <3> QED
      BY <3>1, <3>2
  <2> QED
    BY <1>3, <2>1, <2>2, RequestFields
\* One that it starts or ends is sound from the start.
<1>4. ASSUME NEW r \in Request, NEW q \in RequestState, request' = [request EXCEPT ![r] = q],
             Sound(request[r])'
      PROVE  request' \in [Request -> RequestState] /\ RequestsAreSound'
  <2>1. \A x \in Request : x # r => request'[x] = request[x]
    BY <1>4 DEF TypeOK
  <2>2. request' \in [Request -> RequestState]
    BY <1>4 DEF TypeOK
  <2>3. \A x \in Request : Sound(request[x])'
    BY <1>3, <1>4, <2>1
  <2> QED
    BY <2>2, <2>3 DEF RequestsAreSound
<1>5. ASSUME NEW r \in Request, Finished(r)
      PROVE  request' \in [Request -> RequestState] /\ RequestsAreSound'
  <2>1. request'[r] = Done /\ Done \in RequestState
    BY <1>5 DEF Finished, TypeOK, RequestState
  <2>2. Sound(request[r])'
    BY <2>1 DEF Done, PatchIsSound, DecideIsSound
  <2> QED
    BY <1>4, <1>5, <2>1, <2>2 DEF Finished
<1>6. ASSUME NEW r \in Request, NEW f \in Finding, NEW s \in PatchStatus, PatchRead(r, f, s)
      PROVE  request' \in [Request -> RequestState] /\ RequestsAreSound'
  <2> DEFINE q == [op |-> "patch", finding |-> f, to |-> s, seen |-> finding[f]]
  <2>1. /\ request' = [request EXCEPT ![r] = q]
        /\ finding[f] \in Status
        /\ UNCHANGED <<finding, history>>
    BY <1>6 DEF PatchRead, Present
  <2>2. q \in RequestState
    BY <2>1 DEF RequestState
  <2>3. request'[r] = q
    BY <2>1 DEF TypeOK
  <2>4. PatchIsSound(q)'
    BY <1>6, <2>1 DEF PatchRead, PatchIsSound, Present, StatusIsOnRecord, Names, Status
  <2>5. DecideIsSound(q)'
    BY DEF DecideIsSound
  <2> QED
    BY <1>4, <2>1, <2>2, <2>3, <2>4, <2>5
<1>7. ASSUME NEW r \in Request, NEW f \in Finding, NEW u \in User, NEW e \in Expiry,
             CreateRead(r, f, u, e)
      PROVE  request' \in [Request -> RequestState] /\ RequestsAreSound'
  <2> DEFINE q == [op |-> "create", finding |-> f, user |-> u, expires |-> e]
  <2>1. request' = [request EXCEPT ![r] = q] /\ finding' = finding
    BY <1>7 DEF CreateRead
  <2>2. q \in RequestState
    BY DEF RequestState
  <2>3. request'[r] = q
    BY <2>1 DEF TypeOK
  <2>4. PatchIsSound(q)' /\ DecideIsSound(q)'
    BY DEF PatchIsSound, DecideIsSound
  <2> QED
    BY <1>4, <2>1, <2>2, <2>3, <2>4
<1>8. ASSUME NEW r \in Request, NEW a \in Acceptance, NEW u \in User, NEW d \in Decision,
             DecideRead(r, a, u, d)
      PROVE  request' \in [Request -> RequestState] /\ RequestsAreSound'
  <2> DEFINE q == [op |-> "decide", acceptance |-> a, finding |-> acceptance[a].finding,
                   user |-> u, to |-> d]
  <2>1. /\ request' = [request EXCEPT ![r] = q] /\ acceptance' = acceptance
        /\ acceptance[a].status = "pending"
        /\ d = "approved" => acceptance[a].requestedBy # u
    BY <1>8 DEF DecideRead, MayDecide
  <2>2. acceptance[a] \in AcceptanceRow
    BY <2>1, AcceptanceFields DEF IsRow
  <2>3. q \in RequestState
    BY <2>2 DEF RequestState, AcceptanceRow
  <2>4. request'[r] = q
    BY <2>1 DEF TypeOK
  <2>5. DecideIsSound(q)'
    BY <2>1 DEF DecideIsSound
  <2>6. PatchIsSound(q)'
    BY DEF PatchIsSound
  <2> QED
    BY <1>4, <2>1, <2>3, <2>4, <2>5, <2>6
<1>9. CASE UNCHANGED request
  BY <1>3, <1>9 DEF TypeOK, RequestsAreSound
<1> QED
  BY <1>5, <1>6, <1>7, <1>8, <1>9
  DEF Next, RequestStep, PatchCommit, CreateCommit, DecideCommit, DeleteProduct, SyncUpsert,
      SweepFetch, SweepCommit, RetentionCleanup, NextDay

-----------------------------------------------------------------------------
\* Empty tables satisfy the invariant.
LEMMA InitIInv == Init => IInv
<1> SUFFICES ASSUME Init PROVE IInv
  OBVIOUS
<1>1. TypeOK
  BY DEF Init, TypeOK, RequestState, NoAcceptance
<1>2. RequestsAreSound
  BY DEF Init, RequestsAreSound, PatchIsSound, DecideIsSound, New
<1>3. AcceptancesHaveFindings /\ SegregationOfDuties
  BY DEF Init, AcceptancesHaveFindings, IsRow, SegregationOfDuties, NoAcceptance
<1>4. SweepIsLocked /\ StatusIsOnRecord /\ OnePerPair
  BY FS_EmptySet DEF Init, SweepIsLocked, StatusIsOnRecord, OnePerPair, Present, Status
<1> QED
  BY <1>1, <1>2, <1>3, <1>4 DEF IInv

\* The tables keep their shape, product ids and days their range.
Shape ==
    /\ DOMAIN finding' = Finding /\ finding' = [f \in Finding |-> finding'[f]]
    /\ DOMAIN history' = Finding /\ history' = [f \in Finding |-> history'[f]]
    /\ deleted' \subseteq Product /\ day' \in 0..MaxDay

LEMMA StepShape ==
    ASSUME TypeOK, Next
    PROVE  Shape
<1> USE DEF TypeOK, Shape
<1>1. ASSUME NEW r \in Request, PatchCommit(r) PROVE Shape
  BY <1>1 DEF PatchCommit, Log
<1>2. ASSUME NEW r \in Request, DecideCommit(r) PROVE Shape
  BY <1>2 DEF DecideCommit, Accept, Log
<1>3. ASSUME NEW p \in Product, DeleteProduct(p) PROVE Shape
  BY <1>3 DEF DeleteProduct
<1>4. ASSUME NEW p \in Product, SyncUpsert(p) PROVE Shape
  BY <1>4 DEF SyncUpsert
<1>5. CASE SweepCommit
  BY <1>5 DEF SweepCommit
<1>6. CASE NextDay
  BY <1>6 DEF NextDay
<1>7. CASE RetentionCleanup
  BY <1>7 DEF RetentionCleanup
<1>8. CASE UNCHANGED <<finding, history, deleted, day>>
  BY <1>8
<1> HIDE DEF TypeOK, Shape
<1> QED
  BY <1>1, <1>2, <1>3, <1>4, <1>5, <1>6, <1>7, <1>8
  DEF Next, RequestStep, PatchRead, CreateRead, CreateCommit, DecideRead, SweepFetch

\* Every step keeps the invariant.
LEMMA NextIInv == IInv /\ [Next]_vars => IInv'
<1>1. ASSUME IInv, Next PROVE IInv'
  <2>1. /\ \A f \in Finding : Recorded(f)
        /\ AcceptanceStep
        /\ request' \in [Request -> RequestState] /\ RequestsAreSound'
        /\ OnePerPair'
    BY <1>1, StepRecords, StepOnAcceptances, StepOnRequests, StepPairs
  <2>2. Shape
    BY <1>1, StepShape DEF IInv
  <2>3. TypeOK'
    BY <2>1, <2>2 DEF Recorded, AcceptanceStep, Shape, TypeOK
  <2>4. StatusIsOnRecord'
    BY <2>1 DEF Recorded, StatusIsOnRecord, Names
  <2> QED
    BY <2>1, <2>3, <2>4 DEF IInv, AcceptanceStep
<1>2. ASSUME IInv, UNCHANGED vars PROVE IInv'
  BY <1>2
  DEF vars, IInv, TypeOK, RequestsAreSound, PatchIsSound, DecideIsSound, Present, IsRow,
      Names, AcceptancesHaveFindings, SweepIsLocked, OnePerPair, SegregationOfDuties,
      StatusIsOnRecord
<1> QED
  BY <1>1, <1>2

\* The inductive invariant holds in every reachable state.
THEOREM InvariantTheorem == Spec => []IInv
  BY InitIInv, NextIInv, PTL DEF Spec

\* Every variable keeps its type: in particular the sweep never reads the
\* status of a finding that has no row, and no history row lacks a status.
THEOREM TypeCorrect == Spec => []TypeOK
<1>1. IInv => TypeOK
  BY DEF IInv
<1> QED
  BY <1>1, InvariantTheorem, PTL

\* Whatever decisions race on an acceptance, nobody's own request is approved
\* by decide_risk_acceptance, and it stays so when the sweep expires it.
THEOREM DutiesAreSegregated == Spec => []SegregationOfDuties
<1>1. IInv => SegregationOfDuties
  BY DEF IInv
<1> QED
  BY <1>1, InvariantTheorem, PTL

\* The status of a finding is the initial one or named by its history, also
\* after the unlogged write of a PATCH that compared with a stale status.
THEOREM StatusOnRecord == Spec => []StatusIsOnRecord
<1>1. IInv => StatusIsOnRecord
  BY DEF IInv
<1> QED
  BY <1>1, InvariantTheorem, PTL

\* The audit trail is append-only: no step, the retention's cascade included,
\* rewrites or takes away a row of findings_history, and a finding that has one
\* is never taken out of its table (findings without any are).
THEOREM RecordOnlyGrows == Spec => [][\A f \in Finding : Kept(f)]_vars
<1>1. IInv /\ [Next]_vars => [\A f \in Finding : Kept(f)]_vars
  BY StepRecords DEF Recorded
<1> QED
  BY <1>1, InvariantTheorem, PTL DEF Spec
=============================================================================

-------------------------- MODULE CveMirrorProofs --------------------------
(***************************************************************************)
(* Proofs about CveMirror: the versions and the KEV marks of the mirror's  *)
(* rows, for any number of CVEs, replicas, changes and failures.           *)
(***************************************************************************)
EXTENDS CveMirror, TLAPS

\* A run that begins is well typed.
LEMMA BeginType ==
    ASSUME TypeOK, NEW source \in Source
    PROVE  Begin(source) \in Run
  BY DEF TypeOK, Begin, Run, LastModDate, Source, SyncState, Time, Record

\* Versions are numbers, and a row that is there is not Absent.
LEMMA ModifiedInt ==
    /\ Absent \in Int
    /\ \A m \in Modified : m \in Int /\ m > Absent
  BY MirrorAssumption DEF Modified, Time, Absent, BeforeYear

\* Upserting a record yields a row, not older than it was and with its mark.
LEMMA UpsertRow ==
    ASSUME NEW row \in CveRow, NEW record \in Record
    PROVE  /\ Upsert(row, record) \in CveRow
           /\ Upsert(row, record).mod >= row.mod
           /\ Upsert(row, record).kev = row.kev
           /\ row.mod # Absent => Upsert(row, record).mod # Absent
  <1>1. row.mod \in {Absent} \cup Modified /\ row.old \in BOOLEAN /\ row.kev \in BOOLEAN
    BY DEF CveRow
  <1>2. record.mod \in Modified
    BY DEF Record
  <1>3. row.mod \in Int
    BY <1>1, ModifiedInt
  <1>4. record.mod \in Int /\ record.mod # Absent
    BY <1>2, ModifiedInt
  <1>5. CASE row.mod < record.mod
    <2> DEFINE o == IF row.mod = Absent THEN record.cve \in Old ELSE row.old
    <2>1. o \in BOOLEAN
      <3>1. (record.cve \in Old) \in BOOLEAN
        OBVIOUS
      <3> QED
        BY <1>1, <3>1, Zenon
    <2>2. Upsert(row, record) = [mod |-> record.mod, kev |-> row.kev, old |-> o]
      BY <1>5 DEF Upsert
    <2> HIDE DEF o
    <2>3. Upsert(row, record) \in CveRow
      BY <1>1, <1>2, <2>1, <2>2 DEF CveRow
    <2>4. /\ Upsert(row, record).mod = record.mod
          /\ Upsert(row, record).kev = row.kev
      BY <2>2
    <2> QED
      BY <1>3, <1>4, <1>5, <2>3, <2>4
  <1>6. CASE ~(row.mod < record.mod)
    BY <1>3, <1>4, <1>6 DEF Upsert
  <1> QED
    BY <1>5, <1>6

\* What a batch does to the row of a CVE.
LEMMA FlushRow ==
    ASSUME TypeOK, NEW r \in Replica, Flush(r), NEW c \in Cve
    PROVE  /\ cves'[c] \in CveRow
           /\ cves'[c].mod >= cves[c].mod
           /\ cves'[c].kev = cves[c].kev
           /\ Mirrored(c) => cves'[c].mod # Absent
  <1>1. run[r] \in Run
    BY DEF TypeOK, Flush, NoRun
  <1>2. cves[c] \in CveRow /\ cves[c].mod \in Int
    <2>1. cves[c] \in CveRow
      BY DEF TypeOK
    <2>2. cves[c].mod \in {Absent} \cup Modified
      BY <2>1 DEF CveRow
    <2> QED
      BY <2>1, <2>2, ModifiedInt
  <1>3. CASE \E d \in run[r].batch : d.cve = c
    <2>1. (CHOOSE d \in run[r].batch : d.cve = c) \in Record
      BY <1>1, <1>3 DEF Run
    <2>2. cves'[c] = Upsert(cves[c], CHOOSE d \in run[r].batch : d.cve = c)
      BY <1>3 DEF Flush
    <2> QED
      BY <1>2, <2>1, <2>2, UpsertRow DEF Mirrored
  <1>4. CASE ~\E d \in run[r].batch : d.cve = c
    BY <1>2, <1>4 DEF Flush, Mirrored
  <1> QED
    BY <1>3, <1>4

\* What an on-demand insert writes.
LEMMA InsertedRow ==
    ASSUME TypeOK, NEW c \in Cve, LiveInsert(c)
    PROVE  \E row \in CveRow : row.mod \in Modified /\ cves' = [cves EXCEPT ![c] = row]
  <1>1. PICK mod \in Published(c)..now, old \in {(c \in Old), FALSE} :
          cves' = [cves EXCEPT ![c] = [mod |-> mod, old |-> old, kev |-> FALSE]]
    BY DEF LiveInsert
  <1>2. mod \in Modified
    BY MirrorAssumption DEF TypeOK, Modified, Time, Published, BeforeYear
  <1>3. old \in BOOLEAN
    <2>1. (c \in Old) \in BOOLEAN
      OBVIOUS
    <2> QED
      BY <2>1, Zenon
  <1>4. [mod |-> mod, old |-> old, kev |-> FALSE] \in CveRow
    BY <1>2, <1>3 DEF CveRow
  <1> QED
    BY <1>1, <1>2, <1>4

\* Every step keeps the types.
LEMMA NextTypeOK == TypeOK /\ [Next]_vars => TypeOK'
  <1> SUFFICES ASSUME TypeOK, [Next]_vars PROVE TypeOK'
    OBVIOUS
  <1> USE DEF feedVars, mirrorVars, kevVars
  <1>1. ASSUME NEW c \in Cve, Change(c) PROVE TypeOK'
    BY <1>1, MirrorAssumption DEF TypeOK, Change, Time, Modified
  <1>2. ASSUME NEW c \in Cve, AddToKev(c) PROVE TypeOK'
    BY <1>2 DEF TypeOK, AddToKev
  <1>3. ASSUME NEW c \in Cve, LiveInsert(c) PROVE TypeOK'
    <2>1. PICK row \in CveRow : row.mod \in Modified /\ cves' = [cves EXCEPT ![c] = row]
      BY <1>3, InsertedRow
    <2>2. cves' \in [Cve -> CveRow]
      BY <2>1 DEF TypeOK
    <2> QED
      BY <1>3, <2>2 DEF TypeOK, LiveInsert
  <1>4. ASSUME NEW r \in Replica, StartDelta(r) PROVE TypeOK'
    <2>1. run' \in [Replica -> Run \cup {NoRun}]
      BY <1>4, BeginType DEF TypeOK, StartDelta, Source
    <2> QED
      BY <1>4, <2>1 DEF TypeOK, StartDelta
  <1>5. ASSUME NEW r \in Replica, Page(r) PROVE TypeOK'
    <2> DEFINE batch == run[r].batch \cup {[cve |-> c, mod |-> upstream[c]] :
                                              c \in At(Window(run[r]), run[r].index)}
    <2>1. run[r] \in Run
      <3>1. run[r].phase = "paging" /\ run[r] \in Run \cup {NoRun}
        BY <1>5 DEF TypeOK, Page
      <3> QED
        BY <3>1 DEF NoRun
    <2>2. At(Window(run[r]), run[r].index) \subseteq Cve
      BY DEF At, Window
    <2>3. batch \in SUBSET Record
      BY <2>1, <2>2 DEF TypeOK, Run, Record
    <2>4. AfterPage(run[r], batch) \in {"paging", "flushing", "ending"}
      BY DEF AfterPage
    <2>5. run[r].index + 1 \in Nat
      BY <2>1 DEF Run
    <2>6. run' = [run EXCEPT ![r] = [run[r] EXCEPT !.batch = batch,
                     !.index = run[r].index + 1, !.phase = AfterPage(run[r], batch)]]
      BY <1>5, <2>1 DEF Page, TypeOK
    <2> HIDE DEF batch
    <2>7. run' \in [Replica -> Run \cup {NoRun}]
      BY <2>1, <2>3, <2>4, <2>5, <2>6 DEF TypeOK, Run
    <2> QED
      BY <1>5, <2>7 DEF TypeOK, Page
  <1>6. ASSUME NEW r \in Replica, Flush(r) PROVE TypeOK'
    <2>1. run[r] \in Run
      BY <1>6 DEF TypeOK, Flush, NoRun
    <2>2. run' \in [Replica -> Run \cup {NoRun}]
      BY <1>6, <2>1 DEF TypeOK, Flush, Run, AfterFlush
    <2>3. cves' \in [Cve -> CveRow]
      <3>1. cves' = [c \in Cve |-> cves'[c]]
        BY <1>6 DEF Flush
      <3> QED
        BY <1>6, <3>1, FlushRow
    <2> QED
      BY <1>6, <2>2, <2>3 DEF TypeOK, Flush
  <1>7. ASSUME NEW r \in Replica, Checkpoint(r) PROVE TypeOK'
    BY <1>7 DEF TypeOK, Checkpoint
  <1>8. ASSUME NEW r \in Replica, FlushFails(r) PROVE TypeOK'
    <2>1. run[r] \in Run
      BY <1>8 DEF TypeOK, FlushFails, NoRun
    <2>2. run' \in [Replica -> Run \cup {NoRun}]
      BY <1>8, <2>1 DEF TypeOK, FlushFails, Run, AfterFlush
    <2>3. failures' \in 0..MaxFailures
      BY <1>8, MirrorAssumption DEF TypeOK, FlushFails
    <2> QED
      BY <1>8, <2>2, <2>3 DEF TypeOK, FlushFails
  <1>9. ASSUME NEW r \in Replica, PageFails(r) PROVE TypeOK'
    <2>1. run' \in [Replica -> Run \cup {NoRun}]
      BY <1>9, BeginType DEF TypeOK, PageFails, Source
    <2> QED
      BY <1>9, <2>1, MirrorAssumption DEF TypeOK, PageFails
  <1>10. ASSUME NEW r \in Replica, Restart(r) PROVE TypeOK'
    BY <1>10, MirrorAssumption DEF TypeOK, Restart
  <1>11. CASE KevRead
    <2>1. kevCache' \subseteq kevList
      BY <1>11 DEF TypeOK, KevRead, get_catalog
    <2>2. kev' \subseteq kevCache'
      BY <1>11 DEF KevRead, get_catalog
    <2>3. kev' \subseteq Cve
      BY <2>1, <2>2, MirrorAssumption DEF TypeOK
    <2> QED
      BY <1>11, <2>1, <2>3 DEF TypeOK, KevRead, get_catalog
  <1>12. CASE KevWrite
    <2>1. cves' \in [Cve -> CveRow]
      BY <1>12 DEF TypeOK, KevWrite, CveRow
    <2> QED
      BY <1>12, <2>1 DEF TypeOK, KevWrite
  <1>13. CASE KevExpire
    BY <1>13 DEF TypeOK, KevExpire, NoCatalog
  <1>14. CASE Retention
    <2>1. cves' \in [Cve -> CveRow]
      BY <1>14 DEF TypeOK, Retention, CveRow, NoRow
    <2> QED
      BY <1>14, <2>1 DEF TypeOK, Retention
  <1>15. CASE UNCHANGED vars
    BY <1>15 DEF TypeOK, vars
  <1> QED
    BY <1>1, <1>2, <1>3, <1>4, <1>5, <1>6, <1>7, <1>8, <1>9, <1>10, <1>11, <1>12,
       <1>13, <1>14, <1>15 DEF Next, DeltaStep, Failing

LEMMA InitTypeOK == Init => TypeOK
  <1> SUFFICES ASSUME Init PROVE TypeOK
    OBVIOUS
  <1>1. now \in Time /\ failures \in 0..MaxFailures
    BY MirrorAssumption DEF Init, Time
  <1>2. upstream \in [Cve -> Modified]
    BY MirrorAssumption DEF Init, Published, Modified, Time
  <1>3. NoRow \in CveRow
    BY DEF NoRow, CveRow
  <1>4. cves \in [Cve -> CveRow]
    BY <1>3 DEF Init
  <1>5. /\ checkpoint \in [SyncState -> {Null} \cup Time]
        /\ run \in [Replica -> Run \cup {NoRun}]
        /\ open \subseteq Replica
        /\ kevList \subseteq Exploited
        /\ kevCache \in (SUBSET kevList) \cup {NoCatalog}
        /\ kev \in (SUBSET Cve) \cup {Resting}
    BY DEF Init, NoCatalog
  <1> QED
    BY <1>1, <1>2, <1>4, <1>5 DEF TypeOK

\* The tables, the runs and the caches always have the shape the code gives
\* them: a run never works on a checkpoint or a record outside its domain.
THEOREM TypeCorrect == Spec => []TypeOK
  BY InitTypeOK, NextTypeOK, PTL DEF Spec

-----------------------------------------------------------------------------
\* A CVE with a KEV mark has a row: an insert never finds a mark to lose.
MarkedIsMirrored == \A c \in Cve : cves[c].kev => Mirrored(c)

\* What one step may do to a row: leave it, bring a newer version with the
\* same mark, insert it, mark it, or delete it while it has no mark.
LEMMA RowStep ==
    ASSUME TypeOK, MarkedIsMirrored, [Next]_vars, NEW c \in Cve
    PROVE  /\ cves'[c].mod >= cves[c].mod \/ cves'[c] = NoRow
           /\ cves[c].kev => cves'[c].kev
           /\ cves'[c].kev => cves'[c].mod # Absent
  <1> USE DEF feedVars, mirrorVars, kevVars
  <1> DEFINE Ok == /\ cves'[c].mod >= cves[c].mod \/ cves'[c] = NoRow
                   /\ cves[c].kev => cves'[c].kev
                   /\ cves'[c].kev => cves'[c].mod # Absent
  <1>1. cves[c] \in CveRow /\ cves[c].mod \in Int
    <2>1. cves[c] \in CveRow
      BY DEF TypeOK
    <2>2. cves[c].mod \in {Absent} \cup Modified
      BY <2>1 DEF CveRow
    <2> QED
      BY <2>1, <2>2, ModifiedInt
  <1>2. cves[c].kev => cves[c].mod # Absent
    BY DEF MarkedIsMirrored, Mirrored
  <1>3. CASE cves' = cves
    BY <1>1, <1>2, <1>3
  <1>4. ASSUME NEW b \in Cve, LiveInsert(b) PROVE Ok
    <2>1. PICK row \in CveRow : row.mod \in Modified /\ cves' = [cves EXCEPT ![b] = row]
      BY <1>4, InsertedRow
    <2>2. CASE b # c
      BY <1>1, <1>2, <2>1, <2>2 DEF TypeOK
    <2>3. CASE b = c
      <3>1. cves[c].mod = Absent
        BY <1>4, <2>3 DEF LiveInsert, Mirrored
      <3>2. cves'[c] = row
        BY <2>1, <2>3 DEF TypeOK
      <3>3. row.mod \in Int /\ row.mod > Absent /\ Absent \in Int
        BY <2>1, ModifiedInt
      <3> QED
        BY <1>2, <3>1, <3>2, <3>3
    <2> QED
      BY <2>2, <2>3
  <1>5. ASSUME NEW r \in Replica, Flush(r) PROVE Ok
    <2>1. /\ cves'[c].mod >= cves[c].mod
          /\ cves'[c].kev = cves[c].kev
          /\ Mirrored(c) => cves'[c].mod # Absent
      BY <1>5, FlushRow
    <2> QED
      BY <1>2, <2>1 DEF Mirrored
  <1>6. CASE KevWrite
    <2>1. CASE c \in kev /\ Mirrored(c)
      <3>1. cves'[c] = [cves[c] EXCEPT !.kev = TRUE]
        BY <1>6, <2>1 DEF KevWrite
      <3>2. cves'[c].mod = cves[c].mod /\ cves'[c].kev = TRUE
        BY <1>1, <3>1 DEF CveRow
      <3> QED
        BY <1>1, <2>1, <3>2 DEF Mirrored
    <2>2. CASE ~(c \in kev /\ Mirrored(c))
      BY <1>1, <1>2, <1>6, <2>2 DEF KevWrite
    <2> QED
      BY <2>1, <2>2
  <1>7. CASE Retention
    <2>1. CASE c \in Doomed
      <3>1. cves'[c] = NoRow /\ ~cves[c].kev
        BY <1>7, <2>1 DEF Retention, Doomed
      <3> QED
        BY <3>1 DEF NoRow
    <2>2. CASE c \notin Doomed
      BY <1>1, <1>2, <1>7, <2>2 DEF Retention
    <2> QED
      BY <2>1, <2>2
  <1>8. CASE \/ \E b \in Cve : Change(b) \/ AddToKev(b)
             \/ \E r \in Replica : StartDelta(r) \/ Page(r) \/ Checkpoint(r) \/ Failing(r)
             \/ KevRead \/ KevExpire \/ UNCHANGED vars
    <2>1. cves' = cves
      BY <1>8 DEF Change, AddToKev, StartDelta, Page, Checkpoint, Failing, FlushFails,
                  PageFails, Restart, KevRead, KevExpire, vars
    <2> QED
      BY <1>3, <2>1
  <1> QED
    BY <1>4, <1>5, <1>6, <1>7, <1>8 DEF Next, DeltaStep

IInv == TypeOK /\ MarkedIsMirrored

LEMMA IInvHolds == Spec => []IInv
  <1>1. Init => IInv
    <2> SUFFICES ASSUME Init PROVE MarkedIsMirrored
      BY InitTypeOK DEF IInv
    <2> QED
      BY DEF Init, MarkedIsMirrored, NoRow
  <1>2. IInv /\ [Next]_vars => IInv'
    <2> SUFFICES ASSUME IInv, [Next]_vars PROVE MarkedIsMirrored'
      BY NextTypeOK DEF IInv
    <2>1. \A c \in Cve : cves'[c].kev => cves'[c].mod # Absent
      BY RowStep DEF IInv
    <2> QED
      BY <2>1 DEF MarkedIsMirrored, Mirrored
  <1> QED
    BY <1>1, <1>2, PTL DEF Spec

\* However many replicas run their delta syncs at once, with batches fetched at
\* whatever times, no write takes a row back to an earlier version of its CVE.
THEOREM RowsNeverRegress == Spec => NoRegression
  <1>1. IInv /\ [Next]_vars
          => [\A c \in Cve : cves'[c].mod >= cves[c].mod \/ cves'[c] = NoRow]_vars
    BY RowStep DEF IInv
  <1> QED
    BY <1>1, IInvHolds, PTL DEF Spec, NoRegression

\* No upsert, insert, refresh or retention takes a KEV mark away.
THEOREM KevMarksAreKept == Spec => KevIsKept
  <1>1. IInv /\ [Next]_vars => [\A c \in Cve : cves[c].kev => cves'[c].kev]_vars
    BY RowStep DEF IInv
  <1> QED
    BY <1>1, IInvHolds, PTL DEF Spec, KevIsKept
=============================================================================

----------------------------- MODULE CveMirror -----------------------------
(***************************************************************************)
(* The cves table as a mirror of the public feeds: the delta sync of the   *)
(* scheduler (run_smart_delta: VulnCheck, falling back to NVD), its        *)
(* checkpoint in sync_state, and the writers it shares the rows with: the  *)
(* on-demand inserts of the CIRCL and OpenCVE clients, the KEV refresh and *)
(* the retention job.                                                      *)
(*                                                                         *)
(* The clock counts the changes upstream: a moment is known by the last    *)
(* change before it, so a change is after a moment if its number is        *)
(* greater.  0 is the first of January; what was last changed before it    *)
(* has time BeforeYear.                                                    *)
(***************************************************************************)
EXTENDS Integers, FiniteSets

CONSTANTS
    NCve,           \* CVEs are 1..NCve; the feeds page through them in order
    Old,            \* the CVEs published before this year
    Exploited,      \* the CVEs that CISA's catalog ever names
    Replica,        \* processes; two may believe to be the leader
    VulnCheck,      \* is VULNCHECK_API_KEY set?
    BatchSize,      \* _UPSERT_BATCH
    MaxTime,        \* bound: changes upstream
    MaxFailures     \* bound: failed pages and batches, and crashes

Cve == 1..NCve

ASSUME MirrorAssumption ==
    /\ NCve \in Nat
    /\ Old \subseteq Cve
    /\ Exploited \subseteq Cve
    /\ VulnCheck \in BOOLEAN
    /\ BatchSize \in Nat \ {0}
    /\ MaxTime \in Nat
    /\ MaxFailures \in Nat

VARIABLES
    now,            \* the clock
    upstream,       \* per CVE: lastModified in the feeds
    cves,           \* the cves rows
    checkpoint,     \* sync_state.last_mod_date of each seeded row
    run,            \* per replica: its delta sync
    open,           \* replicas whose VulnCheck breaker is open
    kevList,        \* the catalog CISA publishes
    kevCache,       \* the catalog cached in Redis
    kev,            \* the KEV refresh's rows to update
    failures

vars == <<now, upstream, cves, checkpoint, run, open, kevList, kevCache, kev, failures>>
mirrorVars == <<cves, checkpoint>>
feedVars == <<now, upstream, kevList>>
kevVars == <<kevCache, kev>>

-----------------------------------------------------------------------------
BeforeYear == -1
Absent == -2                        \* there is no row
Null == -3                          \* last_mod_date IS NULL
Time == 0..MaxTime
Modified == {BeforeYear} \cup Time

CveRow == [mod : {Absent} \cup Modified, old : BOOLEAN, kev : BOOLEAN]
NoRow == [mod |-> Absent, old |-> FALSE, kev |-> FALSE]
Mirrored(c) == cves[c].mod # Absent

\* The rows that migration 0002 seeds; the CHECK admits no others.
SyncState == {"vulncheck", "nvd_api"}

\* The source names the two delta runs read and write their checkpoint by.
Source == {"vulncheck_nvd", "nvd_api"}

Record == [cve : Cve, mod : Modified]
NoRun == [phase |-> "idle"]
Run == [phase : {"paging", "flushing", "ending", "ended"}, source : Source,
        from : {Null} \cup Time, to : Time, index : Nat, batch : SUBSET Record]

NoCatalog == {0}                    \* nothing cached (0 is no CVE)
Resting == {0}                      \* no KEV refresh between its two steps

TypeOK ==
    /\ now \in Time
    /\ upstream \in [Cve -> Modified]
    /\ cves \in [Cve -> CveRow]
    /\ checkpoint \in [SyncState -> {Null} \cup Time]
    /\ run \in [Replica -> Run \cup {NoRun}]
    /\ open \subseteq Replica
    /\ kevList \subseteq Exploited
    /\ kevCache \in (SUBSET kevList) \cup {NoCatalog}
    /\ kev \in (SUBSET Cve) \cup {Resting}
    /\ failures \in 0..MaxFailures

Published(c) == IF c \in Old THEN BeforeYear ELSE 0

Init ==
    /\ now = 0
    /\ upstream = [c \in Cve |-> Published(c)]
    /\ cves = [c \in Cve |-> NoRow]
    /\ checkpoint = [s \in SyncState |-> Null]
    /\ run = [r \in Replica |-> NoRun]
    /\ open = {}
    /\ kevList = {}
    /\ kevCache = NoCatalog
    /\ kev = Resting
    /\ failures = 0

-----------------------------------------------------------------------------
\* The feeds: a CVE is changed (or published, which the mirror sees the same
\* way), or is added to the KEV catalog.

Change(c) ==
    /\ now < MaxTime
    /\ now' = now + 1
    /\ upstream' = [upstream EXCEPT ![c] = now + 1]
    /\ UNCHANGED <<mirrorVars, run, open, kevList, kevVars, failures>>

AddToKev(c) ==
    /\ c \in Exploited \ kevList
    /\ kevList' = kevList \cup {c}
    /\ UNCHANGED <<now, upstream, mirrorVars, run, open, kevVars, failures>>

-----------------------------------------------------------------------------
\* The delta sync.

\* _get_last_mod_date: None without a row of that source.
LastModDate(source) == IF source \in SyncState THEN checkpoint[source] ELSE Null

Begin(source) ==
    [phase |-> "paging", source |-> source, from |-> LastModDate(source),
     to |-> now, index |-> 0, batch |-> {}]

\* run_smart_delta: VulnCheck unless its breaker is open.
StartDelta(r) ==
    /\ run[r] = NoRun
    /\ run' = [run EXCEPT ![r] = Begin(IF VulnCheck /\ r \notin open
                                       THEN "vulncheck_nvd" ELSE "nvd_api")]
    /\ UNCHANGED <<feedVars, mirrorVars, open, kevVars, failures>>

\* iter_delta's query.  Without a checkpoint VulnCheck is asked for what was
\* changed this year, NVD for what was published this year.
Window(d) ==
    IF d.from = Null /\ d.source = "nvd_api" THEN Cve \ Old
    ELSE {c \in Cve : upstream[c] > (IF d.from = Null THEN BeforeYear ELSE d.from)
                      /\ upstream[c] <= d.to}

\* The record at startIndex in the feed's answer, if there is one.
At(S, i) == {c \in S : Cardinality({b \in S : b < c}) = i}

\* Mutant: the remainder of the last batch is not flushed.
AfterPageNoRemainder(d, batch) ==
    IF d.index + 1 >= Cardinality(Window(d)) THEN "ended"
    ELSE IF Cardinality(batch) >= BatchSize THEN "flushing" ELSE "paging"

AfterPage(d, batch) ==
    IF d.index + 1 >= Cardinality(Window(d)) THEN "ending"
    ELSE IF Cardinality(batch) >= BatchSize THEN "flushing" ELSE "paging"

\* _iter_pages: one page (of one record), asked for by its index in what the
\* window contains now, and appended to the batch.
Page(r) ==
    /\ run[r].phase = "paging"
    /\ LET d == run[r]
           batch == d.batch \cup {[cve |-> c, mod |-> upstream[c]] :
                                     c \in At(Window(d), d.index)}
       IN run' = [run EXCEPT ![r].batch = batch,
                             ![r].index = d.index + 1,
                             ![r].phase = AfterPage(d, batch)]
    /\ UNCHANGED <<feedVars, mirrorVars, open, kevVars, failures>>

\* Mutant: ON CONFLICT DO UPDATE without its WHERE.
UpsertAlways(row, record) ==
    [mod |-> record.mod, kev |-> row.kev,
     old |-> IF row.mod = Absent THEN record.cve \in Old ELSE row.old]

\* _UPSERT_SQL: inserts, or updates a row that is older by last_modified_at.
\* published_at and the enrichment columns of a row are left alone.
Upsert(row, record) ==
    IF row.mod < record.mod
    THEN [mod |-> record.mod, kev |-> row.kev,
          old |-> IF row.mod = Absent THEN record.cve \in Old ELSE row.old]
    ELSE row

AfterFlush(phase) == IF phase = "flushing" THEN "paging" ELSE "ended"

\* _flush: executemany is atomic.
Flush(r) ==
    /\ run[r].phase \in {"flushing", "ending"}
    /\ cves' = [c \in Cve |->
          IF \E d \in run[r].batch : d.cve = c
          THEN Upsert(cves[c], CHOOSE d \in run[r].batch : d.cve = c) ELSE cves[c]]
    /\ run' = [run EXCEPT ![r].batch = {}, ![r].phase = AfterFlush(@)]
    /\ UNCHANGED <<feedVars, checkpoint, open, kevVars, failures>>

\* A batch the database refuses is logged and dropped; the run goes on.
FlushFails(r) ==
    /\ run[r].phase \in {"flushing", "ending"}
    /\ failures < MaxFailures /\ failures' = failures + 1
    /\ run' = [run EXCEPT ![r].batch = {}, ![r].phase = AfterFlush(@)]
    /\ UNCHANGED <<feedVars, mirrorVars, open, kevVars>>

\* _checkpoint: UPDATE ... WHERE source = the run's, with the time it is now.
Checkpoint(r) ==
    /\ run[r].phase = "ended"
    /\ checkpoint' = [s \in SyncState |->
          IF s = run[r].source THEN now ELSE checkpoint[s]]
    /\ run' = [run EXCEPT ![r] = NoRun]
    /\ UNCHANGED <<feedVars, cves, open, kevVars, failures>>

\* A page cannot be fetched: the run is given up with what it had batched.
\* After VulnCheck's (and perhaps the last failure its breaker takes), the
\* job goes on with NVD.
PageFails(r) ==
    /\ run[r].phase = "paging"
    /\ failures < MaxFailures /\ failures' = failures + 1
    /\ \/ /\ run[r].source = "vulncheck_nvd"
          /\ open' \in {open, open \cup {r}}
          /\ run' = [run EXCEPT ![r] = Begin("nvd_api")]
       \/ /\ run[r].source = "nvd_api"
          /\ run' = [run EXCEPT ![r] = NoRun]
          /\ UNCHANGED open
    /\ UNCHANGED <<feedVars, mirrorVars, kevVars>>

\* The process ends and is started again, with new breakers.
Restart(r) ==
    /\ failures < MaxFailures /\ failures' = failures + 1
    /\ run' = [run EXCEPT ![r] = NoRun]
    /\ kev' \in {kev, Resting}
    /\ open' = open \ {r}
    /\ UNCHANGED <<feedVars, mirrorVars, kevCache>>

-----------------------------------------------------------------------------
\* The other writers of cves.

\* CirclClient._store and OpenCVE's: ON CONFLICT DO NOTHING.  Modified is that
\* of the version it was given, the date of publication without one, and the
\* time of the insert if no date can be read; Published is its own or the
\* time of the insert.
LiveInsert(c) ==
    /\ ~Mirrored(c)
    /\ \E mod \in Published(c)..now, old \in {(c \in Old), FALSE} :
          cves' = [cves EXCEPT ![c] = [mod |-> mod, old |-> old, kev |-> FALSE]]
    /\ UNCHANGED <<feedVars, checkpoint, run, open, kevVars, failures>>

\* The cached catalog, or CISA's when there is none.
get_catalog == IF kevCache = NoCatalog THEN kevList ELSE kevCache

\* run_kev_refresh: the catalog, from the cache or from CISA, and the rows
\* of the mirror that are in it ...  (The catalog names many CVEs besides the
\* modelled ones, so the code's test for an empty one never applies.  Its writes only ever add marks, so one
\* refresh at a time stands for those of several leaders.)
KevRead ==
    /\ kev = Resting
    /\ kevCache' = get_catalog
    /\ kev' = {c \in get_catalog : Mirrored(c)}
    /\ UNCHANGED <<feedVars, mirrorVars, run, open, failures>>

\* Mutant: a WHERE that no unmarked row satisfies.
KevWriteNothing ==
    /\ kev # Resting
    /\ kev' = Resting
    /\ UNCHANGED <<feedVars, mirrorVars, run, open, kevCache, failures>>

\* ... which are then marked, those that are still there.
KevWrite ==
    /\ kev # Resting
    /\ cves' = [c \in Cve |-> IF c \in kev /\ Mirrored(c)
                              THEN [cves[c] EXCEPT !.kev = TRUE] ELSE cves[c]]
    /\ kev' = Resting
    /\ UNCHANGED <<feedVars, checkpoint, run, open, kevCache, failures>>

\* The six hours of the cached catalog are over.
KevExpire ==
    /\ kevCache # NoCatalog
    /\ kevCache' = NoCatalog
    /\ UNCHANGED <<feedVars, mirrorVars, run, open, kev, failures>>

Doomed == {c \in Cve : Mirrored(c) /\ cves[c].old /\ ~cves[c].kev}

\* _retention_cleanup: one DELETE, cascading to the findings.  (A finding with
\* history rows makes all of it fail: then it does not happen.)
Retention ==
    /\ Doomed # {}
    /\ cves' = [c \in Cve |-> IF c \in Doomed THEN NoRow ELSE cves[c]]
    /\ UNCHANGED <<feedVars, checkpoint, run, open, kevVars, failures>>

-----------------------------------------------------------------------------
DeltaStep(r) == StartDelta(r) \/ Page(r) \/ Flush(r) \/ Checkpoint(r)
Failing(r) == FlushFails(r) \/ PageFails(r) \/ Restart(r)

Next ==
    \/ \E c \in Cve : Change(c) \/ AddToKev(c) \/ LiveInsert(c)
    \/ \E r \in Replica : DeltaStep(r) \/ Failing(r)
    \/ KevRead \/ KevWrite \/ KevExpire
    \/ Retention

Spec == Init /\ [][Next]_vars

\* The leader's scheduler starts the delta sync hourly and the KEV refresh
\* every six hours, and they run to their end; Redis expires the catalog.
\* The feeds, the requests behind LiveInsert and the retention owe nothing.
FairSpec ==
    /\ Spec
    /\ \A r \in Replica : WF_vars(DeltaStep(r))
    /\ WF_vars(KevRead \/ KevWrite)
    /\ WF_vars(KevExpire)

-----------------------------------------------------------------------------
\* A row never goes back to an earlier version of its CVE, however delta
\* runs with batches fetched at different times overlap (_UPSERT_SQL's WHERE).
NoRegression ==
    [][\A c \in Cve : cves'[c].mod >= cves[c].mod \/ cves'[c] = NoRow]_vars

\* A CVE once marked as KEV stays in the mirror and stays marked: neither an
\* upsert nor the retention, between the two steps of a refresh or after
\* them, undoes it ("Keep: ... all KEV CVEs").
KevIsKept == [][\A c \in Cve : cves[c].kev => cves'[c].kev]_vars

\* A mirrored CVE in CISA's catalog is marked, or deleted by the retention
\* before a refresh got to it.
KevIsMarked ==
    \A c \in Cve : c \in kevList /\ Mirrored(c) ~> cves[c].kev \/ ~Mirrored(c)

\* When the feeds come to rest no CVE of this year is behind them in the mirror
\* (by last_modified_at, the only version the code compares), whatever was changed while a run paged through it and
\* whatever batches were lost, unless VulnCheck is given up for NVD.
\* ("Incremental sync: fetch CVEs modified since last checkpoint.")
MirrorCatchesUp ==
    <>[](open = {}) => <>[](\A c \in Cve \ Old : cves[c].mod >= upstream[c])
=============================================================================

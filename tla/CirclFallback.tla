--------------------------- MODULE CirclFallback ---------------------------
(***************************************************************************)
(* The tiers of the query engine (query_cves_for_product), the CIRCL       *)
(* client behind tier 2 with its token bucket, and GET /api/circl, which   *)
(* searches the same service and keeps its answer under the same Redis     *)
(* key.                                                                    *)
(*                                                                         *)
(* All products here have the same vendor and product in their CPE, so     *)
(* there is one key.  CIRCL's list of them comes in pages.  The circuit    *)
(* breaker may refuse a call at any moment (CircuitBreaker has its         *)
(* states).  Tier 4 is part of Exploitability.                             *)
(***************************************************************************)
EXTENDS Integers, Sequences, FiniteSets

CONSTANTS
    Product,
    HasCpe,         \* products whose CPE is resolved
    Cve, Other,     \* ids in CIRCL's answers: CVE-..., anything else
    Old,            \* CVEs that the retention deletes
    Pages,          \* CIRCL's list, page by page
    MaxPages,       \* _MAX_PAGES
    Query, Search,  \* handlers of the engine and of GET /api/circl
    Capacity, RefillRate, Cost,     \* the bucket, in fractions of a token
    CacheTtl,       \* _CACHE_TTL
    MaxTime         \* bound: the clock

Id == Cve \cup Other

ASSUME CirclAssumption ==
    /\ HasCpe \subseteq Product /\ Old \subseteq Cve
    /\ Cve \cap Other = {} /\ IsFiniteSet(Product) /\ IsFiniteSet(Cve)
    /\ Pages \in Seq(SUBSET Id) /\ MaxPages \in Nat \ {0}
    /\ Capacity \in Nat /\ RefillRate \in Nat \ {0} /\ Cost \in Nat \ {0} /\ Cost <= Capacity
    /\ CacheTtl \in Nat /\ MaxTime \in Nat

VARIABLES
    now,
    bucket,         \* _tokens and _last_refill
    sent,           \* governed requests of this process
    born,           \* when this process started
    cache,          \* the Redis key circl:{vendor}:{product}
    cves, findings, \* the tables
    query,          \* per handler of the engine: where it is
    search,         \* per handler of GET /api/circl: whether it is fetching
    answer          \* the result returned by the last step

vars == <<now, bucket, sent, born, cache, cves, findings, query, search, answer>>

-----------------------------------------------------------------------------
Idle == [step |-> "idle"]
NoEntry == [kind |-> "none"]
Entry(kind, ids) == [kind |-> kind, ids |-> ids, exp |-> now + CacheTtl]
Least(a, b) == IF a < b THEN a ELSE b

Linked(p) == {c \in Cve : <<p, c>> \in findings}
\* Tier 1.  A filter may match none of the product's findings.
query_findings(p, narrow) == IF narrow THEN 0 ELSE Cardinality(Linked(p))

Result(q, total, source) ==
    {[product |-> query[q].product, narrow |-> query[q].narrow, purged |-> query[q].purged,
      total |-> total, source |-> source]}

\* The call of tier 2 ends without new records, is refused or raises: the empty
\* result of tier 1 is returned.
GiveUp(q) ==
    /\ query' = [query EXCEPT ![q] = Idle]
    /\ answer' = Result(q, 0, "local_only")

\* Mutant: _last_refill is not moved when there is too little.
RefillOnce(b) ==
    LET tokens == Least(Capacity, b.tokens + (now - b.last) * RefillRate) IN
    [tokens |-> tokens, last |-> IF tokens >= Cost THEN now ELSE b.last]

\* Mutant: an idle bucket fills without end.
RefillUncapped(b) == [tokens |-> b.tokens + (now - b.last) * RefillRate, last |-> now]

\* TokenBucket._refill
Refill(b) ==
    [tokens |-> Least(Capacity, b.tokens + (now - b.last) * RefillRate), last |-> now]

-----------------------------------------------------------------------------
Init ==
    /\ now = 0
    /\ bucket = [tokens |-> Capacity, last |-> 0]
    /\ sent = 0
    /\ born = 0
    /\ cache = NoEntry
    /\ cves = {}
    /\ findings = {}
    /\ query = [q \in Query |-> Idle]
    /\ search = [s \in Search |-> FALSE]
    /\ answer = {}

\* query_cves_for_product up to its call of the client: findings in the mirror
\* are the answer; without any, an open circuit or an unresolved CPE ends it.
Ask(q, p, narrow, refused) ==
    /\ query[q] = Idle
    /\ LET total == query_findings(p, narrow)
           Done(source) == {[product |-> p, narrow |-> narrow, purged |-> FALSE,
                             total |-> total, source |-> source]}
       IN  \/ /\ total > 0
              /\ answer' = Done("local")
              /\ UNCHANGED query
           \/ /\ total = 0 /\ (refused \/ p \notin HasCpe)
              /\ answer' = Done("local_only")
              /\ UNCHANGED query
           \/ /\ total = 0 /\ ~refused /\ p \in HasCpe
              /\ query' = [query EXCEPT ![q] = [step |-> "lookup", product |-> p,
                              narrow |-> narrow, purged |-> FALSE, ids |-> {}, page |-> 1]]
              /\ answer' = {}
    /\ UNCHANGED <<now, bucket, sent, born, cache, cves, findings, search>>

\* fetch_and_store looks at the cache.  What it finds it takes for the ids it
\* wrote: the records GET /api/circl keeps there raise as soon as one of them is
\* bound to a column.  An empty list is a hit too.
Lookup(q) ==
    /\ query[q].step = "lookup"
    /\ \/ /\ cache = NoEntry
          /\ query' = [query EXCEPT ![q].step = "fetch"]
          /\ answer' = {}
       \/ /\ cache # NoEntry /\ cache.kind = "ids"
          /\ query' = [query EXCEPT ![q].step = "link", ![q].ids = cache.ids]
          /\ answer' = {}
       \/ /\ cache # NoEntry /\ cache.kind = "records"
          /\ GiveUp(q)
    /\ UNCHANGED <<now, bucket, sent, born, cache, cves, findings, search>>

\* _upsert_findings_only: one executemany; an id that is not in cves violates
\* the foreign key and undoes all of it.  Either way the call adds no CVE, and
\* the caller returns the result it had.
Link(q) ==
    /\ query[q].step = "link"
    /\ findings' = IF query[q].ids \subseteq cves
                   THEN findings \cup ({query[q].product} \X query[q].ids) ELSE findings
    /\ GiveUp(q)
    /\ UNCHANGED <<now, bucket, sent, born, cache, cves, search>>

\* acquire: too few tokens; the bucket is refilled all the same.
Wait(q) ==
    /\ query[q].step = "fetch"
    /\ Refill(bucket).tokens < Cost
    /\ bucket' = Refill(bucket)
    /\ bucket' # bucket
    /\ answer' = {}
    /\ UNCHANGED <<now, sent, born, cache, cves, findings, query, search>>

\* acquire, and one page of _paginate.  A short page, the last one allowed, 404,
\* 429 and a failed connection end the list with what there is of it.
Fetch(q, outcome) ==
    LET page == query[q].page
        ids == IF outcome = "page" /\ page <= Len(Pages) THEN query[q].ids \cup Pages[page]
               ELSE query[q].ids
    IN
    /\ query[q].step = "fetch"
    /\ Refill(bucket).tokens >= Cost
    /\ bucket' = [Refill(bucket) EXCEPT !.tokens = @ - Cost]
    /\ sent' = sent + 1
    /\ IF outcome = "page" /\ page < Len(Pages) /\ page < MaxPages
       THEN /\ query' = [query EXCEPT ![q].ids = ids, ![q].page = page + 1]
            /\ answer' = {}
       ELSE IF outcome = "error" \/ ids = {}
       THEN GiveUp(q)
       ELSE /\ query' = [query EXCEPT ![q].ids = ids, ![q].step = "store"]
            /\ answer' = {}
    /\ UNCHANGED <<now, born, cache, cves, findings, search>>

\* Mutant: the records fetched are counted, not the CVEs among them.
StoreCountsAll(q) ==
    /\ query[q].step = "store"
    /\ cves' = cves \cup (query[q].ids \cap Cve)
    /\ findings' = findings \cup ({query[q].product} \X (query[q].ids \cap Cve))
    /\ query' = [query EXCEPT ![q].step = "fill", ![q].page = Cardinality(query[q].ids)]
    /\ answer' = {}
    /\ UNCHANGED <<now, bucket, sent, born, cache, search>>

\* _store: the CVEs and the findings in one transaction; from here on page
\* holds the number of rows.
Store(q) ==
    /\ query[q].step = "store"
    /\ cves' = cves \cup (query[q].ids \cap Cve)
    /\ findings' = findings \cup ({query[q].product} \X (query[q].ids \cap Cve))
    /\ query' = [query EXCEPT ![q].step = "fill", ![q].page = Cardinality(query[q].ids \cap Cve)]
    /\ answer' = {}
    /\ UNCHANGED <<now, bucket, sent, born, cache, search>>

\* All the ids are kept, those that are no CVEs and were not stored too.
Fill(q) ==
    /\ query[q].step = "fill"
    /\ cache' = Entry("ids", query[q].ids)
    /\ IF query[q].page = 0
       THEN GiveUp(q)
       ELSE query' = [query EXCEPT ![q].step = "requery"] /\ answer' = {}
    /\ UNCHANGED <<now, bucket, sent, born, cves, findings, search>>

\* Tier 1 again, with the same filters.
Requery(q) ==
    /\ query[q].step = "requery"
    /\ query' = [query EXCEPT ![q] = Idle]
    /\ answer' = Result(q, query_findings(query[q].product, query[q].narrow), "local+circl")
    /\ UNCHANGED <<now, bucket, sent, born, cache, cves, findings, search>>

\* Redis or the database fails: any exception of the call is logged, and what
\* was committed stays.
CallRaises(q) ==
    /\ query[q].step \in {"lookup", "link", "store", "fill"}
    /\ GiveUp(q)
    /\ UNCHANGED <<now, bucket, sent, born, cache, cves, findings, search>>

-----------------------------------------------------------------------------
\* circl_search: on a hit it answers from the cache (with a 500 when the entry
\* holds ids), on a miss it fetches, past the bucket.
SearchMiss(s) ==
    /\ ~search[s] /\ cache = NoEntry
    /\ search' = [search EXCEPT ![s] = TRUE]
    /\ answer' = {}
    /\ UNCHANGED <<now, bucket, sent, born, cache, cves, findings, query>>

\* Whatever came, an error's empty list too, is kept.
SearchFill(s, n) ==
    /\ search[s]
    /\ cache' = Entry("records", UNION {Pages[i] : i \in 1..n})
    /\ search' = [search EXCEPT ![s] = FALSE]
    /\ answer' = {}
    /\ UNCHANGED <<now, bucket, sent, born, cves, findings, query>>

\* The daily retention deletes the CVEs of earlier years, and by cascade their
\* findings.
Retention ==
    /\ cves \cap Old # {}
    /\ cves' = cves \ Old
    /\ findings' = {f \in findings : f[2] \notin Old}
    /\ query' = [q \in Query |-> IF query[q] = Idle THEN Idle
                                 ELSE [query[q] EXCEPT !.purged = TRUE]]
    /\ answer' = {}
    /\ UNCHANGED <<now, bucket, sent, born, cache, search>>

\* A new process starts with a full bucket.
Restart ==
    /\ bucket' = [tokens |-> Capacity, last |-> now]
    /\ sent' = 0
    /\ born' = now
    /\ query' = [q \in Query |-> Idle]
    /\ search' = [s \in Search |-> FALSE]
    /\ answer' = {}
    /\ UNCHANGED <<now, cache, cves, findings>>

Tick ==
    /\ now < MaxTime
    /\ now' = now + 1
    /\ cache' = IF cache # NoEntry /\ cache.exp <= now + 1 THEN NoEntry ELSE cache
    /\ answer' = {}
    /\ UNCHANGED <<bucket, sent, born, cves, findings, query, search>>

Next ==
    \/ \E q \in Query : \/ \E p \in Product, narrow, refused \in BOOLEAN : Ask(q, p, narrow, refused)
                        \/ Lookup(q) \/ Link(q) \/ Wait(q)
                        \/ \E outcome \in {"page", "stop", "error"} : Fetch(q, outcome)
                        \/ Store(q) \/ Fill(q) \/ Requery(q) \/ CallRaises(q)
    \/ \E s \in Search : SearchMiss(s) \/ \E n \in 0..Len(Pages) : SearchFill(s, n)
    \/ Retention \/ Restart \/ Tick

Spec == Init /\ [][Next]_vars

-----------------------------------------------------------------------------
Handler ==
    {Idle} \cup
    [step : {"lookup", "link", "fetch", "store", "fill", "requery"}, product : Product,
     narrow : BOOLEAN, purged : BOOLEAN, ids : SUBSET Id, page : Nat]

\* Types; a finding always refers to a CVE of the table.
TypeOK ==
    /\ now \in 0..MaxTime /\ born \in 0..now
    /\ bucket \in [tokens : 0..Capacity, last : born..now]
    /\ sent \in Nat
    /\ cache \in {NoEntry} \cup [kind : {"ids", "records"}, ids : SUBSET Id, exp : Int]
    /\ cves \subseteq Cve
    /\ findings \subseteq Product \X cves
    /\ query \in [Query -> Handler]
    /\ search \in [Search -> BOOLEAN]

\* The client never outruns its budget: a burst of the capacity and what has
\* been refilled since the process started, however the handlers' attempts to
\* acquire interleave.
GovernedBudget == sent * Cost <= Capacity + RefillRate * (now - born)

\* A result that says it came from CIRCL shows something: when the engine
\* counted new records, the second query finds findings of the product, unless
\* its filters match none or the retention came in between.
CirclAnswerHasFindings ==
    \A a \in answer : a.source = "local+circl" /\ ~a.narrow /\ ~a.purged => a.total > 0
=============================================================================

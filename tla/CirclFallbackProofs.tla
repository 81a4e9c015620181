------------------------ MODULE CirclFallbackProofs ------------------------
(***************************************************************************)
(* Proofs about CirclFallback, for any bucket, pages, handlers and         *)
(* products.                                                               *)
(***************************************************************************)
EXTENDS CirclFallback, FiniteSetTheorems, TLAPS

-----------------------------------------------------------------------------
\* The budget at the moment of the last refill: what was sent and what is left
\* in the bucket never exceed the burst and the refills up to then.
BudgetInv ==
    /\ now \in Int /\ born \in Int /\ sent \in Nat
    /\ bucket \in [tokens : Int, last : Int]
    /\ bucket.tokens >= 0
    /\ born <= bucket.last /\ bucket.last <= now
    /\ sent * Cost + bucket.tokens <= Capacity + RefillRate * (bucket.last - born)

\* A refill moves last to now and adds no more than the time since.
LEMMA RefillBound ==
    ASSUME BudgetInv
    PROVE  /\ Refill(bucket) \in [tokens : Int, last : Int]
           /\ Refill(bucket).tokens >= 0 /\ Refill(bucket).last = now
           /\ sent * Cost + Refill(bucket).tokens <= Capacity + RefillRate * (now - born)
<1> DEFINE gain == (now - bucket.last) * RefillRate
<1>1. /\ now \in Int /\ bucket.last \in Int /\ born \in Int /\ RefillRate \in Nat /\ Capacity \in Nat
      /\ bucket.tokens \in Int /\ bucket.tokens >= 0 /\ bucket.last <= now
      /\ sent * Cost \in Int
  BY CirclAssumption DEF BudgetInv
<1>2. gain \in Nat
  <2>1. now - bucket.last \in Nat
    BY <1>1
  <2> QED
    BY <1>1, <2>1
<1>3. RefillRate * (now - born) = RefillRate * (bucket.last - born) + gain
  BY <1>1
<1>4. Refill(bucket).tokens <= bucket.tokens + gain /\ Refill(bucket).tokens \in Int
      /\ Refill(bucket).tokens >= 0 /\ Refill(bucket).last = now
  BY <1>1, <1>2 DEF Refill, Least
<1>5. Refill(bucket) \in [tokens : Int, last : Int]
  BY <1>1, <1>2 DEF Refill, Least
<1>6. RefillRate * (bucket.last - born) \in Int
  BY <1>1
<1> HIDE DEF gain
<1>7. sent * Cost + bucket.tokens <= Capacity + RefillRate * (bucket.last - born)
  BY DEF BudgetInv
<1> QED
  BY <1>1, <1>2, <1>3, <1>4, <1>5, <1>6, <1>7

\* Every step keeps it.
LEMMA BudgetStep ==
    ASSUME BudgetInv, [Next]_vars
    PROVE  BudgetInv'
<1> USE CirclAssumption
<1>1. ASSUME NEW q \in Query, NEW outcome \in {"page", "stop", "error"}, Fetch(q, outcome)
      PROVE  BudgetInv'
  <2>1. /\ bucket' = [Refill(bucket) EXCEPT !.tokens = Refill(bucket).tokens - Cost]
        /\ sent' = sent + 1 /\ now' = now /\ born' = born
        /\ Refill(bucket).tokens >= Cost
    BY <1>1 DEF Fetch
  <2>2. /\ bucket' \in [tokens : Int, last : Int]
        /\ bucket'.tokens = Refill(bucket).tokens - Cost /\ bucket'.last = now
    BY <2>1, RefillBound
  <2>3. (sent + 1) * Cost = sent * Cost + Cost
    BY DEF BudgetInv
  <2>4. sent * Cost \in Int /\ RefillRate * (now - born) \in Int
    BY DEF BudgetInv
  <2>5. sent' * Cost + bucket'.tokens <= Capacity + RefillRate * (now - born)
    BY <2>1, <2>2, <2>3, <2>4, RefillBound
  <2>6. /\ now \in Int /\ born \in Int /\ sent \in Nat /\ born <= bucket.last /\ bucket.last <= now
        /\ bucket.last \in Int
    BY DEF BudgetInv
  <2>7. Refill(bucket).tokens \in Int /\ Cost \in Int
    BY RefillBound
  <2>8. bucket'.tokens >= 0
    BY <2>1, <2>2, <2>7
  <2>9. born' <= bucket'.last /\ bucket'.last <= now' /\ sent' \in Nat
    BY <2>1, <2>2, <2>6
  <2>10. sent' * Cost + bucket'.tokens <= Capacity + RefillRate * (bucket'.last - born')
    BY <2>1, <2>2, <2>5
  <2> QED
    BY <2>1, <2>2, <2>6, <2>8, <2>9, <2>10 DEF BudgetInv
<1>2. ASSUME NEW q \in Query, Wait(q) PROVE BudgetInv'
  <2>1. bucket' = Refill(bucket) /\ sent' = sent /\ now' = now /\ born' = born
    BY <1>2 DEF Wait
  <2> QED
    BY <2>1, RefillBound DEF BudgetInv
<1>3. CASE Restart
  <2>1. /\ bucket' = [tokens |-> Capacity, last |-> now] /\ sent' = 0 /\ born' = now /\ now' = now
    BY <1>3 DEF Restart
  <2>2. sent' * Cost = 0 /\ RefillRate * (bucket'.last - born') = 0
    BY <2>1 DEF BudgetInv
  <2> QED
    BY <2>1, <2>2 DEF BudgetInv
<1>4. CASE Tick
  BY <1>4 DEF Tick, BudgetInv
<1>5. CASE UNCHANGED <<now, born, sent, bucket>>
  BY <1>5 DEF BudgetInv
<1>6. ASSUME NEW q \in Query,
             \/ \E p \in Product, narrow, refused \in BOOLEAN : Ask(q, p, narrow, refused)
             \/ Lookup(q) \/ Link(q) \/ Store(q) \/ Fill(q) \/ Requery(q) \/ CallRaises(q)
      PROVE  UNCHANGED <<now, born, sent, bucket>>
  BY <1>6 DEF Ask, Lookup, Link, Store, Fill, Requery, CallRaises
<1>7. CASE (\E s \in Search : SearchMiss(s) \/ \E n \in 0..Len(Pages) : SearchFill(s, n))
           \/ Retention \/ UNCHANGED vars
  <2>1. UNCHANGED <<now, born, sent, bucket>>
    BY <1>7 DEF SearchMiss, SearchFill, Retention, vars
  <2> QED
    BY <1>5, <2>1
<1> QED
  BY <1>1, <1>2, <1>3, <1>4, <1>5, <1>6, <1>7 DEF Next

\* The client never outruns its budget, for any capacity, rate and cost and any
\* number of handlers.
THEOREM BudgetTheorem == Spec => []GovernedBudget
<1>1. Init => BudgetInv
  <2> SUFFICES ASSUME Init PROVE BudgetInv
    OBVIOUS
  <2>1. sent * Cost = 0 /\ RefillRate * (bucket.last - born) = 0
    BY CirclAssumption DEF Init
  <2> QED
    BY <2>1, CirclAssumption DEF Init, BudgetInv
<1>2. BudgetInv /\ [Next]_vars => BudgetInv'
  BY BudgetStep
<1>3. BudgetInv => GovernedBudget
  <2> SUFFICES ASSUME BudgetInv PROVE GovernedBudget
    OBVIOUS
  <2>1. sent * Cost \in Int /\ RefillRate * (now - born) \in Int
        /\ Refill(bucket).tokens \in Int
    BY CirclAssumption, RefillBound DEF BudgetInv
  <2> QED
    BY <2>1, RefillBound, CirclAssumption DEF GovernedBudget
<1> QED
  BY <1>1, <1>2, <1>3, PTL DEF Spec

-----------------------------------------------------------------------------
\* A handler that has stored CVEs and has not met the retention.
Stored(h) == h.step \in {"fill", "requery"} /\ h.page # 0 /\ ~h.purged

\* Where page is a page, or a count the engine has compared with 0.
Counting == {"lookup", "fetch", "requery"}

\* Such a handler's product has a finding.
StoredInv ==
    /\ cves \subseteq Cve /\ findings \subseteq Product \X Cve
    /\ cache # NoEntry => cache.ids \subseteq Id
    /\ query \in [Query -> Handler]
    /\ \A q \in Query :
        Stored(query[q]) => \E c \in Cve : <<query[q].product, c>> \in findings
    /\ \A q \in Query : query[q].step \in Counting => query[q].page # 0

\* The handlers that are not idle.
Busy == [step : {"lookup", "link", "fetch", "store", "fill", "requery"}, product : Product,
         narrow : BOOLEAN, purged : BOOLEAN, ids : SUBSET Id, page : Nat]

LEMMA BusyHandler ==
    ASSUME StoredInv, NEW q \in Query, query[q].step # "idle"
    PROVE  query[q] \in Busy
  BY DEF StoredInv, Handler, Busy, Idle

\* One handler moves on and no finding is lost.
LEMMA HandlerMoves ==
    ASSUME StoredInv, NEW q \in Query, NEW h \in Handler,
           query' = [query EXCEPT ![q] = h],
           findings \subseteq findings', findings' \subseteq Product \X Cve,
           cves' \subseteq Cve, cache' # NoEntry => cache'.ids \subseteq Id,
           Stored(h) => \E c \in Cve : <<h.product, c>> \in findings',
           h.step \in Counting => h.page # 0
    PROVE  StoredInv'
<1>1. query' \in [Query -> Handler]
  BY DEF StoredInv
<1>2. \A r \in Query : query'[r] = IF r = q THEN h ELSE query[r]
  BY DEF StoredInv
<1>3. ASSUME NEW r \in Query, Stored(query'[r])
      PROVE  \E c \in Cve : <<query'[r].product, c>> \in findings'
  BY <1>2, <1>3 DEF StoredInv
<1>4. \A r \in Query : query'[r].step \in Counting => query'[r].page # 0
  BY <1>2 DEF StoredInv
<1> QED
  BY <1>1, <1>3, <1>4 DEF StoredInv

\* A handler that gives up is idle.
LEMMA GivesUp ==
    ASSUME StoredInv, NEW q \in Query, GiveUp(q),
           findings \subseteq findings', findings' \subseteq Product \X Cve,
           cves' \subseteq Cve, cache' # NoEntry => cache'.ids \subseteq Id
    PROVE  StoredInv'
  BY HandlerMoves DEF GiveUp, Handler, Stored, Idle, Counting

-----------------------------------------------------------------------------
LEMMA StoredStep ==
    ASSUME StoredInv, [Next]_vars
    PROVE  StoredInv'
<1> USE CirclAssumption
<1>0. /\ cves \subseteq Cve /\ findings \subseteq Product \X Cve
      /\ cache # NoEntry => cache.ids \subseteq Id
      /\ query \in [Query -> Handler]
  BY DEF StoredInv
<1>1. ASSUME NEW q \in Query, NEW p \in Product, NEW narrow \in BOOLEAN, NEW refused \in BOOLEAN,
             Ask(q, p, narrow, refused)
      PROVE  StoredInv'
  <2> DEFINE h == [step |-> "lookup", product |-> p, narrow |-> narrow, purged |-> FALSE,
                   ids |-> {}, page |-> 1]
  <2>1. h \in Handler /\ ~Stored(h) /\ h.page # 0
    BY DEF Handler, Stored
  <2>2. UNCHANGED <<cache, cves, findings>>
    BY <1>1 DEF Ask
  <2>3. CASE UNCHANGED query
    BY <2>2, <2>3 DEF StoredInv
  <2>4. CASE query' = [query EXCEPT ![q] = h]
    <3> HIDE DEF h
    <3> QED
      BY <1>0, <2>1, <2>2, <2>4, HandlerMoves
  <2> QED
    BY <1>1, <2>3, <2>4 DEF Ask
<1>2. ASSUME NEW q \in Query, Lookup(q) PROVE StoredInv'
  <2>1. query[q] \in Busy
    BY <1>2, BusyHandler DEF Lookup
  <2>2. UNCHANGED <<cache, cves, findings>>
    BY <1>2 DEF Lookup
  <2>3. CASE query' = [query EXCEPT ![q].step = "fetch"]
    <3> DEFINE h == [query[q] EXCEPT !.step = "fetch"]
    <3>1. h \in Handler /\ h.step = "fetch" /\ h.page # 0
      BY <1>2, <2>1 DEF Handler, Busy, Lookup, StoredInv, Counting
    <3>2. query' = [query EXCEPT ![q] = h]
      BY <1>0, <2>3
    <3> HIDE DEF h
    <3> QED
      BY <1>0, <2>2, <3>1, <3>2, HandlerMoves DEF Stored
  <2>4. CASE cache # NoEntry /\ query' = [query EXCEPT ![q].step = "link", ![q].ids = cache.ids]
    <3> DEFINE h == [query[q] EXCEPT !.step = "link", !.ids = cache.ids]
    <3>1. h \in Handler /\ h.step = "link"
      BY <1>0, <2>1, <2>4 DEF Handler, Busy
    <3>2. query' = [query EXCEPT ![q] = h]
      BY <1>0, <2>4
    <3> HIDE DEF h
    <3> QED
      BY <1>0, <2>2, <3>1, <3>2, HandlerMoves DEF Stored, Counting
  <2>5. CASE GiveUp(q)
    BY <1>0, <2>2, <2>5, GivesUp
  <2> QED
    BY <1>2, <2>3, <2>4, <2>5 DEF Lookup
<1>3. ASSUME NEW q \in Query, Link(q) PROVE StoredInv'
  <2>1. query[q] \in Busy
    BY <1>3, BusyHandler DEF Link
  <2>2. findings \subseteq findings' /\ findings' \subseteq Product \X Cve
    BY <1>0, <1>3, <2>1 DEF Link, Busy
  <2>3. UNCHANGED <<cache, cves>> /\ GiveUp(q)
    BY <1>3 DEF Link
  <2> QED
    BY <1>0, <2>2, <2>3, GivesUp
<1>4. ASSUME NEW q \in Query, NEW outcome \in {"page", "stop", "error"}, Fetch(q, outcome)
      PROVE  StoredInv'
  <2> DEFINE ids == IF outcome = "page" /\ query[q].page <= Len(Pages)
                    THEN query[q].ids \cup Pages[query[q].page] ELSE query[q].ids
             next == [query[q] EXCEPT !.ids = ids, !.page = query[q].page + 1]
             stores == [query[q] EXCEPT !.ids = ids, !.step = "store"]
  <2>1. query[q] \in Busy /\ query[q].step = "fetch"
    BY <1>4, BusyHandler DEF Fetch
  <2>2. UNCHANGED <<cache, cves, findings>>
    BY <1>4 DEF Fetch
  <2>3. ids \subseteq Id
    <3>1. query[q].ids \subseteq Id /\ query[q].page \in Nat
      BY <2>1 DEF Busy
    <3>2. CASE ~(query[q].page <= Len(Pages)) \/ outcome # "page"
      BY <3>1, <3>2
    <3>0. query[q].page # 0
      BY <2>1 DEF StoredInv, Counting
    <3>3. CASE query[q].page \in 1..Len(Pages)
      <4>1. Pages[query[q].page] \subseteq Id
        BY <3>3
      <4> QED
        BY <3>1, <4>1
    <3> QED
      BY <3>0, <3>1, <3>2, <3>3
  <2>4. CASE query' = [query EXCEPT ![q] = next]
    <3> HIDE DEF ids
    <3>0. query[q].page + 1 \in Nat /\ query[q].page + 1 # 0
      BY <2>1 DEF Busy
    <3>1. next \in Busy /\ next.step = "fetch" /\ next.page = query[q].page + 1
      BY <2>1, <2>3, <3>0 DEF Busy
    <3>2. next \in Handler
      BY <3>1 DEF Handler, Busy
    <3> HIDE DEF next
    <3> QED
      BY <1>0, <2>2, <2>4, <3>0, <3>1, <3>2, HandlerMoves DEF Stored
  <2>5. CASE query' = [query EXCEPT ![q] = stores]
    <3>1. stores \in Handler /\ stores.step = "store"
      BY <2>1, <2>3 DEF Handler, Busy
    <3> HIDE DEF stores
    <3> QED
      BY <1>0, <2>2, <2>5, <3>1, HandlerMoves DEF Stored, Counting
  <2>6. CASE GiveUp(q)
    BY <1>0, <2>2, <2>6, GivesUp
  <2> QED
    BY <1>0, <1>4, <2>4, <2>5, <2>6 DEF Fetch
<1>5. ASSUME NEW q \in Query, Store(q) PROVE StoredInv'
  <2> DEFINE new == query[q].ids \cap Cve
             h == [query[q] EXCEPT !.step = "fill", !.page = Cardinality(new)]
  <2>1. query[q] \in Busy
    BY <1>5, BusyHandler DEF Store
  <2>2. IsFiniteSet(new) /\ Cardinality(new) \in Nat /\ (Cardinality(new) = 0 <=> new = {})
    BY FS_Subset, FS_CardinalityType, FS_EmptySet
  <2>3. /\ findings' = findings \cup ({query[q].product} \X new) /\ cves' = cves \cup new
        /\ cache' = cache
    BY <1>5 DEF Store
  <2>4. query' = [query EXCEPT ![q] = h]
    BY <1>0, <1>5 DEF Store
  <2>5. h \in Handler /\ h.step = "fill" /\ h.page = Cardinality(new) /\ h.product = query[q].product
    BY <2>1, <2>2 DEF Handler, Busy
  <2>6. query[q].product \in Product /\ new \subseteq Cve
    BY <2>1 DEF Busy
  <2> HIDE DEF h, new
  <2>7. findings \subseteq findings' /\ findings' \subseteq Product \X Cve /\ cves' \subseteq Cve
    BY <1>0, <2>3, <2>6
  <2>8. Stored(h) => \E c \in Cve : <<h.product, c>> \in findings'
    BY <2>2, <2>3, <2>5, <2>6 DEF Stored
  <2> QED
    BY <1>0, <2>3, <2>4, <2>5, <2>7, <2>8, HandlerMoves DEF Counting
<1>6. ASSUME NEW q \in Query, Fill(q) PROVE StoredInv'
  <2> DEFINE h == [query[q] EXCEPT !.step = "requery"]
  <2>1. query[q] \in Busy /\ query[q].step = "fill"
    BY <1>6, BusyHandler DEF Fill
  <2>2. cache'.ids \subseteq Id /\ UNCHANGED <<cves, findings>>
    BY <1>6, <2>1 DEF Fill, Entry, Busy
  <2>3. CASE GiveUp(q)
    BY <1>0, <2>2, <2>3, GivesUp
  <2>4. CASE query[q].page # 0 /\ query' = [query EXCEPT ![q].step = "requery"]
    <3>1. query' = [query EXCEPT ![q] = h]
      BY <1>0, <2>4
    <3>2. /\ h \in Handler /\ h.page # 0 /\ h.product = query[q].product
          /\ Stored(h) => Stored(query[q])
      BY <2>1, <2>4 DEF Handler, Busy, Stored
    <3>3. Stored(h) => \E c \in Cve : <<h.product, c>> \in findings'
      BY <2>2, <3>2 DEF StoredInv
    <3> HIDE DEF h
    <3> QED
      BY <1>0, <2>2, <3>1, <3>2, <3>3, HandlerMoves
  <2> QED
    BY <1>6, <2>3, <2>4 DEF Fill
<1>7. ASSUME NEW q \in Query, Requery(q) PROVE StoredInv'
  BY <1>0, <1>7, HandlerMoves DEF Requery, Handler, Stored, Idle, Counting
<1>8. ASSUME NEW q \in Query, CallRaises(q) PROVE StoredInv'
  BY <1>0, <1>8, GivesUp DEF CallRaises
<1>9. CASE Retention
  <2>1. /\ cves' \subseteq cves /\ findings' \subseteq findings /\ cache' = cache
        /\ query' = [q \in Query |-> IF query[q] = Idle THEN Idle
                                     ELSE [query[q] EXCEPT !.purged = TRUE]]
    BY <1>9 DEF Retention
  <2>2. ASSUME NEW q \in Query
        PROVE  /\ query'[q] \in Handler /\ ~Stored(query'[q])
               /\ query'[q].step \in Counting => query'[q].page # 0
    <3>1. CASE query[q] = Idle
      BY <2>1, <3>1 DEF Handler, Stored, Idle, Counting
    <3>2. CASE query[q] # Idle
      <4>1. query[q] \in Busy
        BY <1>0, <3>2 DEF Handler, Busy
      <4>2. query'[q] = [query[q] EXCEPT !.purged = TRUE]
        BY <2>1, <3>2
      <4> QED
        BY <4>1, <4>2 DEF Handler, Stored, Busy, StoredInv
    <3> QED
      BY <3>1, <3>2
  <2>3. query' \in [Query -> Handler]
    BY <2>1, <2>2
  <2> QED
    BY <1>0, <2>1, <2>2, <2>3 DEF StoredInv
<1>10. CASE Restart
  BY <1>0, <1>10 DEF Restart, StoredInv, Stored, Handler, Idle, Counting
<1>11. CASE Tick
  <2>1. UNCHANGED <<cves, findings, query>> /\ cache' \in {NoEntry, cache}
    BY <1>11 DEF Tick
  <2> QED
    BY <2>1 DEF StoredInv
<1>12. ASSUME NEW s \in Search, NEW n \in 0..Len(Pages), SearchFill(s, n) PROVE StoredInv'
  <2>1. cache'.ids = UNION {Pages[i] : i \in 1..n}
    BY <1>12 DEF SearchFill, Entry
  <2>2. \A i \in 1..n : Pages[i] \subseteq Id
    <3>1. \A i \in 1..n : i \in 1..Len(Pages)
      BY <1>12
    <3> QED
      BY <3>1
  <2>3. cache'.ids \subseteq Id
    BY <2>1, <2>2
  <2> QED
    BY <1>12, <2>3 DEF SearchFill, StoredInv
<1>13. CASE (\E s \in Search : SearchMiss(s)) \/ (\E q \in Query : Wait(q)) \/ UNCHANGED vars
  <2>1. UNCHANGED <<cache, cves, findings, query>>
    BY <1>13 DEF SearchMiss, Wait, vars
  <2> QED
    BY <2>1 DEF StoredInv
<1> QED
  BY <1>1, <1>2, <1>3, <1>4, <1>5, <1>6, <1>7, <1>8, <1>9, <1>10, <1>11, <1>12, <1>13 DEF Next

\* What the second query returns.
LEMMA AnswerStep ==
    ASSUME StoredInv, CirclAnswerHasFindings, [Next]_vars
    PROVE  CirclAnswerHasFindings'
<1>1. ASSUME NEW q \in Query, Requery(q) PROVE CirclAnswerHasFindings'
  <2> SUFFICES ASSUME ~query[q].narrow, ~query[q].purged
               PROVE  query_findings(query[q].product, query[q].narrow) > 0
    BY <1>1 DEF Requery, Result, CirclAnswerHasFindings
  <2>1. PICK c \in Cve : <<query[q].product, c>> \in findings
    BY <1>1 DEF Requery, StoredInv, Stored, Counting
  <2>2. IsFiniteSet(Linked(query[q].product)) /\ c \in Linked(query[q].product)
    BY <2>1, CirclAssumption, FS_Subset DEF Linked
  <2>3. Cardinality(Linked(query[q].product)) \in Nat
        /\ Cardinality(Linked(query[q].product)) # 0
    BY <2>2, FS_CardinalityType, FS_EmptySet
  <2> QED
    BY <2>3 DEF query_findings
<1>2. ASSUME NEW q \in Query, GiveUp(q) PROVE CirclAnswerHasFindings'
  BY <1>2 DEF GiveUp, Result, CirclAnswerHasFindings
<1>3. ASSUME NEW q \in Query, NEW p \in Product, NEW narrow \in BOOLEAN, NEW refused \in BOOLEAN,
             Ask(q, p, narrow, refused)
      PROVE  CirclAnswerHasFindings'
  BY <1>3 DEF Ask, CirclAnswerHasFindings
<1>4. CASE answer' = {}
  BY <1>4 DEF CirclAnswerHasFindings
<1>5. CASE UNCHANGED vars
  BY <1>5 DEF vars, CirclAnswerHasFindings
<1>6. ASSUME NEW q \in Query,
             \/ Lookup(q) \/ Link(q) \/ Wait(q)
             \/ \E outcome \in {"page", "stop", "error"} : Fetch(q, outcome)
             \/ Store(q) \/ Fill(q) \/ CallRaises(q)
      PROVE  answer' = {} \/ GiveUp(q)
  BY <1>6 DEF Lookup, Link, Wait, Fetch, Store, Fill, CallRaises
<1>7. CASE (\E s \in Search : SearchMiss(s) \/ \E n \in 0..Len(Pages) : SearchFill(s, n))
           \/ Retention \/ Restart \/ Tick
  <2>1. answer' = {}
    BY <1>7 DEF SearchMiss, SearchFill, Retention, Restart, Tick
  <2> QED
    BY <1>4, <2>1
<1> QED
  BY <1>1, <1>2, <1>3, <1>4, <1>5, <1>6, <1>7 DEF Next

\* A result that says it came from CIRCL shows findings, for any products,
\* pages and handlers, whatever fails on the way.
THEOREM AnswerTheorem == Spec => []CirclAnswerHasFindings
<1>1. Init => StoredInv /\ CirclAnswerHasFindings
  BY DEF Init, StoredInv, Handler, Stored, Idle, Counting, CirclAnswerHasFindings
<1>2. StoredInv /\ CirclAnswerHasFindings /\ [Next]_vars => (StoredInv /\ CirclAnswerHasFindings)'
  BY StoredStep, AnswerStep
<1> QED
  BY <1>1, <1>2, PTL DEF Spec

-----------------------------------------------------------------------------
\* The rest of the types: the clocks and the bucket's capacity, the cache entry,
\* and the foreign key of findings.
ClockOK ==
    /\ now \in 0..MaxTime /\ born \in 0..now
    /\ bucket.tokens <= Capacity

CacheOK == cache \in {NoEntry} \cup [kind : {"ids", "records"}, ids : SUBSET Id, exp : Int]

RefersToCves == findings \subseteq Product \X cves

TypeInv ==
    /\ BudgetInv /\ StoredInv
    /\ ClockOK /\ CacheOK /\ RefersToCves
    /\ search \in [Search -> BOOLEAN]

\* A refill never goes over the capacity, and a request only takes from it.
LEMMA ClockStep ==
    ASSUME TypeInv, [Next]_vars
    PROVE  ClockOK'
<1> USE CirclAssumption DEF TypeInv
<1>0. /\ now \in Nat /\ born \in Nat /\ born <= now /\ now <= MaxTime
      /\ bucket \in [tokens : Int, last : Int] /\ bucket.tokens <= Capacity
  BY DEF ClockOK, BudgetInv
<1>1. Refill(bucket) \in [tokens : Int, last : Int] /\ Refill(bucket).tokens <= Capacity
  <2>1. Refill(bucket) \in [tokens : Int, last : Int]
    BY RefillBound
  <2>2. Least(Capacity, bucket.tokens + (now - bucket.last) * RefillRate) <= Capacity
    <3>1. bucket.tokens + (now - bucket.last) * RefillRate \in Int
      BY <1>0
    <3> QED
      BY <3>1 DEF Least
  <2> QED
    BY <2>1, <2>2 DEF Refill
<1>2. ASSUME NEW q \in Query, Wait(q) PROVE ClockOK'
  BY <1>0, <1>1, <1>2 DEF Wait, ClockOK
<1>3. ASSUME NEW q \in Query, NEW outcome \in {"page", "stop", "error"}, Fetch(q, outcome)
      PROVE  ClockOK'
  <2>1. /\ bucket' = [Refill(bucket) EXCEPT !.tokens = Refill(bucket).tokens - Cost]
        /\ now' = now /\ born' = born
    BY <1>3 DEF Fetch
  <2>2. bucket'.tokens = Refill(bucket).tokens - Cost
    BY <1>1, <2>1
  <2> QED
    BY <1>0, <1>1, <2>1, <2>2 DEF ClockOK
<1>4. CASE Restart
  BY <1>0, <1>4 DEF Restart, ClockOK
<1>5. CASE Tick
  BY <1>0, <1>5 DEF Tick, ClockOK
<1>6. CASE UNCHANGED <<now, born, bucket>>
  BY <1>6 DEF ClockOK
<1> QED
  BY <1>2, <1>3, <1>4, <1>5, <1>6
  DEF Next, vars, Ask, Lookup, Link, Store, Fill, Requery, CallRaises, SearchMiss, SearchFill,
      Retention

\* Two handlers and the clock write the cache entry.
LEMMA CacheStep ==
    ASSUME TypeInv, [Next]_vars
    PROVE  CacheOK'
<1> USE CirclAssumption DEF TypeInv
<1>0. now + CacheTtl \in Int
  BY DEF BudgetInv
<1>1. ASSUME NEW q \in Query, Fill(q) PROVE CacheOK'
  <2>1. query[q].ids \in SUBSET Id
    BY <1>1, BusyHandler DEF Fill, Busy
  <2> QED
    BY <1>0, <1>1, <2>1 DEF Fill, Entry, CacheOK
<1>2. ASSUME NEW s \in Search, NEW n \in 0..Len(Pages), SearchFill(s, n) PROVE CacheOK'
  <2>1. UNION {Pages[i] : i \in 1..n} \in SUBSET Id
    <3>1. \A i \in 1..n : Pages[i] \in SUBSET Id
      BY Len(Pages) \in Nat
    <3> QED
      BY <3>1
  <2> QED
    BY <1>0, <1>2, <2>1 DEF SearchFill, Entry, CacheOK
<1>3. CASE Tick
  BY <1>3 DEF Tick, CacheOK
<1>4. CASE UNCHANGED cache
  BY <1>4 DEF CacheOK
<1> QED
  BY <1>1, <1>2, <1>3, <1>4
  DEF Next, vars, Ask, Lookup, Link, Wait, Fetch, Store, Requery, CallRaises, SearchMiss,
      Retention, Restart

\* A finding is inserted with its CVE or after it, and deleted with it.
LEMMA ForeignKeyStep ==
    ASSUME TypeInv, [Next]_vars
    PROVE  RefersToCves'
<1> USE CirclAssumption DEF TypeInv
<1>1. ASSUME NEW q \in Query, Link(q) PROVE RefersToCves'
  <2>1. query[q].product \in Product
    BY <1>1, BusyHandler DEF Link, Busy
  <2> QED
    BY <1>1, <2>1 DEF Link, RefersToCves
<1>2. ASSUME NEW q \in Query, Store(q) PROVE RefersToCves'
  <2>1. query[q].product \in Product
    BY <1>2, BusyHandler DEF Store, Busy
  <2> QED
    BY <1>2, <2>1 DEF Store, RefersToCves
<1>3. CASE Retention
  BY <1>3 DEF Retention, RefersToCves
<1>4. CASE UNCHANGED <<cves, findings>>
  BY <1>4 DEF RefersToCves
<1> QED
  BY <1>1, <1>2, <1>3, <1>4
  DEF Next, vars, Ask, Lookup, Wait, Fetch, Fill, Requery, CallRaises, SearchMiss, SearchFill,
      Restart, Tick

\* Every variable keeps its type: the bucket never holds more than its capacity,
\* and every finding refers to a CVE that is in the table, also while the
\* retention deletes CVEs under the handlers.
THEOREM TypeCorrect == Spec => []TypeOK
<1>1. Init => TypeInv
  <2> SUFFICES ASSUME Init PROVE TypeInv
    OBVIOUS
  <2>1. sent * Cost = 0 /\ RefillRate * (bucket.last - born) = 0
    BY CirclAssumption DEF Init
  <2>2. BudgetInv
    BY <2>1, CirclAssumption DEF Init, BudgetInv
  <2>3. StoredInv
    BY DEF Init, StoredInv, Handler, Stored, Idle, Counting
  <2> QED
    BY <2>2, <2>3, CirclAssumption DEF Init, TypeInv, ClockOK, CacheOK, RefersToCves
<1>2. TypeInv /\ [Next]_vars => TypeInv'
  <2> SUFFICES ASSUME TypeInv, [Next]_vars PROVE TypeInv'
    OBVIOUS
  <2>1. BudgetInv' /\ StoredInv'
    BY BudgetStep, StoredStep DEF TypeInv
  <2>2. ClockOK' /\ CacheOK' /\ RefersToCves'
    BY ClockStep, CacheStep, ForeignKeyStep
  <2>3. search' \in [Search -> BOOLEAN]
    BY DEF TypeInv, Next, vars, Ask, Lookup, Link, Wait, Fetch, Store, Fill, Requery, CallRaises,
           SearchMiss, SearchFill, Retention, Restart, Tick
  <2> QED
    BY <2>1, <2>2, <2>3 DEF TypeInv
<1>3. TypeInv => TypeOK
  BY CirclAssumption DEF TypeInv, TypeOK, BudgetInv, StoredInv, ClockOK, CacheOK, RefersToCves
<1> QED
  BY <1>1, <1>2, <1>3, PTL DEF Spec
=============================================================================

----------------------------- MODULE SerialSync -----------------------------
(***************************************************************************)
(* What the sync queue promises for each product, whatever happens to the  *)
(* job rows: at most one replica at a time is inside a sync of it, and     *)
(* sync_status goes 'syncing' and then 'synced' by that replica's hand.    *)
(***************************************************************************)
CONSTANTS Product, Worker

VARIABLES
    syncer,     \* per product: the replicas inside sync_product
    status      \* per product: products.sync_status, "absent" without a row

vars == <<syncer, status>>

Init ==
    /\ syncer = [p \in Product |-> {}]
    /\ status = [p \in Product |-> "absent"]

Create(p) ==
    /\ status[p] = "absent"
    /\ status' = [status EXCEPT ![p] = "pending"]
    /\ UNCHANGED syncer

\* A replica enters a sync of a product nobody is syncing, and only one.
Start(p, w) ==
    /\ status[p] # "absent"
    /\ syncer[p] = {}
    /\ \A q \in Product : w \notin syncer[q]
    /\ syncer' = [syncer EXCEPT ![p] = {w}]
    /\ UNCHANGED status

Mark(p, w) ==
    /\ syncer[p] = {w}
    /\ status' = [status EXCEPT ![p] = "syncing"]
    /\ UNCHANGED syncer

Publish(p, w) ==
    /\ syncer[p] = {w}
    /\ status[p] = "syncing"
    /\ status' = [status EXCEPT ![p] = "synced"]
    /\ UNCHANGED syncer

\* The sync is over, or the replica gave up or vanished.
Leave(p, w) ==
    /\ syncer[p] = {w}
    /\ syncer' = [syncer EXCEPT ![p] = {}]
    /\ UNCHANGED status

Next ==
    \E p \in Product :
        \/ Create(p)
        \/ \E w \in Worker : Start(p, w) \/ Mark(p, w) \/ Publish(p, w) \/ Leave(p, w)

Spec == Init /\ [][Next]_vars
=============================================================================

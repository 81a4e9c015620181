-------------------------- MODULE BoundedDelivery --------------------------
(***************************************************************************)
(* What the delivery queue promises of each delivery, whatever its workers *)
(* and locks do: requests are sent against attempts granted beforehand, at *)
(* most Max of them, none is granted once the delivery is settled, and it  *)
(* is settled as delivered by a worker that heard the receiver accept it.  *)
(***************************************************************************)
EXTENDS Integers

CONSTANTS Delivery, Worker, Max

VARIABLES
    fate,       \* per delivery: "absent", "queued", "delivered" or "dropped"
    granted,    \* per delivery: attempts granted, all of them once dropped
    sending,    \* per delivery: the workers that may still send a request
    sent,       \* per delivery: requests that went out
    heard       \* per delivery: the workers that know of its acceptance

vars == <<fate, granted, sending, sent, heard>>

Init ==
    /\ fate = [d \in Delivery |-> "absent"]
    /\ granted = [d \in Delivery |-> 0]
    /\ sending = [d \in Delivery |-> {}]
    /\ sent = [d \in Delivery |-> 0]
    /\ heard = [d \in Delivery |-> {}]

Enqueue(d) ==
    /\ fate[d] = "absent"
    /\ fate' = [fate EXCEPT ![d] = "queued"]
    /\ UNCHANGED <<granted, sending, sent, heard>>

\* A worker that holds nothing is granted an attempt.
Grant(d, w) ==
    /\ fate[d] = "queued" /\ granted[d] < Max
    /\ \A e \in Delivery : w \notin sending[e] \cup heard[e]
    /\ granted' = [granted EXCEPT ![d] = granted[d] + 1]
    /\ sending' = [sending EXCEPT ![d] = sending[d] \cup {w}]
    /\ UNCHANGED <<fate, sent, heard>>

\* An attempt granted is used once, or not at all.
Spend(d, w) ==
    /\ w \in sending[d]
    /\ sending' = [sending EXCEPT ![d] = sending[d] \ {w}]
    /\ sent' \in {sent, [sent EXCEPT ![d] = sent[d] + 1]}
    /\ UNCHANGED <<fate, granted, heard>>

Hear(d, w) ==
    /\ sent[d] > 0
    /\ heard' = [heard EXCEPT ![d] = heard[d] \cup {w}]
    /\ UNCHANGED <<fate, granted, sending, sent>>

\* What was heard is recorded, or it is lost with the worker.
Record(d, w) ==
    /\ w \in heard[d]
    /\ heard' = [heard EXCEPT ![d] = heard[d] \ {w}]
    /\ \/ fate[d] \in {"queued", "delivered"} /\ fate' = [fate EXCEPT ![d] = "delivered"]
       \/ UNCHANGED fate
    /\ UNCHANGED <<granted, sending, sent>>

\* Deliveries are dropped, with what they had left.
Drop(dropped) ==
    /\ fate' = [d \in Delivery |-> IF d \in dropped THEN "dropped" ELSE fate[d]]
    /\ granted' = [d \in Delivery |-> IF d \in dropped THEN Max ELSE granted[d]]
    /\ UNCHANGED <<sending, sent, heard>>

Next ==
    \/ \E d \in Delivery :
          \/ Enqueue(d)
          \/ \E w \in Worker : Grant(d, w) \/ Spend(d, w) \/ Hear(d, w) \/ Record(d, w)
    \/ \E dropped \in SUBSET Delivery : Drop(dropped)

Spec == Init /\ [][Next]_vars
=============================================================================

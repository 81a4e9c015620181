--------------------------- MODULE CircuitBreaker ---------------------------
(***************************************************************************)
(* app/ingestion/circuit_breaker.py: one breaker, shared by the coroutines *)
(* of a process that call one provider.  The asyncio lock makes each of    *)
(* the three critical sections of call atomic; the provider's coroutine    *)
(* runs between them without the lock.                                     *)
(*                                                                         *)
(* Most callers enter call directly.  query_engine (CIRCL),                *)
(* run_smart_delta (VulnCheck), the intel router and vulnx_enricher look   *)
(* at the breaker's state first and turn away when it is OPEN; the first   *)
(* two breakers have no other caller.                                      *)
(***************************************************************************)
EXTENDS Integers

CONSTANTS
    Caller,     \* coroutines
    Guarded,    \* the ones that look at the state before they call
    Threshold,  \* failure_threshold
    Recovery    \* recovery_timeout

ASSUME BreakerAssumption ==
    /\ Guarded \subseteq Caller
    /\ Threshold \in Nat \ {0}
    /\ Recovery \in Nat \ {0}

VARIABLES
    state,      \* _state
    failures,   \* _failures, not counted beyond the threshold
    wait,       \* how far away _open_until is
    caller,     \* per coroutine: where it is
    provider    \* whether the provider answers

vars == <<state, failures, wait, caller, provider>>

-----------------------------------------------------------------------------
TypeOK ==
    /\ state \in {"closed", "open", "half_open"}
    /\ failures \in 0..Threshold
    /\ wait \in 0..Recovery
    /\ caller \in [Caller -> {"idle", "looked", "calling", "probing"}]
    /\ provider \in {"up", "down"}

Init ==
    /\ state = "closed" /\ failures = 0 /\ wait = 0
    /\ caller = [c \in Caller |-> "idle"]
    /\ provider = "up"

\* The state test of a guarded caller; awaits separate it from the call.
Look(c) ==
    /\ c \in Guarded /\ caller[c] = "idle"
    /\ state # "open"
    /\ caller' = [caller EXCEPT ![c] = "looked"]
    /\ UNCHANGED <<state, failures, wait, provider>>

\* query_engine returns without a call when the product has no CPE.
TurnAway(c) ==
    /\ c \in Guarded /\ caller[c] = "looked"
    /\ caller' = [caller EXCEPT ![c] = "idle"]
    /\ UNCHANGED <<state, failures, wait, provider>>

Ready(c) == caller[c] = IF c \in Guarded THEN "looked" ELSE "idle"

\* The first section of call.  A call admitted after the breaker tripped is
\* remembered as a probe.
Reject(c) ==
    /\ Ready(c) /\ state = "open" /\ wait > 0
    /\ caller' = [caller EXCEPT ![c] = "idle"]
    /\ UNCHANGED <<state, failures, wait, provider>>

Admit(c) ==
    /\ Ready(c) /\ ~(state = "open" /\ wait > 0)
    /\ state' = IF state = "open" THEN "half_open" ELSE state
    /\ caller' = [caller EXCEPT ![c] = IF state = "closed" THEN "calling" ELSE "probing"]
    /\ UNCHANGED <<failures, wait, provider>>

InCall(c) == caller[c] \in {"calling", "probing"}

\* Mutant: a success closes the breaker whatever its state.
OnSuccessAlways ==
    /\ failures' = 0
    /\ state' = "closed"

\* Mutant: a success in HALF_OPEN does not close the breaker.
OnSuccessInClosed ==
    \/ state = "closed" /\ failures' = 0 /\ UNCHANGED state
    \/ state # "closed" /\ UNCHANGED <<failures, state>>

OnSuccess ==
    \/ state \in {"half_open", "closed"} /\ failures' = 0 /\ state' = "closed"
    \/ state = "open" /\ UNCHANGED <<failures, state>>

Succeed(c) ==
    /\ InCall(c) /\ provider = "up"
    /\ OnSuccess
    /\ caller' = [caller EXCEPT ![c] = "idle"]
    /\ UNCHANGED <<wait, provider>>

Count == IF failures < Threshold THEN failures + 1 ELSE Threshold

OnFailure ==
    /\ failures' = Count
    /\ IF failures' >= Threshold
       THEN state' = "open" /\ wait' = Recovery
       ELSE UNCHANGED <<state, wait>>

Fail(c) ==
    /\ InCall(c) /\ provider = "down"
    /\ OnFailure
    /\ caller' = [caller EXCEPT ![c] = "idle"]
    /\ UNCHANGED provider

\* The provider goes down and comes back at any time, so a call that began
\* under one condition may end under the other.
Provider ==
    /\ provider' \in {"up", "down"} \ {provider}
    /\ UNCHANGED <<state, failures, wait, caller>>

Tick ==
    /\ wait > 0
    /\ wait' = wait - 1
    /\ UNCHANGED <<state, failures, caller, provider>>

Step(c) ==
    \/ Look(c) \/ TurnAway(c) \/ Reject(c) \/ Admit(c) \/ Succeed(c) \/ Fail(c)

Next == Provider \/ Tick \/ \E c \in Caller : Step(c)

Spec == Init /\ [][Next]_vars

\* Clocks run, the callers' jobs and requests keep coming, and every call of
\* the provider ends (its client has timeouts).
FairSpec == Spec /\ WF_vars(Tick) /\ \A c \in Caller : WF_vars(Step(c))

-----------------------------------------------------------------------------
\* The breaker is closed exactly while fewer than failure_threshold failures
\* stand against the provider, however the answers of overlapping calls and
\* probes interleave.
ClosedBelowThreshold == state = "closed" <=> failures < Threshold

\* An open breaker is left through a probe after recovery_timeout, never by
\* the late success of a call admitted before it tripped.
OpenLastsRecovery ==
    [][state = "open" /\ state' # "open" => wait = 0 /\ state' = "half_open"]_vars

\* When the provider is back for good the breaker closes and stays closed.
\* "The breaker reopens itself on the next probe call after recovery_timeout."
BreakerRecovers == <>[](provider = "up") => <>[](state = "closed")
=============================================================================

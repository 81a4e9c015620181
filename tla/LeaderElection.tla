--------------------------- MODULE LeaderElection ---------------------------
(***************************************************************************)
(* app/core/leader.py: replicas compete for the Redis key scheduler:leader *)
(* with SET NX EX, the winner extends it every ten seconds, and cron jobs  *)
(* start only on a replica whose is_leader flag is set.                    *)
(*                                                                         *)
(* A node is one process: _node_id is fresh in every process, so a restart *)
(* is another node.  A command runs at Redis in one step and its answer    *)
(* reaches the awaiting coroutine in a later one; the client sets no       *)
(* timeout, so any time may pass in between.  One unit of time is one      *)
(* _REFRESH_INTERVAL_SECONDS.                                              *)
(***************************************************************************)
EXTENDS Integers

CONSTANTS
    Node,       \* processes
    Nobody,     \* owner of a key that does not exist
    Ttl,        \* _TTL_SECONDS
    MaxCuts     \* bound: how often a node loses its connection to Redis

ASSUME LeaderAssumption ==
    /\ Nobody \notin Node
    /\ Ttl \in Nat \ {0}
    /\ MaxCuts \in Nat

VARIABLES
    key,        \* the Redis key: its value and the time it still lives
    life,       \* per node: where main.lifespan is
    leader,     \* per node: _is_leader
    call,       \* per node: the command it awaits and the answer to come
    sleep,      \* per node: time left in the refresh loop's sleep
    lease,      \* per node: what is left of the Ttl it was last granted
    job,        \* the nodes in which a cron job is running
    cut,        \* the nodes that cannot reach Redis
    cuts        \* how many cuts there were

electorVars == <<key, life, leader, call, sleep, lease, job, cut, cuts>>

-----------------------------------------------------------------------------
Life == {"new", "starting", "up", "stopping", "gone"}
Command == {"acquire", "refresh", "release"}
Answer == {"yes", "no", "error"}
NoCall == [cmd |-> "none", answer |-> "no"]
NoKey == [owner |-> Nobody, ttl |-> 0]

ElectorTypeOK ==
    /\ key \in [owner : Node \cup {Nobody}, ttl : 0..Ttl]
    /\ key.owner = Nobody <=> key.ttl = 0
    /\ life \in [Node -> Life]
    /\ leader \in [Node -> BOOLEAN]
    /\ call \in [Node -> {NoCall} \cup [cmd : Command, answer : Answer]]
    /\ sleep \in [Node -> 0..1]
    /\ lease \in [Node -> 0..Ttl]
    /\ job \subseteq Node
    /\ cut \subseteq Node
    /\ cuts \in 0..MaxCuts

ElectorInit ==
    /\ key = NoKey
    /\ life = [n \in Node |-> "new"]
    /\ leader = [n \in Node |-> FALSE]
    /\ call = [n \in Node |-> NoCall]
    /\ sleep = [n \in Node |-> 0]
    /\ lease = [n \in Node |-> 0]
    /\ job = {}
    /\ cut = {}
    /\ cuts = 0

-----------------------------------------------------------------------------
\* The commands, at Redis.

Await(n, cmd, answer) == call' = [call EXCEPT ![n] = [cmd |-> cmd, answer |-> answer]]

Refuse(n, cmd) == Await(n, cmd, "no") /\ UNCHANGED <<key, lease>>

Grant(n, cmd) ==
    /\ key' = [owner |-> n, ttl |-> Ttl]
    /\ lease' = [lease EXCEPT ![n] = Ttl]
    /\ Await(n, cmd, "yes")

\* Mutant: SET EX without NX.
SetOverwrites(n) == Grant(n, "acquire")

\* SET key n NX EX ttl.
SetNx(n) ==
    \/ key.owner = Nobody /\ Grant(n, "acquire")
    \/ key.owner # Nobody /\ Refuse(n, "acquire")

\* The Lua script of refresh: EXPIRE, but only a key whose value is n.
Extend(n) ==
    \/ key.owner = n /\ Grant(n, "refresh")
    \/ key.owner # n /\ Refuse(n, "refresh")

Drop(n) ==
    /\ key' = NoKey
    /\ lease' = [lease EXCEPT ![n] = 0]
    /\ Await(n, "release", "yes")

\* Mutant: a plain DEL in release.
DeleteAny(n) == Drop(n)

\* The Lua script of release: DEL, but only a key whose value is n.
Delete(n) ==
    \/ key.owner = n /\ Drop(n)
    \/ key.owner # n /\ Refuse(n, "release")

\* A command of a node without a connection raises.
Send(n, cmd) ==
    \/ /\ n \in cut
       /\ Await(n, cmd, "error")
       /\ UNCHANGED <<key, lease>>
    \/ /\ n \notin cut
       /\ \/ cmd = "acquire" /\ SetNx(n)
          \/ cmd = "refresh" /\ Extend(n)
          \/ cmd = "release" /\ Delete(n)

-----------------------------------------------------------------------------
\* The process.

\* lifespan: acquire once.
Launch(n) ==
    /\ life[n] = "new"
    /\ life' = [life EXCEPT ![n] = "starting"]
    /\ Send(n, "acquire")
    /\ UNCHANGED <<leader, sleep, job, cut, cuts>>

\* Mutant: a node that is not the leader does not try again.
WakeNeverRetries(n) ==
    /\ life[n] = "up" /\ call[n] = NoCall /\ sleep[n] = 0
    /\ leader[n]
    /\ Send(n, "refresh")
    /\ UNCHANGED <<life, leader, sleep, job, cut, cuts>>

\* The loop's sleep is over: refresh.
Wake(n) ==
    /\ life[n] = "up" /\ call[n] = NoCall /\ sleep[n] = 0
    /\ Send(n, IF leader[n] THEN "refresh" ELSE "acquire")
    /\ UNCHANGED <<life, leader, sleep, job, cut, cuts>>

\* Mutant: refresh that ignores the script's answer.
BeliefKept(n) == leader[n] \/ call[n].answer = "yes"

\* _is_leader when the command has returned.  acquire: whether the SET was
\* done.  refresh: lost when the script says 0, kept when the call raises.
Belief(n) ==
    \/ call[n].cmd = "acquire" /\ call[n].answer = "yes"
    \/ call[n].cmd = "refresh" /\ leader[n] /\ call[n].answer # "no"

\* The answer, or the exception, reaches acquire or refresh; the refresh loop
\* goes to sleep.  At startup the scheduler and the loop are now started.
Return(n) ==
    /\ life[n] \in {"starting", "up"} /\ call[n] # NoCall
    /\ life' = [life EXCEPT ![n] = "up"]
    /\ leader' = [leader EXCEPT ![n] = Belief(n)]
    /\ call' = [call EXCEPT ![n] = NoCall]
    /\ sleep' = [sleep EXCEPT ![n] = 1]
    /\ UNCHANGED <<key, lease, job, cut, cuts>>

\* _leader_only: the flag is tested once, before the job's coroutine runs.
CronTick(n) ==
    /\ life[n] = "up" /\ n \notin job
    /\ leader[n]
    /\ job' = job \cup {n}
    /\ UNCHANGED <<key, life, leader, call, sleep, lease, cut, cuts>>

CronDone(n) ==
    /\ n \in job
    /\ job' = job \ {n}
    /\ UNCHANGED <<key, life, leader, call, sleep, lease, cut, cuts>>

\* lifespan, after the yield: the scheduler stops and its jobs are cancelled,
\* the refresh loop is cancelled with whatever it awaits, and release sends
\* its script if the flag is set.
Shutdown(n) ==
    /\ life[n] = "up"
    /\ job' = job \ {n}
    /\ \/ /\ leader[n]
          /\ life' = [life EXCEPT ![n] = "stopping"]
          /\ Send(n, "release")
       \/ /\ ~leader[n]
          /\ life' = [life EXCEPT ![n] = "gone"]
          /\ call' = [call EXCEPT ![n] = NoCall]
          /\ UNCHANGED <<key, lease>>
    /\ UNCHANGED <<leader, sleep, cut, cuts>>

\* release, once its script has returned or raised.
Released(n) ==
    /\ life[n] = "stopping"
    /\ life' = [life EXCEPT ![n] = "gone"]
    /\ leader' = [leader EXCEPT ![n] = FALSE]
    /\ call' = [call EXCEPT ![n] = NoCall]
    /\ UNCHANGED <<key, sleep, lease, job, cut, cuts>>

-----------------------------------------------------------------------------
\* The environment: crashes, lost connections, time.

Crash(n) ==
    /\ life[n] \in {"starting", "up", "stopping"}
    /\ life' = [life EXCEPT ![n] = "gone"]
    /\ leader' = [leader EXCEPT ![n] = FALSE]
    /\ call' = [call EXCEPT ![n] = NoCall]
    /\ job' = job \ {n}
    /\ UNCHANGED <<key, sleep, lease, cut, cuts>>

\* The connection breaks; the answer of a command under way is lost with it.
Cut(n) ==
    /\ cuts < MaxCuts /\ n \notin cut
    /\ cut' = cut \cup {n}
    /\ cuts' = cuts + 1
    /\ call' = [call EXCEPT ![n] = IF @ = NoCall THEN @ ELSE [@ EXCEPT !.answer = "error"]]
    /\ UNCHANGED <<key, life, leader, sleep, lease, job>>

Heal(n) ==
    /\ n \in cut
    /\ cut' = cut \ {n}
    /\ UNCHANGED <<key, life, leader, call, sleep, lease, job, cuts>>

Sooner(t) == IF t = 0 THEN 0 ELSE t - 1

\* Redis drops the key when its time is up.
ElectorTick ==
    /\ key' = IF key.ttl > 1 THEN [key EXCEPT !.ttl = @ - 1] ELSE NoKey
    /\ sleep' = [n \in Node |-> Sooner(sleep[n])]
    /\ lease' = [n \in Node |-> Sooner(lease[n])]
    /\ UNCHANGED <<life, leader, call, job, cut, cuts>>

NodeStep(n) ==
    \/ Launch(n) \/ Wake(n) \/ Return(n) \/ CronTick(n) \/ CronDone(n)
    \/ Shutdown(n) \/ Released(n) \/ Crash(n) \/ Cut(n) \/ Heal(n)

ElectorNext == ElectorTick \/ \E n \in Node : NodeStep(n)

ElectorSpec == ElectorInit /\ [][ElectorNext]_electorVars

\* Time passes; a process that is up gets to run its refresh loop, and a
\* command it sent returns or raises.
FairElectorSpec ==
    /\ ElectorSpec
    /\ WF_electorVars(ElectorTick)
    /\ \A n \in Node : WF_electorVars(Wake(n)) /\ WF_electorVars(Return(n)) /\ WF_electorVars(Released(n))

-----------------------------------------------------------------------------
\* Two leaders at once: only if one of them has gone a whole TTL without an
\* answer that extended its lock.  This is what makes "brief gaps" and "a
\* duplicate run during the overlap" the worst that can happen.
OneFreshLeader ==
    \A m, n \in Node :
        leader[m] /\ lease[m] > 0 /\ leader[n] /\ lease[n] > 0 => m = n

\* A lock that still has time to live ends in one way only, its owner's own
\* release: neither a late refresh nor a late release of an earlier leader
\* touches its successor's lock.
LockIsNotStolen ==
    [][key.ttl > 0 /\ key'.owner # key.owner =>
          \/ key.ttl = 1 /\ key' = NoKey
          \/ key' = NoKey /\ call'[key.owner].cmd = "release"]_electorVars

\* With a process that stays up and connected, there is again and again a
\* connected leader: crashes, lost answers and cancelled acquires delay the
\* election by a TTL at most, they do not block it.
LeadershipIsRegained ==
    (\E n \in Node : <>[](life[n] = "up" /\ n \notin cut)) =>
        []<>(\E m \in Node \ cut : leader[m])

\* refresh: "relinquishes leadership if the lock has been stolen".
StaleLeaderStepsDown ==
    \A n \in Node :
        leader[n] /\ key.owner # n ~> ~leader[n] \/ key.owner = n \/ n \in cut
=============================================================================

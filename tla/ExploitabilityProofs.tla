------------------------ MODULE ExploitabilityProofs ------------------------
(***************************************************************************)
(* Proofs about Exploitability, for any finite number of CVEs, any number  *)
(* of tasks, any budget, page and batch size.                              *)
(***************************************************************************)
EXTENDS Exploitability, FiniteSetTheorems, TLAPS

\* Every version still to come fits under the bound: this, and not the type,
\* is what keeps versions in their range.
EventsAreCounted ==
    \A c \in Cve :
        /\ upstream[c] + left.events <= MaxEvents
        /\ row[c].other + left.events <= MaxEvents

\* What a task holds between two of its statements is about the past of the
\* CVE it is kept for.
Sound(r, said, rows) ==
    /\ \A c \in Cve : r.got[c] <= said[c]
    /\ \A c \in DOMAIN r.plan : r.plan[c][1] <= said[c] /\ r.plan[c][2] <= rows[c].other

TasksAreSound == \A t \in Task : Sound(task[t], upstream, row)

IInv == TypeOK /\ EventsAreCounted /\ IntelIsItsOwn /\ TasksAreSound

ColumnsOK ==
    /\ upstream \in [Cve -> Version]
    /\ row \in [Cve -> [flags : Version, other : Version, age : 0..StaleDays]]

\* Versions are never taken back.
VersionsGrow ==
    \A c \in Cve : upstream[c] <= upstream'[c] /\ row[c].other <= row'[c].other

USE ExploitabilityAssumption

-----------------------------------------------------------------------------
\* The most urgent of a set are some of it.
LEMMA FirstIsPart ==
    ASSUME NEW S, NEW n
    PROVE  First(S, n) \subseteq S
BY DEF First

\* A batch can be counted.
LEMMA BatchSizeIsNat ==
    ASSUME TypeOK, NEW t \in Task
    PROVE  Batch(t) \subseteq Cve /\ Cardinality(Batch(t)) \in Nat
<1>1. task[t].todo \subseteq Cve
  BY DEF TypeOK, Held
<1>2. Batch(t) \subseteq Cve
  BY <1>1, FirstIsPart DEF Batch
<1> QED
  BY <1>2, FS_Subset, FS_CardinalityType

\* A plan is a function on some of the CVEs.
LEMMA PlanType ==
    ASSUME NEW S \in SUBSET Cve, NEW p \in [S -> Basis]
    PROVE  p \in Plan
BY DEF Plan

LEMMA PlanIsFunction ==
    ASSUME NEW p \in Plan
    PROVE  /\ DOMAIN p \subseteq Cve
           /\ \A c \in DOMAIN p : p[c] \in Basis
<1>1. PICK S \in SUBSET Cve : p \in [S -> Basis]
  BY DEF Plan
<1> QED
  BY <1>1

\* A task that holds nothing is well typed and sound.
LEMMA IdleIsHeld == Idle \in Held /\ (ColumnsOK => Sound(Idle, upstream, row))
<1>1. NoPlan \in [{} -> Basis]
  BY DEF NoPlan
<1>2. NoPlan \in Plan /\ DOMAIN NoPlan = {}
  BY <1>1, PlanType
<1>3. NoIntel \in [Cve -> Version]
  BY DEF NoIntel, Version
<1>4. Idle \in Held
  BY <1>2, <1>3 DEF Idle, Held, Place
<1>5. ColumnsOK => Sound(Idle, upstream, row)
  BY <1>2 DEF Idle, Sound, NoIntel, ColumnsOK, Version
<1> QED
  BY <1>4, <1>5

\* What is sound stays so while versions grow.
LEMMA SoundStays ==
    ASSUME ColumnsOK, ColumnsOK', VersionsGrow, NEW r \in Held, Sound(r, upstream, row)
    PROVE  Sound(r, upstream', row')
<1>1. /\ r.got \in [Cve -> Version] /\ DOMAIN r.plan \subseteq Cve
      /\ \A c \in DOMAIN r.plan : r.plan[c] \in Basis
  BY PlanIsFunction DEF Held
<1>2. ASSUME NEW c \in Cve
      PROVE  /\ upstream[c] \in Int /\ upstream'[c] \in Int
             /\ row[c].other \in Int /\ row'[c].other \in Int
             /\ upstream[c] <= upstream'[c] /\ row[c].other <= row'[c].other
  BY DEF ColumnsOK, Version, VersionsGrow
<1>3. \A c \in Cve : r.got[c] <= upstream'[c]
  BY <1>1, <1>2 DEF Sound, Version
<1>4. ASSUME NEW c \in DOMAIN r.plan
      PROVE  r.plan[c][1] <= upstream'[c] /\ r.plan[c][2] <= row'[c].other
  <2>1. r.plan[c][1] \in Int /\ r.plan[c][2] \in Int /\ c \in Cve
    BY <1>1 DEF Basis, Version
  <2>2. r.plan[c][1] <= upstream[c] /\ r.plan[c][2] <= row[c].other
    BY DEF Sound
  <2> QED
    BY <1>2, <2>1, <2>2
<1> QED
  BY <1>3, <1>4 DEF Sound

\* A step that gives one task something sound to hold, and the rows no older
\* versions, keeps the invariant if it keeps the parts that are not about tasks.
LEMMA TaskStep ==
    ASSUME IInv, NEW t \in Task, NEW r \in Held, Sound(r, upstream, row), Become(t, r),
           ColumnsOK', VersionsGrow, score' \in [Cve -> Basis],
           budget' \in 0..DailyLimit, key' \in [Cve -> BOOLEAN],
           clock' \in [ran : BOOLEAN, midnight : BOOLEAN],
           left' \in [events : 0..MaxEvents, requests : 0..MaxRequests],
           EventsAreCounted', IntelIsItsOwn'
    PROVE  IInv'
<1>1. ColumnsOK /\ task \in [Task -> Held]
  BY DEF IInv, TypeOK, ColumnsOK
<1>2. task' = [task EXCEPT ![t] = r] /\ task' \in [Task -> Held]
  BY <1>1 DEF Become
<1>3. TypeOK'
  BY <1>2 DEF TypeOK, ColumnsOK
<1>4. ASSUME NEW u \in Task PROVE Sound(task'[u], upstream', row')
  <2>1. task'[u] = IF u = t THEN r ELSE task[u]
    BY <1>1, <1>2
  <2>2. task[u] \in Held /\ Sound(task[u], upstream, row)
    BY <1>1 DEF IInv, TasksAreSound
  <2> QED
    BY <1>1, <2>1, <2>2, SoundStays
<1> QED
  BY <1>3, <1>4 DEF IInv, TasksAreSound

\* A step of a task that touches neither rows nor scores.
LEMMA QuietStep ==
    ASSUME IInv, NEW t \in Task, NEW r \in Held, Sound(r, upstream, row), Become(t, r),
           UNCHANGED <<upstream, row, score>>,
           budget' \in 0..DailyLimit, key' \in [Cve -> BOOLEAN],
           clock' \in [ran : BOOLEAN, midnight : BOOLEAN],
           left' \in [events : 0..left.events, requests : 0..left.requests]
    PROVE  IInv'
<1>1. ColumnsOK /\ ColumnsOK' /\ VersionsGrow
  BY DEF IInv, TypeOK, ColumnsOK, VersionsGrow, Version
<1>2. score' \in [Cve -> Basis]
  BY DEF IInv, TypeOK
<1>3. left' \in [events : 0..MaxEvents, requests : 0..MaxRequests]
  BY DEF IInv, TypeOK
<1>4. EventsAreCounted'
  BY <1>1 DEF IInv, TypeOK, EventsAreCounted, ColumnsOK, Version
<1>5. IntelIsItsOwn'
  BY DEF IInv, IntelIsItsOwn
<1> QED
  BY <1>1, <1>2, <1>3, <1>4, <1>5, TaskStep

\* The bounds only shrink.
LEMMA BoundsShrink ==
    ASSUME TypeOK, Event \/ Request \/ UNCHANGED left
    PROVE  left' \in [events : 0..left.events, requests : 0..left.requests]
BY DEF TypeOK, Event, Request

\* What a task holds is well typed and sound; so is what it holds with another
\* place in its path or other CVEs.
LEMMA HeldNow ==
    ASSUME IInv, NEW t \in Task
    PROVE  task[t] \in Held /\ Sound(task[t], upstream, row)
BY DEF IInv, TypeOK, TasksAreSound

LEMMA Moved ==
    ASSUME NEW r \in Held, Sound(r, upstream, row), NEW p \in Place
    PROVE  [r EXCEPT !.pc = p] \in Held /\ Sound([r EXCEPT !.pc = p], upstream, row)
<1> DEFINE new == [r EXCEPT !.pc = p]
<1>1. new \in Held /\ new.got = r.got /\ new.plan = r.plan
  BY DEF Held
<1> HIDE DEF new
<1>2. Sound(new, upstream, row)
  BY <1>1 DEF Sound
<1> QED
  BY <1>1, <1>2 DEF new

LEMMA OtherCves ==
    ASSUME NEW r \in Held, Sound(r, upstream, row),
           NEW ids \in SUBSET Cve, NEW todo \in SUBSET Cve
    PROVE  LET new == [r EXCEPT !.ids = ids, !.todo = todo] IN
           new \in Held /\ Sound(new, upstream, row)
<1> DEFINE new == [r EXCEPT !.ids = ids, !.todo = todo]
<1>1. new \in Held /\ new.got = r.got /\ new.plan = r.plan
  BY DEF Held
<1> HIDE DEF new
<1>2. Sound(new, upstream, row)
  BY <1>1 DEF Sound
<1> QED
  BY <1>1, <1>2 DEF new

LEMMA SelectStep ==
    ASSUME IInv, JobSelect
    PROVE  IInv'
<1>1. StalePage \subseteq Cve
  BY FirstIsPart DEF StalePage
<1>2. "job" \in Task
  BY DEF Task
<1>3. clock' \in [ran : BOOLEAN, midnight : BOOLEAN]
  BY DEF JobSelect, IInv, TypeOK
<1>4. budget' \in 0..DailyLimit /\ key' \in [Cve -> BOOLEAN]
  BY DEF JobSelect, IInv, TypeOK
<1>5. left' \in [events : 0..left.events, requests : 0..left.requests]
  BY BoundsShrink DEF JobSelect, IInv
<1>6. PICK r \in Held : Sound(r, upstream, row) /\ Become("job", r)
  <2>1. ColumnsOK
    BY DEF IInv, TypeOK, ColumnsOK
  <2>2. Idle \in Held /\ Sound(Idle, upstream, row)
    BY <2>1, IdleIsHeld
  <2> DEFINE new == [Idle EXCEPT !.pc = "fetch", !.ids = StalePage, !.todo = StalePage]
  <2>3. new \in Held /\ Sound(new, upstream, row)
    BY <1>1, <2>2 DEF Held, Place, Sound
  <2>4. CASE UNCHANGED task
    <3>1. Become("job", task["job"])
      BY <2>4 DEF Become, IInv, TypeOK
    <3> QED
      BY <1>2, <3>1, HeldNow
  <2>5. CASE Become("job", IF StalePage = {} THEN Idle ELSE new)
    BY <2>2, <2>3, <2>5
  <2> QED
    BY <2>4, <2>5 DEF JobSelect
<1> QED
  BY <1>2, <1>3, <1>4, <1>5, <1>6, QuietStep DEF JobSelect

\* The three kinds of request begin with a task that holds nothing.
LEMMA BeginStep ==
    ASSUME IInv, NEW t \in Task, NEW shown \in SUBSET Cve, NEW c \in Cve,
           ShowFindings(t, shown) \/ RequestIntel(t, c) \/ SyncReads(t, c)
    PROVE  IInv'
<1>1. /\ UNCHANGED <<upstream, row, score>>
      /\ budget' \in 0..DailyLimit /\ key' \in [Cve -> BOOLEAN]
      /\ clock' \in [ran : BOOLEAN, midnight : BOOLEAN]
  BY DEF ShowFindings, RequestIntel, SyncReads, IInv, TypeOK
<1>2. left' \in [events : 0..left.events, requests : 0..left.requests]
  BY BoundsShrink DEF ShowFindings, RequestIntel, SyncReads, IInv
<1>3. ColumnsOK
  BY DEF IInv, TypeOK, ColumnsOK
<1>4. Idle \in Held /\ Sound(Idle, upstream, row)
  BY <1>3, IdleIsHeld
<1>5. PICK r \in Held : Sound(r, upstream, row) /\ Become(t, r)
  <2>1. CASE ShowFindings(t, shown)
    <3> DEFINE stale == {d \in shown : StaleIn(1, d)}
               new == [Idle EXCEPT !.pc = "claim", !.todo = stale]
    <3>1. new \in Held /\ Sound(new, upstream, row)
      BY <1>4 DEF Held, Place, Sound
    <3> QED
      BY <2>1, <3>1 DEF ShowFindings
  <2>2. CASE RequestIntel(t, c)
    <3> DEFINE new == [Idle EXCEPT !.pc = "fetch", !.ids = {c}, !.todo = {c}]
    <3>1. new \in Held /\ Sound(new, upstream, row)
      BY <1>4 DEF Held, Place, Sound
    <3> QED
      BY <2>2, <3>1 DEF RequestIntel
  <2>3. CASE SyncReads(t, c)
    <3> DEFINE plan == [d \in {c} |-> <<0, row[d].other>>]
               new == [Idle EXCEPT !.pc = "recompute", !.plan = plan]
    <3>1. /\ row[c].other \in Version /\ 0 \in Version /\ upstream[c] \in Version
      BY <1>3 DEF ColumnsOK, Version
    <3>2. plan \in [{c} -> Basis]
      BY <3>1 DEF Basis
    <3>3. plan \in Plan
      BY <3>2, PlanType
    <3>4. \A d \in DOMAIN plan : plan[d][1] <= upstream[d] /\ plan[d][2] <= row[d].other
      BY <3>1 DEF Version
    <3>5. new \in Held
      BY <1>4, <3>3 DEF Held, Place
    <3>6. new.got = Idle.got /\ new.plan = plan
      BY <1>4 DEF Held
    <3>7. Sound(new, upstream, row)
      BY <1>4, <3>4, <3>6 DEF Sound
    <3> QED
      BY <2>3, <3>5, <3>7 DEF SyncReads
  <2> QED
    BY <2>1, <2>2, <2>3
<1> QED
  BY <1>1, <1>2, <1>5, QuietStep
\* Claiming the keys, one CVE after the other.
LEMMA ClaimStep ==
    ASSUME IInv, NEW t \in Task, NEW c \in Cve, Claim(t, c)
    PROVE  IInv'
<1>1. UNCHANGED <<upstream, row, score, budget, clock>>
  BY DEF Claim
<1>2. /\ budget' \in 0..DailyLimit /\ key' \in [Cve -> BOOLEAN]
      /\ clock' \in [ran : BOOLEAN, midnight : BOOLEAN]
  BY DEF Claim, IInv, TypeOK
<1>3. left' \in [events : 0..left.events, requests : 0..left.requests]
  BY BoundsShrink DEF Claim, IInv
<1>4. PICK r \in Held : Sound(r, upstream, row) /\ Become(t, r)
  <2>1. /\ task[t].ids \in SUBSET Cve /\ task[t].todo \in SUBSET Cve
        /\ task[t].pc \in Place /\ "fetch" \in Place
    BY DEF IInv, TypeOK, Held, Place
  <2>2. PICK ids \in SUBSET Cve :
            LET more == task[t].todo \ {c} IN
            Become(t, IF more # {} THEN [task[t] EXCEPT !.ids = ids, !.todo = more]
                      ELSE IF ids = {} THEN Idle
                      ELSE [task[t] EXCEPT !.pc = "fetch", !.ids = ids, !.todo = ids])
    BY <2>1, Zenon DEF Claim
  <2> DEFINE more == task[t].todo \ {c}
             next == [task[t] EXCEPT !.ids = ids, !.todo = more]
             there == [task[t] EXCEPT !.ids = ids, !.todo = ids]
             last == [task[t] EXCEPT !.pc = "fetch", !.ids = ids, !.todo = ids]
  <2>3. more \in SUBSET Cve
    BY <2>1
  <2>4. next \in Held /\ Sound(next, upstream, row)
    BY <2>1, <2>3, HeldNow, OtherCves
  <2>5. last \in Held /\ Sound(last, upstream, row)
    <3>1. there \in Held /\ Sound(there, upstream, row)
      BY HeldNow, OtherCves
    <3>2. last = [there EXCEPT !.pc = "fetch"]
      BY HeldNow DEF Held
    <3> HIDE DEF there, last
    <3> QED
      BY <2>1, <3>1, <3>2, Moved
  <2>6. Idle \in Held /\ Sound(Idle, upstream, row)
    BY IdleIsHeld DEF IInv, TypeOK, ColumnsOK
  <2> QED
    BY <2>2, <2>4, <2>5, <2>6
<1> QED
  BY <1>1, <1>2, <1>3, <1>4, QuietStep

\* A batch is paid for before it is asked; the budget is never overdrawn.
LEMMA AskStep ==
    ASSUME IInv, NEW t \in Task, AskBatch(t)
    PROVE  IInv'
<1>1. /\ UNCHANGED <<upstream, row, score>>
      /\ key' \in [Cve -> BOOLEAN] /\ clock' \in [ran : BOOLEAN, midnight : BOOLEAN]
  BY DEF AskBatch, IInv, TypeOK
<1>2. left' \in [events : 0..left.events, requests : 0..left.requests]
  BY BoundsShrink DEF AskBatch, IInv
<1>3. budget' \in 0..DailyLimit
  <2>1. Cardinality(Batch(t)) \in Nat /\ budget \in 0..DailyLimit /\ DailyLimit \in Nat
    BY BatchSizeIsNat DEF IInv, TypeOK
  <2> QED
    BY <2>1 DEF AskBatch, consume
<1>4. PICK r \in Held : Sound(r, upstream, row) /\ Become(t, r)
  <2>1. PICK p \in {"posted", "store"} : Become(t, [task[t] EXCEPT !.pc = p])
    BY DEF AskBatch, GoTo
  <2>2. [task[t] EXCEPT !.pc = p] \in Held /\ Sound([task[t] EXCEPT !.pc = p], upstream, row)
    BY HeldNow, Moved DEF Place
  <2> QED
    BY <2>1, <2>2
<1> QED
  BY <1>1, <1>2, <1>3, <1>4, QuietStep

\* An answer is read under the CVEs it is about.
LEMMA AnswerStep ==
    ASSUME IInv, NEW t \in Task, Answer(t) \/ BatchFails(t)
    PROVE  IInv'
<1>1. /\ UNCHANGED <<upstream, row, score>>
      /\ budget' \in 0..DailyLimit /\ key' \in [Cve -> BOOLEAN]
      /\ clock' \in [ran : BOOLEAN, midnight : BOOLEAN]
  BY DEF Answer, BatchFails, IInv, TypeOK
<1>2. left' \in [events : 0..left.events, requests : 0..left.requests]
  BY BoundsShrink DEF Answer, BatchFails, IInv
<1>3. PICK got \in [Cve -> Version] : NextBatch(t, got) /\ \A c \in Cve : got[c] <= upstream[c]
  <2>1. /\ task[t].got \in [Cve -> Version] /\ upstream \in [Cve -> Version]
        /\ \A c \in Cve : task[t].got[c] <= upstream[c]
    BY DEF IInv, TypeOK, Held, TasksAreSound, Sound
  <2>2. CASE BatchFails(t)
    BY <2>1, <2>2 DEF BatchFails
  <2>3. CASE Answer(t)
    <3> DEFINE got == [c \in Cve |-> Parsed(t, c)]
    <3>1. got \in [Cve -> Version] /\ \A c \in Cve : got[c] <= upstream[c]
      BY <2>1 DEF Parsed, Version
    <3> QED
      BY <2>3, <3>1 DEF Answer
  <2> QED
    BY <2>2, <2>3
<1>4. PICK r \in Held : Sound(r, upstream, row) /\ Become(t, r)
  <2> DEFINE more == task[t].todo \ Batch(t)
             place == IF more = {} THEN "store" ELSE "fetch"
             new == [task[t] EXCEPT !.pc = place, !.todo = more, !.got = got]
  <2>1. task[t] \in Held /\ Sound(task[t], upstream, row)
    BY HeldNow
  <2>2. place \in Place /\ more \in SUBSET Cve
    BY <2>1 DEF Held, Place
  <2>3. new \in Held /\ new.got = got /\ new.plan = task[t].plan
    <3> HIDE DEF place, more
    <3> QED
      BY <2>1, <2>2 DEF Held
  <2>4. Sound(new, upstream, row)
    <3> HIDE DEF new
    <3> QED
      BY <1>3, <2>1, <2>3 DEF Sound
  <2> QED
    BY <1>3, <2>3, <2>4 DEF NextBatch
<1> QED
  BY <1>1, <1>2, <1>4, QuietStep
\* Wherever a path goes next, the task holds what it held, or nothing.
LEMMA ProceedHolds ==
    ASSUME IInv, NEW t \in Task, NEW step \in {"store", "stamp", "scores"}, Proceed(t, step)
    PROVE  \E r \in Held : Sound(r, upstream, row) /\ Become(t, r)
<1>1. Idle \in Held /\ Sound(Idle, upstream, row)
  BY IdleIsHeld DEF IInv, TypeOK, ColumnsOK
<1>2. PICK p \in Place : \/ Become(t, Idle)
                         \/ Become(t, [task[t] EXCEPT !.pc = p, !.plan = NoPlan])
  <2>1. JobAfter(t, step) \in Place
    BY DEF JobAfter, Place
  <2>2. t \in Lazy => LazyAfter(t, step) \in Place
    BY DEF LazyAfter, Place
  <2>3. IntelAfter(t, step) \in Place /\ SyncAfter(t, step) \in Place
    BY DEF IntelAfter, SyncAfter, Place
  <2> QED
    BY <2>1, <2>2, <2>3 DEF Proceed, End
<1> DEFINE new == [task[t] EXCEPT !.pc = p, !.plan = NoPlan]
<1>3. NoPlan \in Plan /\ DOMAIN NoPlan = {}
  <2>1. NoPlan \in [{} -> Basis] /\ DOMAIN NoPlan = {}
    BY DEF NoPlan
  <2> QED
    BY <2>1, PlanType
<1>4. new \in Held /\ new.got = task[t].got /\ new.plan = NoPlan
  BY <1>3, HeldNow DEF Held
<1>5. Sound(new, upstream, row)
  <2> HIDE DEF new
  <2> QED
    BY <1>3, <1>4, HeldNow DEF Sound
<1> QED
  BY <1>1, <1>2, <1>4, <1>5

\* Steps at the end of a path, or of one that failed.
LEMMA EndStep ==
    ASSUME IInv, NEW t \in Task, FetchRaises(t) \/ Release(t) \/ DatabaseFails(t)
    PROVE  IInv'
<1>1. /\ UNCHANGED <<upstream, row, score>>
      /\ budget' \in 0..DailyLimit /\ key' \in [Cve -> BOOLEAN]
      /\ clock' \in [ran : BOOLEAN, midnight : BOOLEAN]
  BY DEF FetchRaises, Release, DatabaseFails, IInv, TypeOK
<1>2. left' \in [events : 0..left.events, requests : 0..left.requests]
  BY BoundsShrink DEF FetchRaises, Release, DatabaseFails, IInv
<1>3. PICK r \in Held : Sound(r, upstream, row) /\ Become(t, r)
  <2>1. Idle \in Held /\ Sound(Idle, upstream, row)
    BY IdleIsHeld DEF IInv, TypeOK, ColumnsOK
  <2>2. [task[t] EXCEPT !.pc = "release"] \in Held
        /\ Sound([task[t] EXCEPT !.pc = "release"], upstream, row)
    BY HeldNow, Moved DEF Place
  <2>3. End(t) \/ GoTo(t, "release")
    BY DEF FetchRaises, Release, DatabaseFails
  <2> QED
    BY <2>1, <2>2, <2>3 DEF End, GoTo
<1> QED
  BY <1>1, <1>2, <1>3, QuietStep

\* The score of a CVE that was found is planned from the row it has now.
LEMMA ReadStep ==
    ASSUME IInv, NEW t \in Task, ReadForRecompute(t)
    PROVE  IInv'
<1>1. /\ UNCHANGED <<upstream, row, score>>
      /\ budget' \in 0..DailyLimit /\ key' \in [Cve -> BOOLEAN]
      /\ clock' \in [ran : BOOLEAN, midnight : BOOLEAN]
  BY DEF ReadForRecompute, IInv, TypeOK
<1>2. left' \in [events : 0..left.events, requests : 0..left.requests]
  BY BoundsShrink DEF ReadForRecompute, IInv
<1>3. PICK r \in Held : Sound(r, upstream, row) /\ Become(t, r)
  <2>1. CASE Proceed(t, "scores")
    BY <2>1, ProceedHolds
  <2>2. CASE Become(t, [task[t] EXCEPT !.pc = "recompute", !.plan = ScoresToWrite(t)])
    <3> DEFINE changed == {c \in Found(t) : score[c] # BasisOf(c)}
               plan == ScoresToWrite(t)
               new == [task[t] EXCEPT !.pc = "recompute", !.plan = plan]
    <3>1. changed \subseteq Cve
      BY HeldNow DEF Found, Held
    <3>2. ASSUME NEW c \in changed
          PROVE  /\ BasisOf(c) \in Basis
                 /\ BasisOf(c)[1] <= upstream[c] /\ BasisOf(c)[2] <= row[c].other
      <4>1. /\ row[c].flags \in Version /\ row[c].other \in Version
            /\ row[c].flags <= upstream[c]
        BY <3>1 DEF IInv, TypeOK, IntelIsItsOwn
      <4> QED
        BY <4>1 DEF BasisOf, Basis, Version
    <3>3. plan = [c \in changed |-> BasisOf(c)]
      BY DEF ScoresToWrite
    <3> HIDE DEF changed
    <3>4. plan \in [changed -> Basis]
      BY <3>2, <3>3
    <3>5. plan \in Plan /\ DOMAIN plan = changed
      BY <3>1, <3>4, PlanType
    <3>6. \A c \in DOMAIN plan : plan[c][1] <= upstream[c] /\ plan[c][2] <= row[c].other
      BY <3>2, <3>3, <3>5
    <3> HIDE DEF plan
    <3>7. new \in Held /\ new.got = task[t].got /\ new.plan = plan
      BY <3>5, HeldNow DEF Held, Place
    <3>8. Sound(new, upstream, row)
      <4> HIDE DEF new
      <4> QED
        BY <3>6, <3>7, HeldNow DEF Sound
    <3> QED
      BY <2>2, <3>7, <3>8 DEF plan
  <2> QED
    BY <2>1, <2>2 DEF ReadForRecompute
<1> QED
  BY <1>1, <1>2, <1>3, QuietStep
\* A row may get younger and its flags newer, up to what vulnx says; scores may
\* be anything that IntelIsItsOwn allows.
LEMMA WriteStep ==
    ASSUME IInv, NEW t \in Task, NEW r \in Held, Sound(r, upstream, row), Become(t, r),
           UNCHANGED <<upstream, budget, key, clock, left>>,
           row' \in [Cve -> [flags : Version, other : Version, age : 0..StaleDays]],
           score' \in [Cve -> Basis],
           \A c \in Cve : row'[c].other = row[c].other /\ row'[c].flags <= upstream[c],
           \A c \in Cve : score'[c][1] <= upstream[c] /\ score'[c][2] <= row[c].other
    PROVE  IInv'
<1>1. ColumnsOK' /\ VersionsGrow
  BY DEF ColumnsOK, VersionsGrow, IInv, TypeOK, Version
<1>2. EventsAreCounted' /\ IntelIsItsOwn'
  BY DEF IInv, EventsAreCounted, IntelIsItsOwn
<1>3. /\ budget' \in 0..DailyLimit /\ key' \in [Cve -> BOOLEAN]
      /\ clock' \in [ran : BOOLEAN, midnight : BOOLEAN]
      /\ left' \in [events : 0..MaxEvents, requests : 0..MaxRequests]
  BY DEF IInv, TypeOK
<1> QED
  BY <1>1, <1>2, <1>3, TaskStep

LEMMA StoreStep ==
    ASSUME IInv, NEW t \in Task, Store(t) \/ Stamp(t)
    PROVE  IInv'
<1>1. PICK r \in Held : Sound(r, upstream, row) /\ Become(t, r)
  BY ProceedHolds DEF Store, Stamp
<1>2. /\ row \in [Cve -> [flags : Version, other : Version, age : 0..StaleDays]]
      /\ 0 \in 0..StaleDays
  BY DEF IInv, TypeOK
<1>3. /\ row' \in [Cve -> [flags : Version, other : Version, age : 0..StaleDays]]
      /\ \A c \in Cve : row'[c].other = row[c].other /\ row'[c].flags <= upstream[c]
  <2>1. \A c \in Cve : row[c].flags <= upstream[c]
    BY DEF IInv, IntelIsItsOwn
  <2>2. CASE Store(t)
    <3>1. ASSUME NEW c \in Cve PROVE task[t].got[c] \in Version /\ task[t].got[c] <= upstream[c]
      BY HeldNow DEF Held, Sound
    <3> QED
      BY <1>2, <2>1, <2>2, <3>1 DEF Store
  <2>3. CASE Stamp(t)
    BY <1>2, <2>1, <2>3 DEF Stamp, StampNotFound
  <2> QED
    BY <2>2, <2>3
<1>4. /\ UNCHANGED <<upstream, score, budget, key, clock, left>>
      /\ score' \in [Cve -> Basis]
      /\ \A c \in Cve : score'[c][1] <= upstream[c] /\ score'[c][2] <= row[c].other
  BY DEF Store, Stamp, IInv, TypeOK, IntelIsItsOwn
<1> QED
  BY <1>1, <1>3, <1>4, WriteStep

LEMMA RecomputeStep ==
    ASSUME IInv, NEW t \in Task, Recompute(t)
    PROVE  IInv'
<1>1. PICK r \in Held : Sound(r, upstream, row) /\ Become(t, r)
  BY ProceedHolds DEF Recompute
<1> DEFINE plan == task[t].plan
<1>2. /\ \A c \in DOMAIN plan : plan[c] \in Basis
      /\ \A c \in DOMAIN plan : plan[c][1] <= upstream[c] /\ plan[c][2] <= row[c].other
  BY HeldNow, PlanIsFunction DEF Held, Sound
<1> HIDE DEF plan
<1>3. /\ score' = [c \in Cve |-> IF c \in DOMAIN plan THEN plan[c] ELSE score[c]]
      /\ UNCHANGED <<upstream, row, budget, key, clock, left>>
  BY DEF Recompute, plan
<1>4. score \in [Cve -> Basis]
      /\ \A c \in Cve : score[c][1] <= upstream[c] /\ score[c][2] <= row[c].other
  BY DEF IInv, TypeOK, IntelIsItsOwn
<1>5. score' \in [Cve -> Basis]
      /\ \A c \in Cve : score'[c][1] <= upstream[c] /\ score'[c][2] <= row[c].other
  BY <1>2, <1>3, <1>4
<1>6. /\ row' \in [Cve -> [flags : Version, other : Version, age : 0..StaleDays]]
      /\ \A c \in Cve : row'[c].other = row[c].other /\ row'[c].flags <= upstream[c]
  BY <1>3 DEF IInv, TypeOK, IntelIsItsOwn
<1> QED
  BY <1>1, <1>3, <1>5, <1>6, WriteStep

-----------------------------------------------------------------------------
\* A new process holds nothing and has spent nothing.
LEMMA RestartStep ==
    ASSUME IInv, Restart
    PROVE  IInv'
<1>1. /\ UNCHANGED <<upstream, row, score, key>> /\ budget' \in 0..DailyLimit
      /\ task' = [t \in Task |-> Idle]
      /\ clock' \in [ran : BOOLEAN, midnight : BOOLEAN]
  <2>1. 0 \in 0..DailyLimit
    OBVIOUS
  <2>2. clock \in [ran : BOOLEAN, midnight : BOOLEAN]
    BY DEF IInv, TypeOK
  <2> QED
    BY <2>1, <2>2 DEF Restart
<1>2. left' \in [events : 0..left.events, requests : 0..left.requests]
  BY BoundsShrink DEF Restart, IInv
<1>3. ColumnsOK /\ ColumnsOK'
  BY <1>1 DEF IInv, TypeOK, ColumnsOK
<1>4. Idle \in Held /\ Sound(Idle, upstream, row)
  BY <1>3, IdleIsHeld
<1>5. TypeOK'
  BY <1>1, <1>2, <1>4 DEF IInv, TypeOK
<1>6. EventsAreCounted'
  BY <1>1, <1>2, <1>3 DEF IInv, TypeOK, EventsAreCounted, ColumnsOK, Version
<1>7. IntelIsItsOwn' /\ TasksAreSound'
  BY <1>1, <1>4 DEF IInv, IntelIsItsOwn, TasksAreSound
<1> QED
  BY <1>5, <1>6, <1>7 DEF IInv

\* A step of the environment leaves the tasks alone.
LEMMA OutsideStep ==
    ASSUME IInv, UNCHANGED <<task, score>>, ColumnsOK', VersionsGrow, EventsAreCounted',
           \A c \in Cve : row'[c].flags = row[c].flags,
           budget' \in 0..DailyLimit, key' \in [Cve -> BOOLEAN],
           clock' \in [ran : BOOLEAN, midnight : BOOLEAN],
           left' \in [events : 0..MaxEvents, requests : 0..MaxRequests]
    PROVE  IInv'
<1>1. "job" \in Task /\ Become("job", task["job"])
  BY DEF Task, Become, IInv, TypeOK
<1>2. score' \in [Cve -> Basis]
  BY DEF IInv, TypeOK
<1>3. ASSUME NEW c \in Cve
      PROVE  /\ row'[c].flags <= upstream'[c]
             /\ score'[c][1] <= upstream'[c] /\ score'[c][2] <= row'[c].other
  <2>1. /\ row[c].flags <= upstream[c] /\ upstream[c] <= upstream'[c]
        /\ score[c][1] <= upstream[c] /\ score[c][2] <= row[c].other
        /\ row[c].other <= row'[c].other /\ row'[c].flags = row[c].flags
    BY DEF IInv, IntelIsItsOwn, VersionsGrow
  <2>2. /\ row[c].flags \in Int /\ row[c].other \in Int /\ row'[c].other \in Int
        /\ upstream[c] \in Int /\ upstream'[c] \in Int
        /\ score[c][1] \in Int /\ score[c][2] \in Int
    BY DEF IInv, TypeOK, ColumnsOK, Basis, Version
  <2> QED
    BY <2>1, <2>2
<1>4. IntelIsItsOwn'
  BY <1>3 DEF IntelIsItsOwn
<1> QED
  BY <1>1, <1>2, <1>4, HeldNow, TaskStep
\* Keys, the clock and the days.
LEMMA TimeStep ==
    ASSUME IInv,
           \/ Midnight \/ Day
           \/ \E c \in Cve : ClaimedElsewhere(c) \/ Expire(c)
    PROVE  IInv'
<1>1. UNCHANGED <<upstream, task, score>>
  BY DEF Midnight, Day, ClaimedElsewhere, Expire
<1>2. left' \in [events : 0..left.events, requests : 0..left.requests]
  BY BoundsShrink DEF Midnight, Day, ClaimedElsewhere, Expire, IInv
<1>3. key' \in [Cve -> BOOLEAN] /\ clock' \in [ran : BOOLEAN, midnight : BOOLEAN]
  <2>1. key \in [Cve -> BOOLEAN] /\ clock \in [ran : BOOLEAN, midnight : BOOLEAN]
    BY DEF IInv, TypeOK
  <2>2. CASE Midnight
    BY <2>1, <2>2 DEF Midnight
  <2>3. CASE Day
    BY <2>1, <2>3 DEF Day
  <2>4. ASSUME NEW c \in Cve, ClaimedElsewhere(c) \/ Expire(c)
        PROVE  key' \in [Cve -> BOOLEAN] /\ UNCHANGED clock
    BY <2>1, <2>4 DEF ClaimedElsewhere, Expire
  <2> QED
    BY <2>1, <2>2, <2>3, <2>4
<1>4. budget' \in 0..DailyLimit
  <2>1. 0 \in 0..DailyLimit /\ budget \in 0..DailyLimit
    BY DEF IInv, TypeOK
  <2> QED
    BY <2>1 DEF Midnight, ResetCount, Day, ClaimedElsewhere, Expire
<1>5. /\ row' \in [Cve -> [flags : Version, other : Version, age : 0..StaleDays]]
      /\ \A c \in Cve : row'[c].flags = row[c].flags /\ row'[c].other = row[c].other
  <2>1. CASE Day
    <3>1. ASSUME NEW c \in Cve
          PROVE  (IF row[c].age < StaleDays THEN row[c].age + 1 ELSE row[c].age) \in 0..StaleDays
      <4>1. row[c].age \in 0..StaleDays /\ StaleDays \in Nat
        BY DEF IInv, TypeOK
      <4> QED
        BY <4>1
    <3> QED
      BY <2>1, <3>1 DEF Day, IInv, TypeOK
  <2>2. CASE UNCHANGED row
    BY <2>2 DEF IInv, TypeOK
  <2> QED
    BY <2>1, <2>2 DEF Midnight, ClaimedElsewhere, Expire
<1>6. ColumnsOK' /\ VersionsGrow
  BY <1>1, <1>5 DEF ColumnsOK, VersionsGrow, IInv, TypeOK, Version
<1>7. left' \in [events : 0..MaxEvents, requests : 0..MaxRequests]
  BY <1>2 DEF IInv, TypeOK
<1>8. EventsAreCounted'
  BY <1>1, <1>2, <1>5 DEF IInv, TypeOK, EventsAreCounted, Version
<1> QED
  BY <1>1, <1>3, <1>4, <1>5, <1>6, <1>7, <1>8, OutsideStep

\* An event makes one version one higher, and there is one event less to come.
LEMMA ChangeStep ==
    ASSUME IInv, NEW c \in Cve, Publish(c) \/ OtherSignal(c)
    PROVE  IInv'
<1>1. /\ UNCHANGED <<task, score, budget, key, clock>>
      /\ left.events > 0 /\ left' = [left EXCEPT !.events = left.events - 1]
  BY DEF Publish, OtherSignal, Event
<1>2. /\ left.events \in 1..MaxEvents /\ left'.events = left.events - 1
      /\ left' \in [events : 0..MaxEvents, requests : 0..MaxRequests]
  BY <1>1 DEF IInv, TypeOK
<1>3. ASSUME NEW d \in Cve
      PROVE  /\ upstream[d] \in Version /\ row[d].other \in Version
             /\ upstream[d] + left.events <= MaxEvents
             /\ row[d].other + left.events <= MaxEvents
  BY DEF IInv, TypeOK, EventsAreCounted
<1>4. upstream[c] + 1 \in Version /\ row[c].other + 1 \in Version
  <2>1. /\ upstream[c] \in 0..MaxEvents /\ row[c].other \in 0..MaxEvents
        /\ upstream[c] + left.events <= MaxEvents /\ row[c].other + left.events <= MaxEvents
    BY <1>3 DEF Version
  <2>2. left.events \in 1..MaxEvents /\ MaxEvents \in Nat
    BY <1>2
  <2>3. upstream[c] + 1 \in 0..MaxEvents /\ row[c].other + 1 \in 0..MaxEvents
    BY <2>1, <2>2
  <2> QED
    BY <2>3 DEF Version
<1>5. /\ upstream \in [Cve -> Version]
      /\ row \in [Cve -> [flags : Version, other : Version, age : 0..StaleDays]]
  BY DEF IInv, TypeOK
<1>6. ColumnsOK'
  BY <1>4, <1>5 DEF ColumnsOK, Publish, OtherSignal
<1>7. ASSUME NEW d \in Cve
      PROVE  /\ upstream'[d] \in {upstream[d], upstream[d] + 1}
             /\ row'[d].other \in {row[d].other, row[d].other + 1}
             /\ row'[d].flags = row[d].flags
  BY <1>5 DEF Publish, OtherSignal
<1>8. VersionsGrow /\ EventsAreCounted'
  BY <1>2, <1>3, <1>7 DEF VersionsGrow, EventsAreCounted, Version
<1>9. /\ budget' \in 0..DailyLimit /\ key' \in [Cve -> BOOLEAN]
      /\ clock' \in [ran : BOOLEAN, midnight : BOOLEAN]
  BY <1>1 DEF IInv, TypeOK
<1> QED
  BY <1>1, <1>2, <1>6, <1>7, <1>8, <1>9, OutsideStep

-----------------------------------------------------------------------------
\* The invariant holds in every reachable state.
THEOREM InvariantTheorem == Spec => []IInv
<1>1. Init => IInv
  <2> SUFFICES ASSUME Init PROVE IInv
    OBVIOUS
  <2>1. 0 \in Version /\ 0 \in 0..DailyLimit /\ StaleDays \in 0..StaleDays
    BY DEF Version
  <2>2. Null \in Basis /\ Null[1] = 0 /\ Null[2] = 0
    BY <2>1 DEF Null, Basis
  <2>3. ColumnsOK
    BY <2>1 DEF Init, ColumnsOK
  <2>4. Idle \in Held /\ Sound(Idle, upstream, row)
    BY <2>3, IdleIsHeld
  <2>5. TypeOK
    BY <2>1, <2>2, <2>4 DEF Init, TypeOK
  <2>6. EventsAreCounted /\ IntelIsItsOwn
    BY <2>2 DEF Init, EventsAreCounted, IntelIsItsOwn
  <2>7. TasksAreSound
    BY <2>4 DEF Init, TasksAreSound
  <2> QED
    BY <2>5, <2>6, <2>7 DEF IInv
<1>2. IInv /\ [Next]_vars => IInv'
  <2> SUFFICES ASSUME IInv, [Next]_vars PROVE IInv'
    OBVIOUS
  <2>1. CASE JobSelect
    BY <2>1, SelectStep
  <2>2. CASE Midnight \/ Day \/ \E c \in Cve : ClaimedElsewhere(c) \/ Expire(c)
    BY <2>2, TimeStep
  <2>3. ASSUME NEW t \in Task, Work(t) PROVE IInv'
    <3>1. ASSUME NEW c \in Cve, Claim(t, c) PROVE IInv'
      BY <3>1, ClaimStep
    <3> QED
      BY <2>3, <3>1, AskStep, AnswerStep, StoreStep, ReadStep, RecomputeStep, EndStep DEF Work
  <2>4. CASE Restart
    BY <2>4, RestartStep
  <2>5. CASE \/ \E t \in Lazy, shown \in SUBSET Cve : ShowFindings(t, shown)
             \/ \E t \in Intel, c \in Cve : RequestIntel(t, c)
             \/ \E t \in Sync, c \in Cve : SyncReads(t, c)
    <3>1. ASSUME NEW t \in Lazy, NEW shown \in SUBSET Cve, ShowFindings(t, shown) PROVE IInv'
      <4>1. CASE Cve = {}
        BY <3>1, <4>1 DEF ShowFindings
      <4>2. ASSUME NEW c \in Cve PROVE IInv'
        BY <3>1, <4>2, BeginStep DEF Task
      <4> QED
        BY <4>1, <4>2
    <3>2. ASSUME NEW t \in Intel, NEW c \in Cve, RequestIntel(t, c) PROVE IInv'
      BY <3>2, BeginStep DEF Task
    <3>3. ASSUME NEW t \in Sync, NEW c \in Cve, SyncReads(t, c) PROVE IInv'
      BY <3>3, BeginStep DEF Task
    <3> QED
      BY <2>5, <3>1, <3>2, <3>3
  <2>6. ASSUME NEW t \in Task, BatchFails(t) \/ FetchRaises(t) \/ DatabaseFails(t) PROVE IInv'
    BY <2>6, AnswerStep, EndStep
  <2>7. ASSUME NEW c \in Cve, Publish(c) \/ OtherSignal(c) PROVE IInv'
    BY <2>7, ChangeStep
  <2>8. CASE UNCHANGED vars
    BY <2>8 DEF vars, IInv, TypeOK, EventsAreCounted, IntelIsItsOwn, TasksAreSound
  <2> QED
    BY <2>1, <2>2, <2>3, <2>4, <2>5, <2>6, <2>7, <2>8 DEF Next, Progress
<1> QED
  BY <1>1, <1>2, PTL DEF Spec

\* Whatever the job, the background tasks and the requests ask for, and however
\* their batches interleave, the day's budget is never overdrawn, and every
\* version, page and plan is what its column or variable can hold.
THEOREM TypeCorrect == Spec => []TypeOK
<1>1. IInv => TypeOK
  BY DEF IInv
<1> QED
  BY <1>1, InvariantTheorem, PTL

\* No path attributes to a CVE what vulnx said of another one, or what it has
\* not said, and no score is ahead of the signals of its CVE.
THEOREM IntelTheorem == Spec => []IntelIsItsOwn
<1>1. IInv => IntelIsItsOwn
  BY DEF IInv
<1> QED
  BY <1>1, InvariantTheorem, PTL
=============================================================================

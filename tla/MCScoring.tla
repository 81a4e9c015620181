----------------------------- MODULE MCScoring -----------------------------
(***************************************************************************)
(* The pure functions of VersionMatcher and Scoring, each on every set of  *)
(* arguments of a small instance, and the histories of DailySnapshot.      *)
(***************************************************************************)
EXTENDS VersionMatcher, Scoring, DailySnapshot

CONSTANTS none, log, log4j, apache

Num(n) == [num |-> n, rest |-> "", rank |-> 0]
MCPart ==
    {Num(n) : n \in -1..1}
    \cup {[num |-> 1, rest |-> "-letter", rank |-> 0], [num |-> 1, rest |-> "letter", rank |-> 1],
          [num |-> 0, rest |-> "other", rank |-> 0]}
MCSlug == {none, log, log4j, apache}
MCWithin == {<<s, s>> : s \in MCSlug} \cup ({none} \X MCSlug) \cup {<<log, log4j>>}

One == Version(<<Num(1)>>)
OneZero == Version(<<Num(1), Num(0)>>)
OneOne == Version(<<Num(1), Num(1)>>)
Unbounded == [startInc |-> Absent, startExc |-> Absent, endInc |-> Absent,
              endExc |-> Absent, exact |-> Absent, named |-> TRUE,
              vendor |-> apache, product |-> log4j]
MCEntry ==
    {[Unbounded EXCEPT !.endExc = One], [Unbounded EXCEPT !.exact = OneZero, !.product = log],
     [Unbounded EXCEPT !.startExc = Wild("*"), !.vendor = none], [Unbounded EXCEPT !.named = FALSE]}
MCProduct == [cpe : BOOLEAN, name : {log, log4j}, vendor : {none, apache}]
MCBoundary == {Version(<<Num(0)>>), One, OneZero, OneOne}
MCInstalled == {Absent, Wild("*"), Wild("n/a")} \cup MCBoundary \cup {Version(<<p>>) : p \in MCPart}

MCEpss == {0, 1, 3, 4, 5, 40, 79, 80}
MCCvss == {0, 1, 39, 40, 69, 70, 89, 90, 100}
MCAge == {0, 60, 61, 62, 180, 181, 182, 730, 731, 732}
MCToday == 0..20
MCDueDate == 0..20

MCInit == MatcherInit /\ ScoringInit /\ SnapshotInit

\* One set of arguments, or one history of snapshots.
MCNext ==
    \/ SnapshotInit /\ signals = NoSignals /\ (CompareCase \/ VerdictCase) /\ UNCHANGED <<signals, snapshotVars>>
    \/ SnapshotInit /\ case = NoCase /\ (ScoreCase \/ SlaCase) /\ UNCHANGED <<case, snapshotVars>>
    \/ signals = NoSignals /\ case = NoCase /\ SnapshotNext /\ UNCHANGED <<case, signals>>

MCSpec == MCInit /\ [][MCNext]_<<case, signals, snapshotVars>>
=============================================================================

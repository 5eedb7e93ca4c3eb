---------------------------- MODULE MCCollectorRun ----------------------------
EXTENDS CollectorRun

\* Path order of one list whose name sorts before tor_bridges.zip.
OneListOrder ==
  <<Readme, History, Archive(1), Recent(1), Tested(1), ZipFile>>

\* Path order of vanilla and snowflake: the ZIP comes between them.
MixedOrder ==
  <<Readme, History, Archive(2), Recent(2), Tested(2), ZipFile, Archive(1),
    Recent(1), Tested(1)>>

FrontedDefaults == [l \in Lists |-> IF l \in Fronted THEN {"d"} ELSE {}]

\* One line per list the sources may know, next to the built-in one.
Uneven == [l \in Lists |-> IF l = 1 THEN {"x"} ELSE {"z"}]

AllLines == [l \in Lists |-> Lines]

\* The instances meet the conditions under which archived lines are fresh only
\* on the history's evidence.
ASSUME EvidenceAssumption == HistoryFirst /\ NoPurgeBetween
=============================================================================

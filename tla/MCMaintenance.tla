--------------------------- MODULE MCMaintenance ---------------------------
EXTENDS Maintenance, TLC
OneClass == [i \in Incidents |-> "db"]

\* One of the incidents may have two processes at work at once.
TwoOfOne == (Incidents \X {1}) \cup {<<CHOOSE i \in Incidents : TRUE, 2>>}

Limit(runs, crashes, overlaps) == [runs |-> runs, crashes |-> crashes, overlaps |-> overlaps]

\* Three runs and a crash, two and a recovery beside a live one, or one run, a
\* crash and such a recovery.
EachInTurn == {Limit(3, 1, 0), Limit(2, 0, 1), Limit(1, 1, 1)}
=============================================================================

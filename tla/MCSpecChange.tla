---------------------------- MODULE MCSpecChange ----------------------------
(* Two specs, two criteria, one drafted change and one other feature.      *)
EXTENDS SpecChange

CONSTANTS s1, s2, t1, t2, f1
OneChange == {[spec |-> s1, text |-> t2]}
TwoChanges == OneChange \cup {[spec |-> s2, text |-> t1]}
=============================================================================

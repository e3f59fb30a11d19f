------------------------------ MODULE MCIntake ------------------------------
EXTENDS Intake, TLC
Symmetries == Permutations(Keys) \cup Permutations(Listers) \cup Permutations(Work)
=============================================================================

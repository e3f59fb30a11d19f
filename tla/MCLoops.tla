------------------------------- MODULE MCLoops -------------------------------
(***************************************************************************)
(* Three instances for TLC in one run, of which a behaviour picks one at   *)
(* the start: "bench", the bench alone over a suite of two cases;          *)
(* "alerts", the daily scheduler and its tellers over a bench of one case  *)
(* and one run; "spend", the scheduler east of Greenwich, alone with its   *)
(* bench of one case: three starts, a release and an upgrade.              *)
(***************************************************************************)
EXTENDS Cadence, TLC

VARIABLE part

\* --limit 1, and the whole suite; the scheduler passes neither option.
Slices == {{1}, {1, 2}}
WholeSuite == {Suite}

Bench == INSTANCE ProductBench WITH
  Cases <- 2, Scores <- {"works", "nothing"}, Picks <- Slices, Reals <- BOOLEAN,
  Resumes <- {TRUE}, Zone <- "utc", MaxDay <- 1, MaxStarts <- 2,
  Faults <- {"race", "disk", "case", "kill", "copy", "edit"}

Alerts == INSTANCE Cadence WITH
  Scores <- {"works", "nothing"}, Picks <- WholeSuite, MaxStarts <- 1, MaxBuild <- 1,
  Zone <- "west", MaxDay <- 1, Weekly <- 2, Drift <- 3, MaxPosts <- 1,
  Faults <- {"webhook", "teller", "loop", "preflight", "case"}

LoopsInit ==
  \/ part = "bench" /\ Bench!Init /\ CadenceIdle
  \/ part \in {"alerts", "spend"} /\ CadenceInit

LoopsNext ==
  /\ UNCHANGED part
  /\ \/ part = "bench" /\ Bench!Next /\ UNCHANGED cadenceVars
     \/ part = "alerts" /\ Alerts!CadenceNext
     \/ part = "spend" /\ CadenceNext

LoopsSpec == LoopsInit /\ [][LoopsNext]_<<allVars, part>>

\* ResumePaysOnce, of the bench of two cases.
ResumesPayOnce == Bench!ResumePaysOnce

LoopsSymmetry == Permutations(Runs)
=============================================================================

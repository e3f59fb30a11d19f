----------------------------- MODULE MCAutonomy -----------------------------
(* Small instances of the deployment review and the acting commands.       *)
EXTENDS Autonomy, TLC

Panel(found, blocked) == [found |-> found, blocked |-> blocked]
TwoPanels == {Panel({}, 1), Panel({"risk", "minor"}, 0)}

Full == [lint |-> FALSE, branch |-> "main", paths |-> {"plain"}]
FullOrLint == {Full, [Full EXCEPT !.lint = TRUE, !.branch = "none"]}
HumanPaths == {Full, [Full EXCEPT !.paths = {"chart"}]}

\* Approved and tested; overridden by a human after an escalation whose issue
\* could not be opened; rejected.
Passed == [verdict |-> "APPROVE", escalated |-> FALSE, issue |-> FALSE, test |-> "passed",
           paths |-> {"plain"}]
SomeChanges == {Passed, [Passed EXCEPT !.escalated = TRUE, !.test = "none"],
                [Passed EXCEPT !.verdict = "REQUEST_CHANGES", !.test = "failed"]}
HumanChange == {[Passed EXCEPT !.paths = {"dockerfile"}]}

Armed == [present |-> TRUE, enabled |-> TRUE, sound |-> TRUE, expires |-> 0, needed |-> 1,
          gate |-> TRUE, excludes |-> {}, command |-> "deploy"]
\* In force, renewed with another command, without the test gate, patterned.
Policies == {Armed, [Armed EXCEPT !.expires = 1, !.command = "deploy2", !.gate = FALSE]}

Limit(starts, crashes, overlaps, marks, edits, commands) ==
  [starts |-> starts, crashes |-> crashes, overlaps |-> overlaps, marks |-> marks,
   edits |-> edits, commands |-> commands]
\* Two reviews that are each at work in one process at a time, and the commands;
\* one that is recovered beside its own process, and the commands; two of those.
EachInTurn == {Limit(2, 1, 0, 2, 1, 1), Limit(1, 1, 1, 2, 2, 1), Limit(2, 0, 1, 2, 0, 0)}
OneOfEach == {Limit(1, 1, 0, 1, 1, 1)}
ReviewSymmetry == Permutations(Reviews) \cup Permutations(Slots)
=============================================================================

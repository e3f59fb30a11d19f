------------------------------ MODULE MCPanel ------------------------------
(* A panel of a tool and three voters over a few findings, for TLC.          *)
EXTENDS Panel

Raise(title, file, line, severity, confidence, hint) ==
  [title |-> title, file |-> file, line |-> line, severity |-> severity,
   confidence |-> confidence, hint |-> hint]

\* One issue at two sites, the second worse, and the same place and title again
\* at a lower severity.
Leak == Raise("leak", "f", 1, 1, "likely", "P6")
LeakInG == Raise("leak", "g", 1, 4, "certain", "none")
MildLeak == Raise("leak", "f", 1, 4, "certain", "none")

Answer(status, findings) == [status |-> status, findings |-> findings]
SomeVerdicts ==
  {Answer("OK", fs) : fs \in {<<>>, <<LeakInG, Leak>>, <<MildLeak>>}}
  \cup {Answer("BLOCKED_MISSING_CONTEXT", <<>>), Answer("BLOCKED_REQUIREMENT_CONFLICT", <<>>)}

SomeReports == {<<>>, <<Leak>>}
Roster == <<"security", "correctness", "style">>
Defaults == [report |-> 80, high |-> 60]

Spec1(tools, fallback) ==
  [tools |-> tools, tool_budget |-> 1, max_retries |-> 1, fallback |-> fallback]
SomeSkills == {Spec1(TRUE, "other"), Spec1(FALSE, "none")}
\* `--provider anthropic` and a skill whose fallback is on anthropic.
Overridden == {Spec1(FALSE, "same")}
=============================================================================

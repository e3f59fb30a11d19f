------------------------------- MODULE Panel -------------------------------
(***************************************************************************)
(* From a diff to the leader's verdict (orchestrator/graph.py's vote,      *)
(* verify and leader nodes, verify.py, scoring.py, leader.py): the voters  *)
(* that passed their fixture gate vote, a fresh agent checks each finding, *)
(* the findings are scored, filtered and folded, the verdict is chosen,    *)
(* and a model may merge findings of one defect.  The voters share         *)
(* nothing while they run, so they are run one after the other.            *)
(***************************************************************************)
EXTENDS Voter, SequencesExt

CONSTANTS
  Voters,        \* the voters of the roster, in load order
  Style,         \* the one a fast review asks
  ToolReports,   \* what the deterministic tools may find: sequences of findings
  Policy         \* thresholds: report and high

\* Severities from the worst, 1 critical, to 5 info.
CRITICAL == 1
ACTIONABLE == 1..3
HIGH_SEVERITIES == 1..2
CLEAN == {"APPROVE", "APPROVE_WITH_NOTES"}

\* What a tool or a model may report, and what becomes of it in a review.
Statuses == {"OK", "BLOCKED_TOOL_FAILURE", "BLOCKED_MISSING_CONTEXT",
             "BLOCKED_REQUIREMENT_CONFLICT"}
Raised == UNION {ToSet(v.findings) : v \in Verdicts} \cup UNION {ToSet(r) : r \in ToolReports}
Titles == {f.title : f \in Raised}
Files == {f.file : f \in Raised}
Hints == {f.hint : f \in Raised}
RawFinding == [title : Titles, file : Files, line : Nat, severity : 1..5,
               confidence : {"certain", "likely", "possible"}, hint : Hints]
Finding == [title : Titles, file : Files, line : Nat, severity : 1..5,
            confidence : {"certain", "likely", "possible"}, hint : Hints,
            voter : ToSet(Voters) \cup {"tools"},
            verification : {"none", "VERIFIED", "NOT_REPRODUCIBLE", "NEEDS_RUNTIME"},
            also_in : SUBSET Files, score : -1..100]

ASSUME PanelAssumption ==
  /\ Voters \in Seq(ToSet(Voters)) /\ IsInjective(Voters) /\ Voters # <<>>
  /\ Policy.report \in 50..100 /\ Policy.high \in 40..100
  /\ Raised \subseteq RawFinding /\ ToolReports \subseteq Seq(Raised)
  /\ \A v \in Verdicts : v.status \in Statuses /\ v.findings \in Seq(Raised)

VARIABLES
  stage,      \* tools, vote, verify, lead, merge, done or refused
  mode,       \* fast or standard
  roster,     \* the voters still to be asked
  outputs,    \* the envelopes, the tools' first
  result      \* the leader's: verdict, findings

panelVars == <<stage, mode, roster, outputs, result>>
reviewVars == <<voterVars, panelVars>>

NoResult == [verdict |-> "none", findings |-> <<>>]

PanelInit ==
  /\ VoterInit
  /\ stage = "tools"
  /\ mode \in {"fast", "standard"}
  /\ roster = <<>> /\ outputs = <<>>
  /\ result = NoResult

-----------------------------------------------------------------------------
(* Voting and verification.                                                *)

\* The elements of s at the places in I, in their order.
Picked(s, I) ==
  LET upto[n \in 0..Len(s)] ==
        IF n = 0 THEN <<>>
        ELSE IF n \in I THEN Append(upto[n - 1], s[n]) ELSE upto[n - 1]
  IN  upto[Len(s)]

\* What was raised, as the review keeps it.
InReview(f, voter, verification, score) ==
  [title |-> f.title, file |-> f.file, line |-> f.line, severity |-> f.severity,
   confidence |-> f.confidence, hint |-> f.hint, voter |-> voter,
   verification |-> verification, also_in |-> {}, score |-> score]

\* A finding of a deterministic tool is verified and scored as it is made.
ToolFinding(f) == InReview(f, "tools", "VERIFIED", IF f.confidence = "certain" THEN 100 ELSE 85)

RunTools ==
  /\ stage = "tools"
  /\ \E r \in ToolReports :
       outputs' = IF mode = "fast" \/ r = <<>> THEN <<>>
                  ELSE <<[status |-> "OK", findings |-> [i \in DOMAIN r |-> ToolFinding(r[i])]]>>
  \* vote_node: a voter whose fixture gate failed does not vote.
  /\ \E failed \in SUBSET ToSet(Voters) :
       LET able == Picked(Voters, {i \in DOMAIN Voters : Voters[i] \notin failed})
           fast == Picked(able, {i \in DOMAIN able : able[i] = Style})
       IN  /\ stage' = IF able = <<>> THEN "refused" ELSE "vote"
           /\ roster' = IF able = <<>> \/ mode = "standard" THEN able
                        ELSE IF fast # <<>> THEN fast ELSE <<Head(able)>>
  /\ UNCHANGED <<mode, result, voterVars>>

Ask ==
  /\ stage = "vote" /\ roster # <<>>
  /\ \E s \in Skills : VoterStart(s)
  /\ UNCHANGED panelVars

Reply == stage = "vote" /\ VoterStep /\ UNCHANGED panelVars

VoterFinding(f, v) == InReview(f, v, "none", -1)

\* The voter's envelope joins the others.
Collect ==
  /\ stage = "vote" /\ at = "done"
  /\ outputs' = Append(outputs, [status |-> output.status,
       findings |-> [i \in DOMAIN output.findings |->
                       VoterFinding(output.findings[i], Head(roster))]])
  /\ roster' = Tail(roster)
  /\ stage' = IF Len(roster) > 1 THEN "vote" ELSE IF mode = "fast" THEN "lead" ELSE "verify"
  /\ at' = "idle" /\ provider' = "own" /\ attempts' = 0 /\ output' = NoOutput
  /\ skill' = AnySkill
  /\ UNCHANGED <<mode, result, turn>>

AllFindings == FlattenSeq([i \in DOMAIN outputs |-> outputs[i].findings])
Unverified == {p \in UNION {{i} \X DOMAIN outputs[i].findings : i \in DOMAIN outputs} :
                 outputs[p[1]].findings[p[2]].verification = "none"}

\* Another voter flagged the lines within two of these.
corroborated(f, all) ==
  \E i \in DOMAIN all :
    /\ all[i].voter # f.voter /\ all[i].file = f.file
    /\ all[i].line <= f.line + 2 /\ f.line <= all[i].line + 2

SELF_POINTS(c) == CASE c = "certain" -> 40 [] c = "likely" -> 30 [] c = "possible" -> 15
VERIFICATION_POINTS(v) == CASE v = "VERIFIED" -> 40 [] v = "NEEDS_RUNTIME" -> 25 [] OTHER -> 0

score_finding(f, all) ==
  IF f.verification = "NOT_REPRODUCIBLE" THEN 0
  ELSE SELF_POINTS(f.confidence) + VERIFICATION_POINTS(f.verification)
       + IF corroborated(f, all) THEN 20 ELSE 0

\* A fresh agent per finding; one that cannot run says NEEDS_RUNTIME.  When all
\* have answered the findings are scored against each other.
Verify ==
  /\ stage = "verify"
  /\ IF Unverified = {}
       THEN /\ LET Scored(f) == IF f.score >= 0 THEN f
                                ELSE [f EXCEPT !.score = score_finding(f, AllFindings)]
               IN  outputs' = [i \in DOMAIN outputs |-> [outputs[i] EXCEPT !.findings =
                                 [k \in DOMAIN @ |-> Scored(@[k])]]]
            /\ stage' = "lead"
       ELSE LET p == CHOOSE q \in Unverified :
                       \A r \in Unverified : q[1] < r[1] \/ (q[1] = r[1] /\ q[2] <= r[2])
            IN  /\ \E v \in {"VERIFIED", "NOT_REPRODUCIBLE", "NEEDS_RUNTIME"} :
                     outputs' = [outputs EXCEPT ![p[1]].findings[p[2]].verification = v]
                /\ UNCHANGED stage
  /\ UNCHANGED <<mode, roster, result, voterVars>>

-----------------------------------------------------------------------------
(* The leader.                                                             *)

\* Unverified findings are filtered by confidence, the others by their score.
Kept(f) ==
  IF f.verification = "none"
    THEN f.confidence # "possible" \/ f.severity \in HIGH_SEVERITIES
    ELSE f.score >= (IF f.severity \in HIGH_SEVERITIES THEN Policy.high ELSE Policy.report)

Key(f) == <<f.file, f.line, f.title>>
Issue(f) == <<f.voter, f.title>>

TakeFirstSite(acc, f) ==
  IF Key(f) \in acc.seen THEN acc
  ELSE LET same == {k \in DOMAIN acc.kept : Issue(acc.kept[k]) = Issue(f)}
       IN  [seen |-> acc.seen \cup {Key(f)},
            kept |-> IF same = {} THEN Append(acc.kept, f)
                     ELSE [k \in DOMAIN acc.kept |->
                             IF k \in same /\ f.severity < acc.kept[k].severity
                               THEN [acc.kept[k] EXCEPT !.severity = f.severity]
                               ELSE acc.kept[k]]]

TakeFirstSeverity(acc, f) ==
  IF Key(f) \in acc.seen THEN acc
  ELSE LET same == {k \in DOMAIN acc.kept : Issue(acc.kept[k]) = Issue(f)}
       IN  [seen |-> acc.seen \cup {Key(f)},
            kept |-> IF same = {} THEN Append(acc.kept, f)
                     ELSE [k \in DOMAIN acc.kept |->
                             IF k \in same THEN [acc.kept[k] EXCEPT !.also_in = @ \cup {f.file}]
                                           ELSE acc.kept[k]]]

\* A finding at a place and under a title already seen is dropped; one more
\* site of an issue is folded into the first, at the worst severity of the two.
Take(acc, f) ==
  IF Key(f) \in acc.seen THEN acc
  ELSE LET same == {k \in DOMAIN acc.kept : Issue(acc.kept[k]) = Issue(f)}
           Fold(g) == [g EXCEPT !.also_in = @ \cup {f.file},
                                !.severity = IF f.severity < @ THEN f.severity ELSE @]
       IN  [seen |-> acc.seen \cup {Key(f)},
            kept |-> IF same = {} THEN Append(acc.kept, f)
                     ELSE [k \in DOMAIN acc.kept |->
                             IF k \in same THEN Fold(acc.kept[k]) ELSE acc.kept[k]]]

\* list.sort by severity, which keeps equals in their order.
BySeverity(fs) ==
  LET At(s) == Picked(fs, {k \in DOMAIN fs : fs[k].severity = s})
  IN  At(1) \o At(2) \o At(3) \o At(4) \o At(5)

Passing ==
  FlattenSeq([i \in DOMAIN outputs |->
    Picked(outputs[i].findings,
           {k \in DOMAIN outputs[i].findings : Kept(outputs[i].findings[k])})])
Folded(ps) ==
  LET upto[n \in 0..Len(ps)] ==
        IF n = 0 THEN [kept |-> <<>>, seen |-> {}] ELSE Take(upto[n - 1], ps[n])
  IN  upto[Len(ps)].kept

HowMany(statuses) == Cardinality({i \in DOMAIN outputs : outputs[i].status \in statuses})
Blocked == HowMany({"BLOCKED_TOOL_FAILURE", "BLOCKED_MISSING_CONTEXT",
                    "BLOCKED_REQUIREMENT_CONFLICT"})

\* The escalations in their order of priority, then what the findings say.
VerdictOf(kept) ==
  IF \E k \in DOMAIN kept : kept[k].hint = "P6" /\ kept[k].severity = CRITICAL
    THEN "ESCALATE_SECURITY_RISK"
  ELSE IF HowMany({"BLOCKED_TOOL_FAILURE"}) >= 3 THEN "ESCALATE_TOOL_FAILURE"
  ELSE IF HowMany({"BLOCKED_REQUIREMENT_CONFLICT"}) > 0 THEN "ESCALATE_REQUIREMENT_CONFLICT"
  ELSE IF Blocked >= 3 THEN "ESCALATE_MISSING_CONTEXT"
  ELSE IF (\E k \in DOMAIN kept : kept[k].severity \in ACTIONABLE) \/ Blocked = 2
    THEN "REQUEST_CHANGES"
  ELSE IF kept # <<>> THEN "APPROVE_WITH_NOTES" ELSE "APPROVE"

Lead ==
  /\ stage = "lead"
  /\ \E ps \in {Passing} : \E rows \in {Folded(ps)} : \E kept \in {BySeverity(rows)} :
       /\ result' = [verdict |-> VerdictOf(kept), findings |-> kept]
       /\ stage' = IF mode = "fast" \/ Len(kept) < 2 THEN "done" ELSE "merge"
  /\ UNCHANGED <<mode, roster, outputs, voterVars>>

\* Worse, or as bad and of no lower score: who comes first in its cluster.
Outranks(f, g) == f.severity < g.severity \/ (f.severity = g.severity /\ f.score >= g.score)

\* semantic_merge: a model's partition of the findings, here by the member that
\* represents each; any other answer leaves the report as it is.  Those left are
\* in order still.
Merge ==
  /\ stage = "merge"
  /\ LET fs == result.findings
     IN  \E rep \in [DOMAIN fs -> DOMAIN fs] :
           /\ \A k \in DOMAIN fs :
                rep[rep[k]] = rep[k] /\ (rep[k] = k \/ Outranks(fs[rep[k]], fs[k]))
           /\ result' = [result EXCEPT !.findings = Picked(fs, {k \in DOMAIN fs : rep[k] = k})]
  /\ stage' = "done"
  /\ UNCHANGED <<mode, roster, outputs, voterVars>>

PanelNext == RunTools \/ Ask \/ Reply \/ Collect \/ Verify \/ Lead \/ Merge

PanelSpec == PanelInit /\ [][PanelNext]_reviewVars

\* The review runs on; a model stops asking for tools it was not given.
FairSpec == PanelSpec /\ WF_reviewVars(PanelNext)

-----------------------------------------------------------------------------
Sites(f) == {f.file} \cup f.also_in
Clash(ps) == \E i, j \in DOMAIN ps :
               Key(ps[i]) = Key(ps[j]) /\ ps[i].severity # ps[j].severity
Reported == stage = "merge" \/ (stage = "done" /\ mode = "fast")

\* Every finding has the fields the leader reads, and while voters are asked
\* there is one to ask.
PanelTypeOK ==
  /\ stage \in {"tools", "vote", "verify", "lead", "merge", "done", "refused"}
  /\ mode \in {"fast", "standard"}
  /\ stage = "vote" => roster \in Seq(ToSet(Voters)) /\ roster # <<>>
  /\ skill \in Skills
  /\ at \in {"idle", "start", "ask", "forced", "done"}
  /\ provider \in {"own", "fallback"}
  /\ attempts \in Nat
  /\ turn \in [nudged: Nat, requote: Nat, reverdict: Nat, tools: Nat, foreign: Nat, paid: Nat]
  /\ output.status \in Statuses \cup {"none"} /\ output.findings \in Seq(Raised)
  /\ at = "done" => output.status # "none"
  /\ outputs \in Seq([status : Statuses, findings : Seq(Finding)])
  /\ result.findings \in Seq(Finding)

\* "the bound on paid round trips per attempt must hold" (voters/base.py:288):
\* whatever the model mixes, an attempt pays for at most an empty reply, the
\* two kinds of nudges, the budget and two last calls, besides the requests
\* the toolbox refuses.
RoundTripsAreBounded ==
  turn.paid - turn.foreign <= 1 + _MAX_REQUOTE_NUDGES + _MAX_REVERDICT_NUDGES
                              + (IF skill.tools THEN skill.tool_budget ELSE 0) + 1

\* "ONE ISSUE IS ONE FINDING" and "folding can never soften what blocks"
\* (leader.py:84-112): a clean verdict means that no finding that passed the
\* filter is actionable, and a report that asks for changes on its findings
\* still holds one to repair, merged or not - unless two voters gave the same
\* place and title different severities, where the first is kept.
VerdictMatchesReport ==
  stage \in {"merge", "done"} => \A ps \in {Passing} : ~Clash(ps) =>
    /\ result.verdict \in CLEAN => \A i \in DOMAIN ps : ps[i].severity \notin ACTIONABLE
    /\ result.verdict = "REQUEST_CHANGES" /\ Blocked # 2 =>
         \E k \in DOMAIN result.findings : result.findings[k].severity \in ACTIONABLE

Covered ==
  \A ps \in {Passing} : \A i \in DOMAIN ps : \E k \in DOMAIN result.findings :
    /\ result.findings[k].title = ps[i].title
    /\ ps[i].file \in Sites(result.findings[k])

\* "a folded finding must lose a row, never a fix target" (leader.py:107): the
\* report the leader writes names every file an issue was found in.
SitesSurviveFolding == Reported => Covered

\* "a folded finding loses no repair target: the fix pass is shown every site"
\* (state.py:119-120), whoever merged the findings on the way.
NoSiteIsLost == stage = "done" => Covered

\* Every voter answers, and the review comes to a verdict or is refused.
EveryReviewIsDecided == <>(stage \in {"done", "refused"})
=============================================================================

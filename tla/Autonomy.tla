------------------------------ MODULE Autonomy ------------------------------
(***************************************************************************)
(* The deployment review and what may act on it without a human: the       *)
(* checkpointed review graph (deploy/graph.py) writes a recommendation and *)
(* a row of the track record, a human marks the rows (deploy-outcome) and  *)
(* writes policy files, and two commands act only when their policy is     *)
(* armed and every condition holds (automation.py): deploy-execute runs    *)
(* the policy's command, automerge merges a reviewed pull request.         *)
(*                                                                         *)
(* The track record is one file that every writer loads and saves whole,   *)
(* without a lock; each such write is two steps here.  A review is run by  *)
(* the process that started it and by any server that starts while it has  *)
(* no final file: recover_deploy_reviews does not ask whether the first    *)
(* process is still alive.  A finding is its kind, a changed file the kind *)
(* of path it is, a policy file the fields its conditions read.            *)
(***************************************************************************)
EXTENDS Naturals, Sequences, FiniteSets

CONSTANTS
  Reviews,      \* deployment reviews
  Slots,        \* processes that may be at work on one review at once
  Starts,       \* what may be reviewed: [lint, branch, paths]
  Changes,      \* the pull requests with a finished code review, by what it says
  Panels,       \* what scoring may keep: [found: SUBSET Kinds, blocked: Nat]
  PolicyFiles,  \* the policy files a human may write
  Commands,     \* what they may ask deploy-execute to run
  Lagging,      \* TRUE: a checkpoint may still be unwritten when the next node runs
  MaxDay,       \* bound
  Limits        \* bounds: how often each of Events may happen, a set of choices

\* Overlaps are recoveries of a review that has a process alive.
Events == {"starts", "crashes", "overlaps", "marks", "edits", "commands"}
Kinds == {"policy", "migration", "risk", "minor"}
DeployVerdict == {"PROMOTE", "HOLD_FOR_HUMAN", "ESCALATE_DEPLOY_RISK",
                  "ESCALATE_MIGRATION_DESTRUCTIVE", "ESCALATE_POLICY_VIOLATION"}
Outcomes == {"correct", "incorrect"}
\* A path ALWAYS_HUMAN_PATHS names (a Dockerfile is deploy-relevant, a chart is
\* not), one the policy's exclude_paths names, and any other.
PathKinds == {"dockerfile", "chart", "excluded", "plain"}
ALWAYS_HUMAN_PATHS == {"dockerfile", "chart"}
AutomationPolicy == [present: BOOLEAN, enabled: BOOLEAN, sound: BOOLEAN,
                     expires: Nat, needed: Nat, gate: BOOLEAN,
                     excludes: SUBSET PathKinds, command: Commands \cup {"none"}]

Absent == [present |-> FALSE, enabled |-> FALSE, sound |-> FALSE, expires |-> 0, needed |-> 0,
           gate |-> TRUE, excludes |-> {}, command |-> "none"]

Facts == [lint: BOOLEAN, branch: {"main", "none"}, paths: SUBSET PathKinds]

\* What the final file of a code review says.  Only a review that was not
\* escalated reaches the test gate; the issue of one that was may have failed.
FinishedReview == {c \in [verdict: {"APPROVE", "REQUEST_CHANGES"}, escalated: BOOLEAN,
                          issue: BOOLEAN, test: {"passed", "failed", "none"},
                          paths: SUBSET PathKinds] :
                     /\ c.issue => c.escalated
                     /\ c.escalated => c.test = "none"
                     /\ c.test = "failed" => c.verdict = "REQUEST_CHANGES"}

ASSUME AutonomyAssumption ==
  /\ PolicyFiles \subseteq AutomationPolicy
  /\ Starts \subseteq Facts
  /\ Changes \subseteq FinishedReview
  /\ Panels \subseteq [found: SUBSET Kinds, blocked: Nat]
  /\ Lagging \in BOOLEAN
  /\ MaxDay \in Nat
  /\ Limits \subseteq [Events -> Nat]

VARIABLES
  \* one process at work on a deployment review, per review and slot
  pc,        \* where it is: built, input, the node it runs, final, or "none"
  kept,      \* what its score node kept
  copy,      \* the track record as its record_review loaded it
  \* one deployment review, per id
  facts,     \* what its start fixed: lint_only, branch, changed paths
  stored,    \* its last stored checkpoint: the node that comes next, what was kept
  final,     \* the verdict in the last NN-final.yaml, or "none"
  \* files and commands
  records,   \* deploy-track-record.yaml
  policies,  \* deploy-exec-policy.yaml and automerge-policy.yaml
  log,       \* automation-log.jsonl
  mark,      \* a deploy-outcome command between its load and its save
  cmd,       \* the deploy-execute or automerge command that is running
  day,       \* today
  \* bounds and history
  left,      \* how many of each of the bounded events may still happen
  said,      \* the outcome the human last saved for a review
  raced,     \* two writers of the track record overlapped
  keeps,     \* all that the scorings of a review have kept
  acted      \* the deploys executed and merges done, with what justified them

reviewVars == <<pc, kept, copy, facts, stored, final, keeps>>
vars == <<reviewVars, records, policies, log, mark, cmd, day, left, said, raced,
          acted>>

Idle == [at |-> "idle"]
Nothing == [found |-> {}, blocked |-> 0]
NoFacts == [lint |-> FALSE, branch |-> "none", paths |-> {}]
Procs == Reviews \X Slots
Alive(p) == pc[p] # "none"
OthersAlive(p) == \E q \in Procs : q[1] = p[1] /\ q # p /\ Alive(q)
Exit(p) == /\ pc' = [pc EXCEPT ![p] = "none"]
           /\ kept' = [kept EXCEPT ![p] = Nothing]
           /\ copy' = [copy EXCEPT ![p] = <<>>]
Spend(what) == left[what] > 0 /\ left' = [left EXCEPT ![what] = @ - 1]

-----------------------------------------------------------------------------
(* The recommendation and the track record.                                *)

\* What each kind of finding asks for, the gravest first.
decide(k) ==
  IF "policy" \in k.found THEN "ESCALATE_POLICY_VIOLATION"
  ELSE IF "migration" \in k.found THEN "ESCALATE_MIGRATION_DESTRUCTIVE"
  ELSE IF "risk" \in k.found THEN "ESCALATE_DEPLOY_RISK"
  ELSE IF k.found # {} \/ k.blocked >= 2 THEN "HOLD_FOR_HUMAN"
  ELSE "PROMOTE"

\* Mutated: whatever run it is.
VerdictOfAnyRun(r, k) == decide(k)

\* A degraded run held no vote: it never recommends promotion.
Verdict(r, k) ==
  LET v == decide(k)
  IN  IF facts[r].lint /\ v = "PROMOTE" THEN "HOLD_FOR_HUMAN" ELSE v

IsLastRecorded(r) == records # <<>> /\ records[Len(records)].id = r
IsRecorded(r) == \E i \in DOMAIN records : records[i].id = r

\* The marked PROMOTE rows.
Marked == {i \in DOMAIN records : records[i].verdict = "PROMOTE" /\ records[i].outcome # "none"}

StreakOfAll == Cardinality({i \in Marked : records[i].outcome = "correct"})

\* readiness: how many of them, from the last one back, are "correct" in a row.
Streak ==
  Cardinality({i \in Marked : \A j \in Marked : j >= i => records[j].outcome = "correct"})

\* Another writer is between its load and its save.
Writing == mark.at = "save" \/ \E p \in Procs : pc[p] = "save"

-----------------------------------------------------------------------------
(* One deployment review, and the processes at work on it.                 *)

Init ==
  /\ pc = [p \in Procs |-> "none"]
  /\ kept = [p \in Procs |-> Nothing]
  /\ copy = [p \in Procs |-> <<>>]
  /\ facts = [r \in Reviews |-> NoFacts]
  /\ stored = [r \in Reviews |-> [next |-> "unstarted", kept |-> Nothing]]
  /\ final = [r \in Reviews |-> "none"]
  /\ keeps = [r \in Reviews |-> {}]
  /\ records = <<>> /\ log = <<>> /\ acted = <<>>
  /\ policies = [k \in {"deploy", "merge"} |-> Absent]
  /\ mark = Idle /\ cmd = Idle
  /\ day = 0
  /\ left \in Limits
  /\ said = [r \in Reviews |-> "none"]
  /\ raced = FALSE

outside == <<policies, log, mark, cmd, day, said, acted>>

\* build_deploy_graph makes the directory; resolve_branch may find no branch.
StartReview(p) ==
  /\ stored[p[1]].next = "unstarted"
  /\ Spend("starts")
  /\ \E f \in Starts : facts' = [facts EXCEPT ![p[1]] = f]
  /\ stored' = [stored EXCEPT ![p[1]].next = "nothing"]
  /\ pc' = [pc EXCEPT ![p] = "built"]
  /\ UNCHANGED <<kept, copy, final, keeps, records, raced, outside>>

\* meta.yaml, without which no recovery finds the run.
WriteMeta(p) ==
  /\ pc[p] = "built"
  /\ pc' = [pc EXCEPT ![p] = "input"]
  /\ UNCHANGED <<kept, copy, facts, stored, final, keeps, records, left, raced, outside>>

\* A super-step ends: its checkpoint is stored, or still on its way.  Two
\* processes of a review store under one thread id; the last one stored counts.
Checkpoint(r, next, k) ==
  \/ stored' = [stored EXCEPT ![r] = [next |-> next, kept |-> k]]
  \/ Lagging /\ UNCHANGED stored

\* The input, the probes and the vote: what they return is not kept apart.
Node(p, at, next) ==
  /\ pc[p] = at
  /\ pc' = [pc EXCEPT ![p] = next]
  /\ Checkpoint(p[1], next, kept[p])
  /\ UNCHANGED <<kept, copy, facts, final, keeps, records, left, raced, outside>>

ProbesAndVote(p) ==
  Node(p, "input", "probes") \/ Node(p, "probes", "vote") \/ Node(p, "vote", "score")

\* Verification asks models, so that a second run may keep something else; a
\* degraded run keeps the deterministic findings and counts no blocked voter.
ScoreNode(p) ==
  /\ pc[p] = "score"
  /\ pc' = [pc EXCEPT ![p] = "finalize"]
  /\ \E panel \in Panels :
       LET k == IF facts[p[1]].lint THEN [panel EXCEPT !.blocked = 0] ELSE panel
       IN  /\ kept' = [kept EXCEPT ![p] = k]
           /\ keeps' = [keeps EXCEPT ![p[1]] = @ \cup {k}]
           /\ Checkpoint(p[1], "finalize", k)
  /\ UNCHANGED <<copy, facts, final, records, left, raced, outside>>

\* record_review's load: a degraded run is not recorded, an id only once.
RecordLoad(p) ==
  /\ pc[p] = "finalize"
  /\ IF facts[p[1]].lint \/ IsRecorded(p[1])
       THEN pc' = [pc EXCEPT ![p] = "final"] /\ UNCHANGED <<copy, raced>>
       ELSE /\ pc' = [pc EXCEPT ![p] = "save"]
            /\ copy' = [copy EXCEPT ![p] = records]
            /\ raced' = (raced \/ Writing)
  /\ UNCHANGED <<kept, facts, stored, final, keeps, records, left, outside>>

RecordSave(p) ==
  /\ pc[p] = "save"
  /\ records' = Append(copy[p], [id |-> p[1], verdict |-> Verdict(p[1], kept[p]),
                                 outcome |-> "none"])
  /\ pc' = [pc EXCEPT ![p] = "final"]
  /\ copy' = [copy EXCEPT ![p] = <<>>]
  /\ UNCHANGED <<kept, facts, stored, final, keeps, left, raced, outside>>

\* The final file; where another process wrote one, either may bear the higher
\* number, and be the one that is read.
WriteFinal(p) ==
  /\ pc[p] = "final"
  /\ \/ final' = [final EXCEPT ![p[1]] = Verdict(p[1], kept[p])]
     \/ final[p[1]] # "none" /\ UNCHANGED final
  /\ Checkpoint(p[1], "done", kept[p])
  /\ Exit(p)
  /\ UNCHANGED <<facts, keeps, records, left, raced, outside>>

Crash(p) ==
  /\ Alive(p)
  /\ Spend("crashes")
  /\ Exit(p)
  /\ UNCHANGED <<facts, stored, final, keeps, records, raced, outside>>

\* recover_deploy_reviews, at a server's start: meta.yaml, a stored checkpoint and
\* no final file, whether or not a process is still at work on the review.
RecoverCheck(p) ==
  /\ ~ Alive(p)
  /\ final[p[1]] = "none" /\ stored[p[1]].next \notin {"unstarted", "nothing"}
  /\ IF OthersAlive(p) THEN Spend("overlaps") ELSE UNCHANGED left
  /\ pc' = [pc EXCEPT ![p] = "check"]
  /\ UNCHANGED <<kept, copy, facts, stored, final, keeps, records, raced, outside>>

\* It goes on from the checkpoint that is then the last one, if a node is left.
RecoverLoad(p) ==
  /\ pc[p] = "check"
  /\ IF stored[p[1]].next = "done" THEN Exit(p)
     ELSE /\ pc' = [pc EXCEPT ![p] = stored[p[1]].next]
          /\ kept' = [kept EXCEPT ![p] = stored[p[1]].kept]
          /\ UNCHANGED copy
  /\ UNCHANGED <<facts, stored, final, keeps, records, left, raced, outside>>

-----------------------------------------------------------------------------
(* The human: marks, policy files, and the date.                           *)

MarkLoad(r, o) ==
  /\ mark = Idle
  /\ IsRecorded(r)
  /\ Spend("marks")
  /\ mark' = [at |-> "save", id |-> r, outcome |-> o, copy |-> records]
  /\ raced' = (raced \/ Writing)
  /\ UNCHANGED <<reviewVars, records, policies, log, cmd, day, said, acted>>

MarkSave ==
  /\ mark.at = "save"
  /\ records' = [i \in DOMAIN mark.copy |->
       IF mark.copy[i].id = mark.id THEN [mark.copy[i] EXCEPT !.outcome = mark.outcome]
                                    ELSE mark.copy[i]]
  /\ said' = [said EXCEPT ![mark.id] = mark.outcome]
  /\ mark' = Idle
  /\ UNCHANGED <<reviewVars, policies, log, cmd, day, left, raced, acted>>

EditPolicy(k, p) ==
  /\ policies[k] # p
  /\ Spend("edits")
  /\ policies' = [policies EXCEPT ![k] = p]
  /\ cmd' = IF cmd = Idle THEN cmd ELSE [cmd EXCEPT !.edited = TRUE]
  /\ UNCHANGED <<reviewVars, records, log, mark, day, said, raced, acted>>

Tick ==
  /\ day < MaxDay
  /\ day' = day + 1
  /\ UNCHANGED <<reviewVars, records, policies, log, mark, cmd, left, said, raced,
                 acted>>

-----------------------------------------------------------------------------
(* The commands that act.                                                  *)

LoadedOnce(p) ==
  IF ~p.present \/ ~p.enabled THEN "disarmed" ELSE IF p.sound THEN "armed" ELSE "error"

\* load_policy: an absent or disabled file disarms, one that is armed but
\* patterned, unattributed, unbounded, expired or unearned is an error.
Loaded(p) ==
  IF ~p.present \/ ~p.enabled THEN "disarmed"
  ELSE IF p.sound /\ p.expires >= day /\ p.needed >= 1 THEN "armed" ELSE "error"

Blocked(files, p) == files \cap (ALWAYS_HUMAN_PATHS \cup p.excludes)

\* What evaluate_deploy holds against a finished deployment review, given the
\* deploy-relevant files (its paths without the ones no deploy pattern names).
deploy_files(r) == facts[r].paths \cap {"dockerfile"}

DeployRefused(r, verdict, p) ==
  \/ p.command = "none"
  \/ verdict # "PROMOTE"
  \/ facts[r].branch # "main"
  \/ Blocked(deploy_files(r), p) # {}
  \/ Streak < p.needed

\* automerge looks for the changed files under a key the final file of a
\* review does not have.
changed_files(c) == {}

MergeRefused(c, branch, p) ==
  \/ c.verdict # "APPROVE"
  \/ c.issue
  \/ branch # "main"
  \/ p.gate /\ c.test # "passed"
  \/ Blocked(changed_files(c), p) # {}
  \/ Streak < p.needed

\* By what the human said, the latest n recorded promotions were right.
Deserved(n) ==
  LET judged == {i \in DOMAIN records :
                   records[i].verdict = "PROMOTE" /\ said[records[i].id] # "none"}
  IN  \E right \in SUBSET judged :
        /\ Cardinality(right) >= n
        /\ \A i \in right, j \in judged : j >= i => said[records[j].id] = "correct"

Entry(kind, allowed) == [kind |-> kind, allowed |-> allowed]
Justified(p) == [policy |-> p, on |-> day, deserved |-> Deserved(p.needed), raced |-> raced]

\* deploy-execute reads the final file and loads the policy: the verdict it judges
\* and the command it will run come from here.
DeployLoad(r) ==
  /\ cmd = Idle
  /\ final[r] # "none"
  /\ Spend("commands")
  /\ cmd' = IF Loaded(policies["deploy"]) = "error" THEN Idle
            ELSE [at |-> "evaluate", kind |-> "deploy", id |-> r, verdict |-> final[r],
                  edited |-> FALSE, argv |-> policies["deploy"].command]
  /\ UNCHANGED <<reviewVars, records, policies, log, mark, day, said, raced, acted>>

\* An evaluation ends: on an error nothing is written, a refusal is logged, a
\* dry run stops, otherwise the command goes on to act.
Evaluated(kind, p, refused, go) ==
  \/ Loaded(p) = "error" /\ cmd' = Idle /\ UNCHANGED log
  \/ /\ Loaded(p) = "disarmed" \/ (Loaded(p) = "armed" /\ refused)
     /\ cmd' = Idle /\ log' = Append(log, Entry(kind, FALSE))
  \/ Loaded(p) = "armed" /\ ~refused /\ cmd' \in {Idle, go} /\ UNCHANGED log

\* evaluate_deploy loads the policy a second time.
DeployEvaluate ==
  /\ cmd.at = "evaluate"
  /\ LET p == policies["deploy"]
     IN  Evaluated("deploy", p, DeployRefused(cmd.id, cmd.verdict, p),
                   [at |-> "act", kind |-> "deploy", id |-> cmd.id, edited |-> cmd.edited,
                    argv |-> cmd.argv, why |-> Justified(p)])
  /\ UNCHANGED <<reviewVars, records, policies, mark, day, left, said, raced, acted>>

\* automerge asks the forge for the branch and evaluates in one load.
MergeEvaluate(c) ==
  /\ cmd = Idle
  /\ Spend("commands")
  /\ \E branch \in {"main", "none"} :
       LET p == policies["merge"]
       IN  Evaluated("merge", p, MergeRefused(c, branch, p),
                     [at |-> "act", kind |-> "merge", id |-> c, edited |-> FALSE,
                      argv |-> "merge", why |-> Justified(p)])
  /\ UNCHANGED <<reviewVars, records, policies, mark, day, said, raced, acted>>

\* The forge merges, or the policy's command runs: it exits, or it outlives its
\* timeout and the exception leaves no record.
Act ==
  /\ cmd.at = "act"
  /\ acted' = Append(acted, cmd)
  /\ \/ cmd' = [cmd EXCEPT !.at = "log"]
     \/ cmd.kind = "deploy" /\ cmd' = Idle
  /\ UNCHANGED <<reviewVars, records, policies, log, mark, day, left, said, raced>>

Record ==
  /\ cmd.at = "log"
  /\ log' = Append(log, Entry(cmd.kind, TRUE))
  /\ cmd' = Idle
  /\ UNCHANGED <<reviewVars, records, policies, mark, day, left, said, raced, acted>>

Killed ==
  /\ cmd # Idle
  /\ Spend("crashes")
  /\ cmd' = Idle
  /\ UNCHANGED <<reviewVars, records, policies, log, mark, day, said, raced, acted>>

-----------------------------------------------------------------------------
ReviewStep(p) ==
  \/ StartReview(p) \/ WriteMeta(p) \/ ProbesAndVote(p) \/ ScoreNode(p)
  \/ RecordLoad(p) \/ RecordSave(p) \/ WriteFinal(p)

Next ==
  \/ \E p \in Procs : ReviewStep(p) \/ Crash(p) \/ RecoverCheck(p) \/ RecoverLoad(p)
  \/ \E r \in Reviews : DeployLoad(r) \/ \E o \in Outcomes : MarkLoad(r, o)
  \/ MarkSave \/ DeployEvaluate \/ Act \/ Record \/ Killed \/ Tick
  \/ \E c \in Changes : MergeEvaluate(c)
  \/ \E k \in {"deploy", "merge"}, p \in PolicyFiles : EditPolicy(k, p)

Spec == Init /\ [][Next]_vars

-----------------------------------------------------------------------------
Row == [id: Reviews, verdict: DeployVerdict, outcome: Outcomes \cup {"none"}]
Reason == [policy: AutomationPolicy, on: 0..MaxDay, deserved: BOOLEAN, raced: BOOLEAN]
Argv == Commands \cup {"none", "merge"}
Acting == [at: {"act", "log"}, kind: {"deploy", "merge"}, id: Reviews \cup Changes,
           edited: BOOLEAN, argv: Argv, why: Reason]

\* Every file, every process and every command has its type: the shapes
\* deploy/graph.py, track_record.py and automation.py read back.
TypeOK ==
  /\ pc \in [Procs -> {"none", "built", "input", "probes", "vote", "score", "finalize",
                        "save", "final", "check"}]
  /\ kept \in [Procs -> [found: SUBSET Kinds, blocked: Nat]]
  /\ copy \in [Procs -> Seq(Row)]
  /\ facts \in [Reviews -> Facts]
  /\ stored \in [Reviews -> [next: {"unstarted", "nothing", "probes", "vote", "score", "finalize", "done"},
                             kept: [found: SUBSET Kinds, blocked: Nat]]]
  /\ final \in [Reviews -> DeployVerdict \cup {"none"}]
  /\ keeps \in [Reviews -> SUBSET [found: SUBSET Kinds, blocked: Nat]]
  /\ records \in Seq(Row)
  /\ policies \in [{"deploy", "merge"} -> AutomationPolicy]
  /\ log \in Seq([kind: {"deploy", "merge"}, allowed: BOOLEAN])
  /\ mark \in {Idle} \cup [at: {"save"}, id: Reviews, outcome: Outcomes, copy: Seq(Row)]
  /\ cmd \in {Idle} \cup Acting
       \cup [at: {"evaluate"}, kind: {"deploy"}, id: Reviews, verdict: DeployVerdict,
             edited: BOOLEAN, argv: Argv]
  /\ day \in 0..MaxDay
  /\ left \in [Events -> Nat]
  /\ said \in [Reviews -> Outcomes \cup {"none"}]
  /\ raced \in BOOLEAN
  /\ acted \in Seq(Acting)

\* As long as no two writers overlapped, the track record holds every finished
\* promotion-capable review once, with the outcome the human last gave it, however
\* many processes ran it: track_record.py:35-56 never loses a mark of its own accord.
MarksSurvive ==
  ~raced =>
    /\ \A i \in DOMAIN records : records[i].outcome = said[records[i].id]
    /\ \A i, j \in DOMAIN records : records[i].id = records[j].id => i = j
    /\ \A r \in Reviews : final[r] # "none" /\ ~facts[r].lint => IsRecorded(r)

\* A review was scored once, or every scoring of it kept the same.
ScoredAlike(r) == \A a, b \in keeps[r] : a = b

\* A degraded run never promotes and never feeds the track record, and a review
\* whose scorings agree is recorded with the verdict its final file shows
\* (deploy/graph.py:208-224), also when a recovery ran it beside its own process:
\* the human marks what was recommended.
RecordMatchesFinal ==
  \A r \in Reviews :
    /\ facts[r].lint => final[r] # "PROMOTE" /\ ~IsRecorded(r)
    /\ final[r] # "none" /\ ScoredAlike(r) =>
         \A i \in DOMAIN records : records[i].id = r => records[i].verdict = final[r]

\* "Earned, not asserted" (automation.py:25): whatever crashes, marks and
\* re-marks came before, an action happens only after as many of the human's
\* latest judgements in a row as the policy asks for were "correct".
TrustIsEarned ==
  \A i \in DOMAIN acted : acted[i].why.deserved \/ acted[i].why.raced

\* A deploy runs, and a pull request is merged, only on what a human may still
\* read as a go (automation.py:28-31): a policy in force that day, the approval or
\* promotion in the final file, the tests the policy asks for.  A promotion stands
\* there for good unless the review was scored again with another outcome.  The
\* argv that runs is the evaluated policy's, although it was read in an earlier
\* load, unless a policy file changed in between.
ActionsStandOnRecord ==
  \A i \in DOMAIN acted :
    LET a == acted[i]
        p == a.why.policy
    IN  /\ p.enabled /\ p.sound /\ p.expires >= a.why.on
        /\ a.kind = "deploy" => /\ ScoredAlike(a.id) => final[a.id] = "PROMOTE"
                                /\ ~facts[a.id].lint
                                /\ a.edited \/ a.argv = p.command
        /\ a.kind = "merge" => /\ a.id.verdict = "APPROVE"
                               /\ p.gate => a.id.test = "passed"
                               /\ a.id.escalated => ~a.id.issue

\* "Run the deploy command [...] only on a PROMOTE" (cli.py, deploy-execute): the
\* final file of what was deployed says so.
DeploysStandOnPromote ==
  \A i \in DOMAIN acted : acted[i].kind = "deploy" => final[acted[i].id] = "PROMOTE"

\* "Paths whose change always demands a human, whatever the policy says"
\* (automation.py:51).
HumanPathsNeedAHuman ==
  \A i \in DOMAIN acted :
    (IF acted[i].kind = "merge" THEN acted[i].id.paths ELSE facts[acted[i].id].paths)
      \cap ALWAYS_HUMAN_PATHS = {}
=============================================================================

------------------------------ MODULE ReviewGraph ------------------------------
(***************************************************************************)
(* One code review: the checkpointed graph of orchestrator/graph.py, the   *)
(* YAML mirror it leaves on disk, and the processes that run it -- the     *)
(* `avs review` worker that starts it, `avs recover` (and the recovery     *)
(* thread of `avs serve`) that continues it after a crash, and             *)
(* `avs resume` that carries a human's decision to the paused graph.       *)
(*                                                                         *)
(* A node runs in a process, writes its mirror file, and hands its result  *)
(* to the checkpointer, which stores it in the background: a crash can     *)
(* therefore lose up to MaxLag + 1 results whose side effects have already *)
(* happened.  Nodes with side effects outside the process (escalate, post) *)
(* are split at those effects, so that a crash can fall between them.      *)
(***************************************************************************)
EXTENDS Naturals, Sequences, FiniteSets

None == "none"
Clean == {"APPROVE", "APPROVE_WITH_NOTES"}
\* "ESCALATE" stands for the five ESCALATE_ verdicts, which the graph treats alike.
Verdicts == Clean \cup {"REQUEST_CHANGES", "ESCALATE"}
\* What the human types: "ack", an override naming a verdict (that verdict here),
\* or an override that names no verdict.
Decisions == {"ack", "override:garbage"} \cup Verdicts
Modes == {"fast", "standard"}
Reports == {"clear", "blocks", "skipped"}

CONSTANTS
  Procs,       \* processes that may work on this review
  Panels,      \* verdicts the voters' outputs may amount to
  Answers,     \* decisions a human may type
  MaxLag,      \* bound: results still on their way to disk when a node starts
  MaxCrashes,  \* bound: processes that crash
  MaxAnswers,  \* bound: `avs resume` calls
  MaxOverlaps  \* bound: processes that start while another runs the review

ASSUME ReviewAssumption ==
  /\ Panels \subseteq Verdicts /\ Answers \subseteq Decisions
  /\ MaxLag \in Nat /\ MaxCrashes \in Nat /\ MaxAnswers \in Nat
  /\ MaxOverlaps \in Nat

VARIABLES
  meta,      \* meta.yaml exists
  ckpt,      \* the newest stored checkpoint: next node, state, interrupted or not
  files,     \* mirror files <<step, node>> on disk
  writes,    \* mirror writes ever made
  issues,    \* issues opened on the forge
  comments,  \* what was ever posted on the pull request
  finals,    \* what "final" mirror files were ever given
  logs,      \* times the voter logs were appended to
  at,        \* what each process does next
  st,        \* the graph state each process works on
  count,     \* each process's mirror step counter
  unsaved,   \* results each process has not stored yet, oldest first
  answer,    \* the decision a resuming process brings
  crashes, answers, overlaps

disk == <<meta, ckpt, files, writes, finals, logs>>
forge == <<issues, comments>>
procs == <<at, st, count, unsaved, answer>>
tally == <<crashes, answers, overlaps>>
vars == <<disk, forge, procs, tally>>

Nodes == {"dor_gate", "init", "analyze", "tools", "vote", "verify", "leader",
          "escalate", "hitl", "test_gate", "post"}
\* Inside escalate after the issue, inside post after the logs and the comment.
Midway == {"issued", "logged", "commented"}
Places == Nodes \cup Midway \cup {"idle", "end"}

\* The graph state.  panel is the verdict the voters' outputs amount to.
GraphState == [dor : {None, "pass", "fail"}, mode : Modes \cup {None},
               panel : Verdicts \cup {None}, leader : Verdicts \cup {None},
               report : Reports \cup {None}, issue : BOOLEAN,
               decision : Decisions \cup {None}]
Fresh == [dor |-> None, mode |-> None, panel |-> None, leader |-> None,
          report |-> None, issue |-> FALSE, decision |-> None]

Checkpoint == [next : Nodes \cup {"end"}, st : GraphState]
NoCheckpoint == [next |-> "nowhere", st |-> Fresh, paused |-> FALSE]
Stored == [next : Nodes \cup {"end"}, st : GraphState, paused : BOOLEAN]
          \cup {NoCheckpoint}

\* What a comment or a final file says: the state it was made from.
Says(s) == [verdict |-> s.leader, from |-> s]
Posting == [verdict : Verdicts, from : GraphState]

TypeOK ==
  /\ meta \in BOOLEAN
  /\ ckpt \in Stored
  /\ files \subseteq (Nat \X (Nodes \cup {"dor_fail", "final"}))
  /\ writes \in Nat /\ issues \in Nat /\ logs \in Nat
  /\ comments \subseteq Posting
  /\ finals \subseteq Posting
  /\ at \in [Procs -> Places]
  /\ st \in [Procs -> GraphState]
  /\ count \in [Procs -> Nat]
  /\ unsaved \in [Procs -> Seq(Checkpoint)]
  /\ answer \in [Procs -> Decisions \cup {None}]
  /\ crashes \in 0 .. MaxCrashes /\ answers \in 0 .. MaxAnswers
  /\ overlaps \in 0 .. MaxOverlaps

Init ==
  /\ meta = FALSE /\ ckpt = NoCheckpoint
  /\ files = {} /\ writes = 0 /\ finals = {} /\ logs = 0
  /\ issues = 0 /\ comments = {}
  /\ at = [p \in Procs |-> "idle"]
  /\ st = [p \in Procs |-> Fresh]
  /\ count = [p \in Procs |-> 0]
  /\ unsaved = [p \in Procs |-> <<>>]
  /\ answer = [p \in Procs |-> None]
  /\ crashes = 0 /\ answers = 0 /\ overlaps = 0

-----------------------------------------------------------------------------
(* What nodes and processes have in common.                                *)

\* p is to run this node, and few enough of its results are still unstored.
At(p, node) == at[p] = node /\ Len(unsaved[p]) <= MaxLag

\* p's node returned: its result goes to the checkpointer, p turns to the next.
Returns(p, next, s) ==
  /\ at' = [at EXCEPT ![p] = next]
  /\ st' = [st EXCEPT ![p] = s]
  /\ unsaved' = [unsaved EXCEPT ![p] = Append(@, [next |-> next, st |-> s])]

\* YamlMirror.write: the file is named by the process's own counter.
Mirrors(p, name) ==
  /\ count' = [count EXCEPT ![p] = @ + 1]
  /\ files' = files \cup {<<count[p] + 1, name>>}
  /\ writes' = writes + 1

\* A mirrored node that changes nothing outside the process.
Runs(p, node, next, s) ==
  /\ Mirrors(p, node)
  /\ Returns(p, next, s)
  /\ UNCHANGED <<meta, ckpt, finals, logs, forge, answer, tally>>

\* p is gone; what it had not stored is lost.
Leaves(p) ==
  /\ at' = [at EXCEPT ![p] = "idle"]
  /\ st' = [st EXCEPT ![p] = Fresh]
  /\ count' = [count EXCEPT ![p] = 0]
  /\ unsaved' = [unsaved EXCEPT ![p] = <<>>]
  /\ answer' = [answer EXCEPT ![p] = None]

\* Nothing keeps a second process off a review that is running.
Free(p) ==
  /\ at[p] = "idle"
  /\ IF \A q \in Procs : at[q] = "idle"
     THEN UNCHANGED overlaps
     ELSE overlaps < MaxOverlaps /\ overlaps' = overlaps + 1

\* Mutated: every process numbers its mirror files from one.
EntersAtZero(p, node, s, decision) ==
  /\ at' = [at EXCEPT ![p] = node]
  /\ st' = [st EXCEPT ![p] = s]
  /\ count' = [count EXCEPT ![p] = 0]
  /\ answer' = [answer EXCEPT ![p] = decision]

\* p opens the graph at a node: its mirror continues after the files it finds.
Enters(p, node, s, decision) ==
  /\ at' = [at EXCEPT ![p] = node]
  /\ st' = [st EXCEPT ![p] = s]
  /\ count' = [count EXCEPT ![p] = Cardinality(files)]
  /\ answer' = [answer EXCEPT ![p] = decision]

HasFinal == \E f \in files : f[2] = "final"

-----------------------------------------------------------------------------
(* The processes.                                                          *)

\* run_review: meta.yaml, then the graph from its entry point.
StartReview(p) ==
  /\ Free(p) /\ ~ meta
  /\ meta' = TRUE
  /\ Enters(p, "dor_gate", Fresh, None)
  /\ unsaved' = [unsaved EXCEPT ![p] = <<[next |-> "dor_gate", st |-> Fresh]>>]
  /\ UNCHANGED <<ckpt, files, writes, finals, logs, forge, crashes, answers>>

\* Mutated: a review that has a verdict is taken for finished.
RecoverUndecided(p) ==
  /\ Free(p) /\ meta /\ ~ HasFinal
  /\ ckpt.next \in Nodes /\ ~ ckpt.paused /\ ckpt.st.leader = None
  /\ Enters(p, ckpt.next, ckpt.st, None)
  /\ UNCHANGED <<disk, forge, unsaved, crashes, answers>>

\* recover_reviews, for this review: not without a stored checkpoint, not when
\* it waits for a human, not when it has a final file.
Recover(p) ==
  /\ Free(p) /\ meta /\ ~ HasFinal
  /\ ckpt.next \in Nodes /\ ~ ckpt.paused
  /\ Enters(p, ckpt.next, ckpt.st, None)
  /\ UNCHANGED <<disk, forge, unsaved, crashes, answers>>

\* Mutated: escalate and hitl are one node, so a resume runs both again.
ResumeFromEscalate(p) ==
  /\ Free(p) /\ meta /\ answers < MaxAnswers
  /\ ckpt.next \in Nodes
  /\ \E d \in Answers :
       Enters(p, IF ckpt.next = "hitl" THEN "escalate" ELSE ckpt.next, ckpt.st, d)
  /\ answers' = answers + 1
  /\ UNCHANGED <<disk, forge, unsaved, crashes>>

\* resume_review: the decision reaches the graph only if it stands at hitl;
\* elsewhere the graph just continues.
Resume(p) ==
  /\ Free(p) /\ meta /\ answers < MaxAnswers
  /\ ckpt.next \in Nodes
  /\ \E d \in Answers :
       Enters(p, ckpt.next, ckpt.st, IF ckpt.next = "hitl" THEN d ELSE None)
  /\ answers' = answers + 1
  /\ UNCHANGED <<disk, forge, unsaved, crashes>>

\* The checkpointer stores p's oldest unsaved result.
Persist(p) ==
  /\ unsaved[p] # <<>>
  /\ ckpt' = [next |-> Head(unsaved[p]).next, st |-> Head(unsaved[p]).st,
              paused |-> FALSE]
  /\ unsaved' = [unsaved EXCEPT ![p] = Tail(@)]
  /\ UNCHANGED <<meta, files, writes, finals, logs, forge, at, st, count, answer,
                 tally>>

\* A process is killed, or a node raises (every voter failed its fixture gate,
\* a policy file is invalid, a write fails).
Crash(p) ==
  /\ at[p] # "idle" /\ crashes < MaxCrashes
  /\ crashes' = crashes + 1
  /\ Leaves(p)
  /\ UNCHANGED <<disk, forge, answers, overlaps>>

\* The graph reached END and everything is stored: the process exits.
Finish(p) ==
  /\ at[p] = "end" /\ unsaved[p] = <<>>
  /\ Leaves(p)
  /\ UNCHANGED <<disk, forge, tally>>

-----------------------------------------------------------------------------
(* The nodes.                                                              *)

DorGate(p) ==
  /\ At(p, "dor_gate")
  /\ \E r \in {"pass", "fail"} :
       Runs(p, "dor_gate", IF r = "pass" THEN "init" ELSE "post",
            [st[p] EXCEPT !.dor = r])

InitNode(p) == At(p, "init") /\ Runs(p, "init", "analyze", st[p])

Analyze(p) ==
  /\ At(p, "analyze")
  /\ \E m \in Modes : Runs(p, "analyze", "tools", [st[p] EXCEPT !.mode = m])

Tools(p) == At(p, "tools") /\ Runs(p, "tools", "vote", st[p])

\* The models answer: the outputs amount to any verdict.
Vote(p) ==
  /\ At(p, "vote")
  /\ \E v \in Panels : Runs(p, "vote", "verify", [st[p] EXCEPT !.panel = v])

\* Verification re-scores the findings, except in fast mode.
Verify(p) ==
  /\ At(p, "verify")
  /\ \E v \in IF st[p].mode = "fast" THEN {st[p].panel} ELSE Panels :
       Runs(p, "verify", "leader", [st[p] EXCEPT !.panel = v])

\* Mutated: fast mode does not escalate.
LeaderStaysFast(p) ==
  /\ At(p, "leader")
  /\ Runs(p, "leader", IF st[p].panel = "ESCALATE" /\ st[p].mode # "fast"
                      THEN "escalate" ELSE "test_gate",
          [st[p] EXCEPT !.leader = st[p].panel])

Leader(p) ==
  /\ At(p, "leader")
  /\ Runs(p, "leader", IF st[p].panel = "ESCALATE" THEN "escalate" ELSE "test_gate",
          [st[p] EXCEPT !.leader = st[p].panel])

\* Mutated: only APPROVE is downgraded.
GatedApproveOnly(s, report) ==
  [s EXCEPT !.report = report,
            !.leader = IF report = "blocks" /\ @ = "APPROVE"
                       THEN "REQUEST_CHANGES" ELSE @]

\* Gate 2: an approval does not survive a report that blocks.
Gated(s, report) ==
  [s EXCEPT !.report = report,
            !.leader = IF report = "blocks" /\ @ \in Clean
                       THEN "REQUEST_CHANGES" ELSE @]

TestGate(p) ==
  /\ At(p, "test_gate")
  /\ \E r \in IF st[p].mode = "fast" THEN {"skipped"} ELSE {"clear", "blocks"} :
       Runs(p, "test_gate", "post", Gated(st[p], r))

\* forge.create_issue, which may fail; the mirror file follows.
OpenIssue(p) ==
  /\ At(p, "escalate")
  /\ \E opened \in BOOLEAN :
       /\ issues' = IF opened THEN issues + 1 ELSE issues
       /\ st' = [st EXCEPT ![p].issue = opened]
  /\ at' = [at EXCEPT ![p] = "issued"]
  /\ UNCHANGED <<disk, comments, count, unsaved, answer, tally>>

\* Mutated: the mirror skips escalate.
EscalateUnseen(p) ==
  /\ at[p] = "issued"
  /\ Returns(p, "hitl", st[p])
  /\ UNCHANGED <<disk, forge, count, answer, tally>>

Escalate(p) == at[p] = "issued" /\ Runs(p, "escalate", "hitl", st[p])

\* interrupt() without a decision: the process stores that it waits and exits.
\* The mark sticks to the checkpoint it worked from.
Pause(p) ==
  /\ at[p] = "hitl" /\ answer[p] = None /\ unsaved[p] = <<>>
  /\ ckpt' = [ckpt EXCEPT !.paused = @ \/ (ckpt.next = "hitl" /\ ckpt.st = st[p])]
  /\ Leaves(p)
  /\ UNCHANGED <<meta, files, writes, finals, logs, forge, tally>>

\* "ack" keeps the verdict, "override:V" replaces it; any of them is recorded.
Decided(s, d) ==
  [s EXCEPT !.decision = d, !.leader = IF d \in Verdicts THEN d ELSE @]

Hitl(p) ==
  /\ At(p, "hitl") /\ answer[p] \in Decisions \ {"override:garbage"}
  /\ Returns(p, "post", Decided(st[p], answer[p]))
  /\ answer' = [answer EXCEPT ![p] = None]
  /\ UNCHANGED <<disk, forge, count, tally>>

\* Verdict(...) raises ValueError: the review stays where it was.
HitlRejects(p) ==
  /\ At(p, "hitl") /\ answer[p] = "override:garbage"
  /\ Leaves(p)
  /\ UNCHANGED <<disk, forge, tally>>

\* post, when Gate 1 failed.
PostDorFail(p) ==
  /\ At(p, "post") /\ st[p].dor # "pass"
  /\ Mirrors(p, "dor_fail")
  /\ Returns(p, "end", st[p])
  /\ UNCHANGED <<meta, ckpt, finals, logs, forge, answer, tally>>

\* post, otherwise: the voter logs ...
PostLogs(p) ==
  /\ At(p, "post") /\ st[p].dor = "pass"
  /\ logs' = logs + 1
  /\ at' = [at EXCEPT ![p] = "logged"]
  /\ UNCHANGED <<meta, ckpt, files, writes, finals, forge, st, count, unsaved, answer,
                 tally>>

\* ... then the comment, which the forge may refuse ...
PostComment(p) ==
  /\ at[p] = "logged"
  /\ \/ comments' = comments \cup {Says(st[p])}
     \/ UNCHANGED comments
  /\ at' = [at EXCEPT ![p] = "commented"]
  /\ UNCHANGED <<disk, issues, st, count, unsaved, answer, tally>>

\* ... then the final mirror file.
PostFinal(p) ==
  /\ at[p] = "commented"
  /\ Mirrors(p, "final")
  /\ finals' = finals \cup {Says(st[p])}
  /\ Returns(p, "end", st[p])
  /\ UNCHANGED <<meta, ckpt, logs, forge, answer, tally>>

Node(p) ==
  \/ DorGate(p) \/ InitNode(p) \/ Analyze(p) \/ Tools(p) \/ Vote(p) \/ Verify(p)
  \/ Leader(p) \/ TestGate(p) \/ OpenIssue(p) \/ Escalate(p) \/ Pause(p) \/ Hitl(p)
  \/ HitlRejects(p) \/ PostDorFail(p) \/ PostLogs(p) \/ PostComment(p) \/ PostFinal(p)

Next ==
  \E p \in Procs :
    Node(p) \/ StartReview(p) \/ Recover(p) \/ Resume(p) \/ Persist(p) \/ Crash(p)
    \/ Finish(p)

Spec == Init /\ [][Next]_vars

\* A live process gets on; a crash takes the host down and `avs serve` runs
\* recover_reviews when it is back.  No human is obliged to answer.
Fairness ==
  /\ \A p \in Procs : WF_vars(Node(p)) /\ WF_vars(Persist(p)) /\ WF_vars(Finish(p))
  /\ WF_vars(\E p \in Procs : Recover(p))

FairSpec == Spec /\ Fairness

-----------------------------------------------------------------------------
(* Properties.                                                             *)

\* Gate 3: when the leader escalated, nothing is posted or archived before a
\* human decided -- in no interleaving of crashes, recoveries and resumes.
NoUnattendedEscalation ==
  \A c \in comments \cup finals :
    c.from.panel = "ESCALATE" => c.from.decision # None

\* An approval is earned: the test gate let it through, fast mode skipped the
\* gate, or a human overrode the verdict to exactly this approval.
ApprovalIsEarned ==
  \A c \in comments \cup finals :
    c.verdict \in Clean =>
      \/ c.from.report = "clear"
      \/ c.from.report = "skipped" /\ c.from.mode = "fast"
      \/ c.from.decision = c.verdict

\* The nodes a review with this state goes through, and those before a node.
Trail(s) ==
  IF s.dor = "fail" THEN <<"dor_gate", "post">>
  ELSE <<"dor_gate", "init", "analyze", "tools", "vote", "verify", "leader">>
       \o (IF s.panel = "ESCALATE" THEN <<"escalate", "hitl", "post">>
                                   ELSE <<"test_gate", "post">>)

Passed(next, s) ==
  {Trail(s)[i] : i \in {k \in DOMAIN Trail(s) : \A j \in 1 .. k : Trail(s)[j] # next}}

\* The audit trail is never behind the machine: each node a stored checkpoint
\* has passed left its mirror file, and a finished review its outcome.
MirrorCoversCheckpoint ==
  LET mirrored == {f[2] : f \in files} IN
  ckpt # NoCheckpoint =>
    /\ Passed(ckpt.next, ckpt.st) \ {"hitl", "post"} \subseteq mirrored
    /\ ckpt.next = "end" => mirrored \cap {"dor_fail", "final"} # {}

\* Mirror steps are numbered without gap or repetition, across every restart
\* ("Resume-safe: a second process continuing this review appends after the
\* existing steps instead of overwriting them", mirror.py).
AppendOnlyMirror ==
  /\ Cardinality(files) = writes
  /\ {f[1] : f \in files} = 1 .. writes

\* Without a crash and without two processes at once every side effect happens
\* once, however often the human resumes: one issue, one comment, one entry per voter log ("Separate from
\* hitl_node so the side effect runs exactly once", escalate_node).
SideEffectsOnce ==
  crashes + overlaps = 0 => issues <= 1 /\ logs <= 1 /\ Cardinality(comments) <= 1

\* A review whose first checkpoint was stored is settled in the end: posted,
\* turned away by Gate 1, or waiting for a human.
Settled == HasFinal \/ ckpt.next = "end" \/ ckpt.paused
EveryReviewSettles == (ckpt # NoCheckpoint) ~> Settled
=============================================================================

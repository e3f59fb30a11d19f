---------------------------- MODULE AutopilotProofs ----------------------------
(***************************************************************************)
(* What TLAPS proves of `avs create`, for any plans, titles and number of  *)
(* runs and crashes: the `built` flags follow the committed work through   *)
(* every reset; where nothing is undone, every row that says `built` is    *)
(* true; a sequential run that completes has built all of its plan, and    *)
(* one that fails has tried each failed task twice; beside code its gate   *)
(* passed a commit holds only what a build left by a crash, a refused      *)
(* commit or an error without reset; and tasks are attempted in the order  *)
(* of their dependencies, which rests on what Kahn's rounds compute.       *)
(* The argument: the three copies git keeps of a file (tree, index, HEAD)  *)
(* each say only what HEAD's work bears out, so no reset between them can  *)
(* make a row or a flag lie.                                               *)
(***************************************************************************)
EXTENDS AutopilotBuild, SequenceTheorems, FiniteSetTheorems, WellFoundedInduction, TLAPS

-----------------------------------------------------------------------------
(* Types. *)

\* Documents with at most one outcomes.yaml, and the commits of them.
GoodDocs == {d \in Docs : \A x, y \in d.rows : x = y}
GoodCommits == [doc : GoodDocs, work : SUBSET Works]

DiskOK == /\ tree \in GoodDocs /\ index \in GoodDocs
          /\ head \in GoodCommits /\ tags \in Seq(GoodCommits)

RowsOK == mem \subseteq RowSet /\ results \subseteq RowSet

QueueOK == /\ todo \subseteq Tasks /\ sched \subseteq Tasks /\ wave \subseteq Tasks
           /\ retries \subseteq Tasks /\ dropped \subseteq Tasks /\ prep \subseteq Slugs

BuildOK == /\ cur \in Slugs \cup {<<>>} /\ pre \subseteq Works
           /\ repairs \in Nat /\ used \in Nat /\ tried \in [Tasks -> Nat]

RunOK == /\ pc \in Steps /\ parallel \in BOOLEAN /\ mode \in {"first", "retry"}
         /\ plan \in Plans \cup {NoPlan} /\ approved \in Plans \cup {NoPlan}
         /\ undos \in Nat

\* A run that has started has a plan, and one that builds has a spec.
Working == /\ pc # "idle" => plan \in Plans
           /\ pc \in {"gate", "commit", "review"} => cur \in Slugs

\* The implementer's loop, and what builds have left in the tree.
LoopOK == /\ attempt \in 0 .. MaxIterations /\ written \in BOOLEAN
          /\ left \subseteq Works

TInv == DiskOK /\ RowsOK /\ QueueOK /\ BuildOK /\ RunOK /\ Working

LEMMA TInvTypes == TInv /\ LoopOK => TypeOK
<1> SUFFICES ASSUME TInv, LoopOK PROVE TypeOK
  OBVIOUS
<1>1. GoodCommits \subseteq Commits
  BY DEF GoodCommits, Commits, GoodDocs
<1>2. \A s \in Seq(GoodCommits) : s \in Seq(Commits)
  <2> SUFFICES ASSUME NEW s \in Seq(GoodCommits) PROVE s \in Seq(Commits)
    OBVIOUS
  <2>1. Len(s) \in Nat /\ s \in [1 .. Len(s) -> GoodCommits]
    OBVIOUS
  <2>2. s \in [1 .. Len(s) -> Commits]
    BY <1>1, <2>1
  <2> QED
    BY <2>1, <2>2, SeqDef
<1> QED
  BY <1>1, <1>2 DEF TInv, TypeOK, DiskOK, RowsOK, QueueOK, BuildOK, RunOK, LoopOK, GoodDocs

\* What the helpers return has its type.
LEMMA RowTypes ==
  ASSUME NEW p \in Plans, NEW t \in Tasks
  PROVE  /\ \A s \in Statuses : Row(p, t, s) \in RowSet
         /\ <<t, p.title[t]>> \in Works
BY DEF RowSet, Works

LEMMA SlugTypes ==
  ASSUME NEW s \in Slugs
  PROVE  s[1] \in Tasks /\ <<s[1], plan.title[s[1]]>> = Work(s[1])
BY DEF Slugs, Work

LEMMA PlannedTypes ==
  ASSUME NEW p, NEW rows
  PROVE  ToBuild(p, rows) \subseteq Planned(p) /\ Planned(p) \subseteq Tasks
BY DEF ToBuild, Planned

LEMMA ResumeTypes ==
  ASSUME NEW d \in GoodDocs
  PROVE  Resume(d) \subseteq RowsOf(d) /\ RowsOf(d) \subseteq RowSet
BY DEF Resume, RowsOf, GoodDocs, Docs

LEMMA DocTypes ==
  ASSUME NEW d \in GoodDocs, NEW i \in GoodDocs, NEW t \in GoodDocs, NEW before
  PROVE  /\ Checkout(d, i) \in GoodDocs
         /\ ResetWorkspace(d, i, before) \in GoodDocs
         /\ HardReset(d, i, t) \in GoodDocs
<1>1. Checkout(d, i) \in GoodDocs
  BY DEF Checkout, GoodDocs, Docs
<1>2. ResetWorkspace(d, i, before) \in GoodDocs
  BY <1>1 DEF ResetWorkspace, GoodDocs, Docs
<1>3. HardReset(d, i, t) \in GoodDocs
  BY DEF HardReset, GoodDocs, Docs
<1> QED
  BY <1>1, <1>2, <1>3

LEMMA EditTypes ==
  ASSUME NEW d \in GoodDocs
  PROVE  /\ \A p \in Plans \cup {NoPlan} : [d EXCEPT !.plan = p] \in GoodDocs
         /\ \A s \in Slugs : Bookkeep(d, s) \in GoodDocs
         /\ \A s \in Slugs : [d EXCEPT !.specs[s] = "open"] \in GoodDocs
         /\ \A w \in Works : [d EXCEPT !.files = @ \cup {w}] \in GoodDocs
         /\ \A rows \in SUBSET RowSet : WriteRows(d, rows) \in GoodDocs
BY DEF Bookkeep, WriteRows, GoodDocs, Docs

-----------------------------------------------------------------------------
LEMMA TInvInit == Init => TInv
<1> SUFFICES ASSUME Init PROVE TInv
  OBVIOUS
<1>1. NoFiles \in GoodDocs
  BY DEF NoFiles, GoodDocs, Docs
<1>2. DiskOK
  BY <1>1 DEF Init, DiskOK, GoodCommits
<1> QED
  BY <1>2 DEF Init, TInv, RowsOK, QueueOK, BuildOK, RunOK, Working, Steps

\* A failed attempt keeps the rows typed.
LEMMA FailsTypes ==
  ASSUME TInv, plan \in Plans, NEW t \in Tasks, NEW q, Fails(t, q)
  PROVE  results' \subseteq RowSet /\ pc' \in {"spec", "build", "record"}
BY RowTypes DEF Fails, Onward, TInv, RowsOK, Statuses

LEMMA StartTypes ==
  ASSUME TInv, NEW p \in Plans, tree' \in GoodDocs, approved' \in Plans \cup {NoPlan},
         Start(p, tree')
  PROVE  TInv'
<1>1. DiskOK'
  BY DEF Start, TInv, DiskOK
<1>2. RowsOK'
  BY ResumeTypes DEF Start, TInv, RowsOK
<1>3. QueueOK'
  BY PlannedTypes DEF Start, TInv, QueueOK
<1>4. BuildOK'
  BY DEF Start, TInv, BuildOK, build
<1>5. RunOK'
  BY AutopilotAssumption DEF Start, TInv, RunOK, Steps, AutopilotAssumption
<1>6. Working'
  BY DEF Start, Working
<1> QED
  BY <1>1, <1>2, <1>3, <1>4, <1>5, <1>6 DEF TInv

LEMMA SpecStageTypes ==
  ASSUME TInv, NEW s \in Slugs, SpecFrozen(s) \/ SpecBlocked(s) \/ SpecApproved(s)
  PROVE  TInv'
<1> USE DEF SpecFrozen, SpecBlocked, SpecApproved, Specified, Attempt
<1>1. plan \in Plans /\ s[1] \in Tasks
  BY SlugTypes DEF TInv, Working
<1>2. DiskOK'
  <2>1. /\ tree \in GoodDocs /\ index \in GoodDocs
        /\ head \in GoodCommits /\ tags \in Seq(GoodCommits)
    BY DEF TInv, DiskOK
  <2>2. /\ [tree EXCEPT !.specs[s] = "open"] \in GoodDocs
        /\ [index EXCEPT !.specs[s] = "open"] \in GoodDocs
    BY <2>1, EditTypes
  <2>3. tree' \in GoodDocs /\ index' \in GoodDocs
    BY <2>1, <2>2
  <2>4. head' \in GoodCommits
    BY <2>1, <2>3 DEF GoodCommits
  <2> QED
    BY <2>1, <2>3, <2>4 DEF DiskOK
<1>3. RowsOK'
  BY <1>1, RowTypes DEF TInv, RowsOK, Statuses
<1>4. QueueOK'
  BY <1>1 DEF TInv, QueueOK
<1>5. BuildOK'
  BY <1>1 DEF TInv, BuildOK, build
<1>6. RunOK'
  BY DEF TInv, RunOK, Steps, Onward, tally
<1>7. Working'
  BY <1>1 DEF Working, Onward
<1> QED
  BY <1>2, <1>3, <1>4, <1>5, <1>6, <1>7 DEF TInv

\* The steps of a run that leave the disk alone.
LEMMA ScheduleTypes ==
  ASSUME TInv, \/ ScheduleTask \/ ScheduleWave \/ ScheduleDone
               \/ Reviewed \/ RetryDone \/ Crash
  PROVE  TInv'
<1> USE DEF ScheduleTask, ScheduleWave, ScheduleDone, Reviewed, RetryDone, Crash,
            repo, queue, build, ghost, tally
<1>1. DiskOK'
  BY DEF TInv, DiskOK
<1>2. RowsOK'
  <2>1. pc = "review" => plan \in Plans /\ cur[1] \in Tasks
    BY SlugTypes DEF TInv, Working
  <2>2. pc = "review" => Row(plan, cur[1], "built") \in RowSet
    BY <2>1, RowTypes DEF Statuses
  <2> QED
    BY <2>2 DEF TInv, RowsOK
<1>3. QueueOK'
  BY PlannedTypes DEF TInv, QueueOK, WaveOf, Ready
<1>4. BuildOK'
  BY DEF TInv, BuildOK
<1>5. RunOK'
  BY DEF TInv, RunOK, Steps, Onward
<1>6. Working'
  BY DEF TInv, Working, Onward
<1> QED
  BY <1>1, <1>2, <1>3, <1>4, <1>5, <1>6 DEF TInv

LEMMA BuildTypes ==
  ASSUME TInv, BuildInPlace \/ BuildInBranch
  PROVE  TInv'
<1> USE DEF BuildInPlace, BuildInBranch
<1>1. plan \in Plans /\ cur' \in Slugs /\ cur'[1] \in Tasks /\ prep' \subseteq Slugs
  BY SlugTypes DEF TInv, Working, QueueOK
<1>2. Work(cur'[1]) \in Works
  BY <1>1, RowTypes DEF Work
<1>3. DiskOK'
  <2>1. tree \in GoodDocs
    BY DEF TInv, DiskOK
  <2>2. [tree EXCEPT !.files = @ \cup {Work(cur'[1])}] \in GoodDocs
    BY <1>2, <2>1, EditTypes
  <2>3. Bookkeep([tree EXCEPT !.files = @ \cup {Work(cur'[1])}], cur') \in GoodDocs
    BY <1>1, <2>2, EditTypes
  <2> QED
    BY <2>1, <2>2, <2>3 DEF TInv, DiskOK, repo
<1>4. RowsOK' /\ pc' \in {"gate", "commit", "spec", "build", "record"}
  BY <1>1, FailsTypes DEF TInv, RowsOK
<1>5. QueueOK'
  BY <1>1 DEF TInv, QueueOK, ghost
<1>6. BuildOK'
  <2>1. pre' \subseteq Works
    BY DEF TInv, DiskOK, GoodDocs, Docs, BuildOK, build
  <2> QED
    BY <1>1, <2>1 DEF TInv, BuildOK, ghost
<1>7. RunOK'
  BY <1>4 DEF TInv, RunOK, Steps, ghost, tally
<1>8. Working'
  BY <1>1 DEF Working
<1> QED
  BY <1>3, <1>4, <1>5, <1>6, <1>7, <1>8 DEF TInv

\* What the implementer writes changes the files and nothing else.
LEMMA CodeTypes ==
  ASSUME TInv, pc = "gate"
  PROVE  /\ Work(cur[1]) \in Works /\ Code \in GoodDocs
         /\ Code.plan = tree.plan /\ Code.rows = tree.rows /\ Code.specs = tree.specs
         /\ Code.files = tree.files \cup {Work(cur[1])}
<1>1. plan \in Plans /\ cur \in Slugs /\ cur[1] \in Tasks
  BY SlugTypes DEF TInv, Working
<1>2. Work(cur[1]) \in Works
  BY <1>1, RowTypes DEF Work
<1>3. tree \in GoodDocs
  BY DEF TInv, DiskOK
<1>4. Code \in GoodDocs
  BY <1>2, <1>3, EditTypes DEF Code
<1> QED
  BY <1>2, <1>3, <1>4 DEF Code, GoodDocs, Docs

LEMMA CommitTypes ==
  ASSUME TInv, TryAgain \/ Gate \/ Commit \/ CommitRefused \/ RepairDiscarded
  PROVE  TInv'
<1> USE DEF TryAgain, Gate, Commit, CommitRefused, RepairDiscarded
<1>1. plan \in Plans /\ cur \in Slugs /\ cur[1] \in Tasks
  BY SlugTypes DEF TInv, Working
<1>2. Work(cur[1]) \in Works
  BY <1>1, RowTypes DEF Work
<1>3. DiskOK'
  <2>1. /\ tree \in GoodDocs /\ index \in GoodDocs
        /\ head \in GoodCommits /\ tags \in Seq(GoodCommits)
    BY DEF TInv, DiskOK
  <2>2. head.doc \in GoodDocs /\ head.work \subseteq Works
    BY <2>1 DEF GoodCommits
  <2>3. /\ HardReset(tree, index, head.doc) \in GoodDocs
        /\ pc = "gate" => /\ Code \in GoodDocs
                          /\ ResetWorkspace(Code, index, pre) \in GoodDocs
                          /\ Bookkeep(Code, cur) \in GoodDocs
    BY <1>1, <2>1, <2>2, CodeTypes, DocTypes, EditTypes
  <2>4. tree' \in GoodDocs /\ index' \in GoodDocs
    BY <2>1, <2>2, <2>3
  <2>5. head' \in GoodCommits
    <3>1. head' = head \/ head' = [doc |-> tree, work |-> head.work \cup {Work(cur[1])}]
      OBVIOUS
    <3> QED
      BY <1>2, <2>1, <2>2, <3>1 DEF GoodCommits
  <2> QED
    BY <2>1, <2>4, <2>5 DEF DiskOK
<1>4. RowsOK' /\ pc' \in {"gate", "commit", "review", "spec", "build", "record"}
  BY <1>1, FailsTypes DEF TInv, RowsOK, queue
<1>5. QueueOK'
  BY DEF TInv, QueueOK, queue, ghost
<1>6. BuildOK'
  <2>1. /\ cur' = cur /\ pre' \in {pre, {}} /\ UNCHANGED <<used, tried>>
        /\ repairs' \in {repairs, 0, repairs + 1}
    BY DEF build, ghost
  <2> QED
    BY <2>1 DEF TInv, BuildOK
<1>7. RunOK'
  BY <1>4 DEF TInv, RunOK, Steps, ghost, tally
<1>8. Working'
  BY <1>1 DEF Working, build
<1> QED
  BY <1>3, <1>4, <1>5, <1>6, <1>7, <1>8 DEF TInv

LEMMA RecordTypes ==
  ASSUME TInv, RecordOutcomes \/ RetryTask \/ Report
  PROVE  TInv'
<1> USE DEF RecordOutcomes, RetryTask, Report
<1>1. RowsOK'
  BY DEF TInv, RowsOK, Record, queue
<1>2. DiskOK'
  <2>1. tree \in GoodDocs /\ mem \subseteq RowSet /\ mem' \subseteq RowSet
    BY <1>1 DEF TInv, DiskOK, RowsOK
  <2>2. WriteRows(tree, mem) \in GoodDocs /\ WriteRows(tree, mem') \in GoodDocs
    BY <2>1, EditTypes
  <2>3. tree' \in GoodDocs
    BY <2>1, <2>2
  <2> QED
    BY <2>3 DEF TInv, DiskOK
<1>3. QueueOK'
  BY DEF TInv, QueueOK, queue, ghost
<1>4. BuildOK'
  BY DEF TInv, BuildOK, build, ghost
<1>5. RunOK'
  BY DEF TInv, RunOK, Steps, ghost, tally
<1>6. Working'
  BY DEF TInv, Working
<1> QED
  BY <1>1, <1>2, <1>3, <1>4, <1>5, <1>6 DEF TInv

LEMMA TagTypes ==
  ASSUME TInv, TagCheckpoint \/ Undo
  PROVE  TInv'
<1> USE DEF TagCheckpoint, Undo
<1>0. /\ tree \in GoodDocs /\ index \in GoodDocs
      /\ head \in GoodCommits /\ tags \in Seq(GoodCommits)
  BY DEF TInv, DiskOK
<1>1. Append(tags, head) \in Seq(GoodCommits)
  BY <1>0, AppendProperties
<1>2. \A i \in 2 .. Len(tags) :
        tags[i - 1] \in GoodCommits /\ SubSeq(tags, 1, i - 1) \in Seq(GoodCommits)
  <2> SUFFICES ASSUME NEW i \in 2 .. Len(tags)
               PROVE  tags[i - 1] \in GoodCommits /\ SubSeq(tags, 1, i - 1) \in Seq(GoodCommits)
    OBVIOUS
  <2>1. i - 1 \in 1 .. Len(tags)
    BY <1>0
  <2>2. \A j \in 1 .. i - 1 : tags[j] \in GoodCommits
    BY <1>0, <2>1
  <2> QED
    BY <1>0, <2>1, <2>2, SubSeqProperties
<1>3. DiskOK'
  <2>1. CASE TagCheckpoint
    BY <1>0, <1>1, <2>1 DEF DiskOK
  <2>2. CASE Undo
    <3>1. head' \in GoodCommits /\ tags' \in Seq(GoodCommits)
      BY <1>2, <2>2
    <3>2. head'.doc \in GoodDocs
      BY <3>1 DEF GoodCommits
    <3>3. tree' \in GoodDocs /\ index' \in GoodDocs
      <4>1. HardReset(tree, index, head'.doc) \in GoodDocs
        BY <1>0, <3>2, DocTypes
      <4> QED
        BY <2>2, <3>2, <4>1
    <3> QED
      BY <3>1, <3>3 DEF DiskOK
  <2> QED
    BY <2>1, <2>2
<1>4. RowsOK'
  BY DEF TInv, RowsOK, queue
<1>5. QueueOK'
  BY DEF TInv, QueueOK, queue, ghost
<1>6. BuildOK'
  BY DEF TInv, BuildOK, build, ghost
<1>7. RunOK'
  <2>1. tree'.plan \in Plans \cup {NoPlan}
    BY <1>3 DEF DiskOK, GoodDocs, Docs
  <2> QED
    BY <2>1, AutopilotAssumption DEF TInv, RunOK, Steps, ghost, tally, AutopilotAssumption
<1>8. Working'
  BY DEF TInv, Working
<1> QED
  BY <1>3, <1>4, <1>5, <1>6, <1>7, <1>8 DEF TInv

LEMMA CreateTypes ==
  ASSUME TInv, CreatePlanning \/ CreateBlocked \/ CreateFromLock
  PROVE  TInv'
<1>1. tree \in GoodDocs /\ approved \in Plans \cup {NoPlan}
  BY DEF TInv, DiskOK, RunOK
<1>2. CASE CreatePlanning
  <2>1. PICK p \in Plans :
                           /\ tree' = [tree EXCEPT !.plan = p]
                           /\ approved' = p /\ Start(p, tree')
    BY <1>2 DEF CreatePlanning
  <2> QED
    BY <1>1, <2>1, EditTypes, StartTypes
<1>3. CASE CreateFromLock
  <2>1. tree.plan \in Plans /\ tree' \in GoodDocs /\ Start(tree.plan, tree')
    BY <1>1, <1>3 DEF CreateFromLock, GoodDocs, Docs
  <2> QED
    BY <1>1, <1>3, <2>1, StartTypes DEF CreateFromLock
<1>4. CASE CreateBlocked
  <2>1. tree' \in GoodDocs
    BY <1>1, <1>4, EditTypes DEF CreateBlocked
  <2> QED
    BY <1>4, <2>1 DEF CreateBlocked, TInv, DiskOK, RowsOK, QueueOK, BuildOK, RunOK,
                      Working, queue, build
<1> QED
  BY <1>2, <1>3, <1>4

LEMMA TInvNext == TInv /\ [Next]_vars => TInv'
<1> SUFFICES ASSUME TInv, [Next]_vars PROVE TInv'
  OBVIOUS
<1>1. CASE CreatePlanning \/ CreateBlocked \/ CreateFromLock
  BY <1>1, CreateTypes
<1>2. CASE ScheduleTask \/ ScheduleWave \/ ScheduleDone \/ Reviewed \/ RetryDone \/ Crash
  BY <1>2, ScheduleTypes
<1>3. CASE SpecStage
  BY <1>3, SpecStageTypes DEF SpecStage
<1>4. CASE BuildInPlace \/ BuildInBranch
  BY <1>4, BuildTypes
<1>5. CASE TryAgain \/ Gate \/ Commit \/ CommitRefused \/ RepairDiscarded
  BY <1>5, CommitTypes
<1>6. CASE RecordOutcomes \/ RetryTask \/ Report
  BY <1>6, RecordTypes
<1>7. CASE TagCheckpoint \/ Undo
  BY <1>7, TagTypes
<1>8. CASE UNCHANGED vars
  BY <1>8 DEF vars, repo, queue, build, ghost, tally, TInv, DiskOK, RowsOK, QueueOK,
              BuildOK, RunOK, Working
<1> QED
  BY <1>1, <1>2, <1>3, <1>4, <1>5, <1>6, <1>7, <1>8 DEF Next, Step

LEMMA LoopInit == Init => LoopOK
<1> SUFFICES ASSUME Init PROVE LoopOK
  OBVIOUS
<1>1. 0 \in 0 .. MaxIterations
  BY AutopilotAssumption DEF AutopilotAssumption
<1> QED
  BY <1>1 DEF Init, LoopOK

LEMMA LoopNext == TInv /\ LoopOK /\ [Next]_vars => LoopOK'
<1> SUFFICES ASSUME TInv, LoopOK, [Next]_vars PROVE LoopOK'
  OBVIOUS
<1>0. MaxIterations \in Nat \ {0} /\ attempt \in 0 .. MaxIterations
  BY AutopilotAssumption DEF AutopilotAssumption, LoopOK
<1>1. attempt' \in 0 .. MaxIterations
  <2>1. attempt' \in {0, 1, attempt} \/ (attempt < MaxIterations /\ attempt' = attempt + 1)
    BY DEF Next, Step, CreatePlanning, CreateBlocked, CreateFromLock, Start, ScheduleTask,
           ScheduleWave, ScheduleDone, SpecStage, SpecFrozen, SpecBlocked, SpecApproved,
           Specified, Attempt, BuildInPlace, TryAgain, Gate, BuildInBranch, Commit,
           CommitRefused, RepairDiscarded, Reviewed, RecordOutcomes, RetryTask, RetryDone,
           Report, TagCheckpoint, Crash, Undo, build, loop, vars
  <2> QED
    BY <1>0, <2>1
<1>2. written' \in BOOLEAN
  <2>1. written' = TRUE \/ written' = FALSE \/ written' = written
    BY DEF Next, Step, CreatePlanning, CreateBlocked, CreateFromLock, Start, ScheduleTask,
           ScheduleWave, ScheduleDone, SpecStage, SpecFrozen, SpecBlocked, SpecApproved,
           Specified, Attempt, BuildInPlace, TryAgain, Gate, BuildInBranch, Commit,
           CommitRefused, RepairDiscarded, Reviewed, RecordOutcomes, RetryTask, RetryDone,
           Report, TagCheckpoint, Crash, Undo, build, loop, vars
  <2> QED
    BY <2>1 DEF LoopOK
<1>3. left' \subseteq Works
  <2>1. left' = left \/ (pc \in {"gate", "commit"} /\ left' = left \cup InTree)
    BY DEF Next, Step, CreatePlanning, CreateBlocked, CreateFromLock, Start, ScheduleTask,
           ScheduleWave, ScheduleDone, SpecStage, SpecFrozen, SpecBlocked, SpecApproved,
           Specified, Attempt, BuildInPlace, TryAgain, Gate, BuildInBranch, Commit,
           CommitRefused, RepairDiscarded, Reviewed, RecordOutcomes, RetryTask, RetryDone,
           Report, TagCheckpoint, Crash, Undo, build, vars
  <2>2. pc \in {"gate", "commit"} => InTree \subseteq Works
    BY DEF InTree, TInv, DiskOK, GoodDocs, Docs
  <2> QED
    BY <2>1, <2>2 DEF LoopOK
<1> QED
  BY <1>1, <1>2, <1>3 DEF LoopOK

\* The workspace and the run keep their shape; above all outcomes.yaml holds one
\* document of rows, whatever is written, reset or undone.
THEOREM TypeCorrect == Spec => []TypeOK
<1>1. Spec => [](TInv /\ LoopOK)
  BY TInvInit, TInvNext, LoopInit, LoopNext, PTL DEF Spec
<1> QED
  BY <1>1, TInvTypes, PTL

-----------------------------------------------------------------------------
(* The flags. *)

\* Every committed task has a built spec in the document.
Flagged(d, work) == \A w \in work : \E s \in Slugs : s[1] = w[1] /\ d.specs[s] = "built"

CopiesFlagged == /\ Flagged(tree, head.work) /\ Flagged(index, head.work)
                 /\ Flagged(head.doc, head.work)

TagsFlagged == \A i \in 1 .. Len(tags) : Flagged(tags[i].doc, tags[i].work)

\* The working tree is never behind the index.
TreeAhead == \A s \in Slugs : index.specs[s] = "built" => tree.specs[s] = "built"

FInv == /\ CopiesFlagged /\ TagsFlagged /\ TreeAhead
        /\ pc = "commit" => tree.specs[cur] = "built"

LEMMA FInvFlags == FInv => FlagFollowsWork
BY DEF FInv, CopiesFlagged, Flagged, FlagFollowsWork, BuiltIds

LEMMA FInvInit == Init => FInv
BY DEF Init, FInv, CopiesFlagged, TagsFlagged, TreeAhead, Flagged, NoFiles

\* What an edit does to the specs of a document.
LEMMA EditSpecs ==
  ASSUME NEW d \in GoodDocs
  PROVE  /\ \A p : [d EXCEPT !.plan = p].specs = d.specs
         /\ \A f : [d EXCEPT !.files = f].specs = d.specs
         /\ \A rows : WriteRows(d, rows).specs = d.specs
         /\ \A s \in Slugs : \A b : [d EXCEPT !.specs[s] = b].specs = [d.specs EXCEPT ![s] = b]
         /\ DOMAIN d.specs = Slugs
BY DEF WriteRows, GoodDocs, Docs

\* A checkout brings back what the index holds, a hard reset what the target holds.
LEMMA ResetSpecs ==
  ASSUME NEW d \in GoodDocs, NEW i \in GoodDocs, NEW t, NEW before, NEW s \in Slugs
  PROVE  /\ i.specs[s] = "built" => ResetWorkspace(d, i, before).specs[s] = "built"
         /\ t.specs[s] = "built" => HardReset(d, i, t).specs[s] = "built"
<1>1. Checkout(d, i) \in GoodDocs
  BY DocTypes
<1>2. ResetWorkspace(d, i, before).specs = Checkout(d, i).specs
  BY <1>1 DEF ResetWorkspace, GoodDocs, Docs
<1>3. i.specs[s] = "built" => Checkout(d, i).specs[s] = "built"
  BY DEF Checkout, GoodDocs, Docs
<1>4. t.specs[s] = "built" => HardReset(d, i, t).specs[s] = "built"
  BY DEF HardReset
<1> QED
  BY <1>2, <1>3, <1>4

\* Steps that leave every spec as it is.
LEMMA FInvSame ==
  ASSUME FInv, tree'.specs = tree.specs, UNCHANGED <<index, head, tags>>,
         pc' # "commit"
  PROVE  FInv'
BY DEF FInv, CopiesFlagged, TagsFlagged, TreeAhead, Flagged

LEMMA FInvQuiet ==
  ASSUME TInv, FInv,
         \/ CreatePlanning \/ CreateBlocked \/ CreateFromLock
         \/ ScheduleTask \/ ScheduleWave \/ ScheduleDone \/ BuildInPlace \/ TryAgain
         \/ Reviewed \/ RecordOutcomes \/ RetryTask \/ RetryDone \/ Report \/ Crash
  PROVE  FInv'
<1> USE DEF CreatePlanning, CreateBlocked, CreateFromLock, Start, ScheduleTask,
            ScheduleWave, ScheduleDone, BuildInPlace, TryAgain, Fails, Onward, Reviewed,
            RecordOutcomes, RetryTask, RetryDone, Report, Crash, repo
<1>1. tree \in GoodDocs
  BY DEF TInv, DiskOK
<1>2. tree'.specs = tree.specs
  BY <1>1, CodeTypes DEF GoodDocs, Docs, WriteRows
<1>3. UNCHANGED <<index, head, tags>>
  OBVIOUS
<1>4. pc' # "commit"
  BY DEF FInv
<1> QED
  BY <1>2, <1>3, <1>4, FInvSame

LEMMA FInvSpec ==
  ASSUME TInv, FInv, NEW s \in Slugs, SpecFrozen(s) \/ SpecBlocked(s) \/ SpecApproved(s)
  PROVE  FInv'
<1>1. /\ tree \in GoodDocs /\ index \in GoodDocs /\ head \in GoodCommits
  BY DEF TInv, DiskOK
<1>2. CASE SpecFrozen(s)
  BY <1>2, FInvSame DEF SpecFrozen, Attempt
<1>3. ASSUME SpecBlocked(s) \/ SpecApproved(s) PROVE FInv'
  <2> USE <1>3 DEF SpecBlocked, SpecApproved, Specified, Attempt
  <2>1. tree.specs[s] # "built" /\ index.specs[s] # "built"
    BY DEF FInv, TreeAhead
  <2>2. tree'.specs = [tree.specs EXCEPT ![s] = "open"]
    BY <1>1 DEF GoodDocs, Docs
  <2>3. index'.specs = index.specs \/ index'.specs = [index.specs EXCEPT ![s] = "open"]
    BY <1>1 DEF GoodDocs, Docs
  <2>4. \A u \in Slugs : /\ tree'.specs[u] = "built" <=> tree.specs[u] = "built"
                         /\ index'.specs[u] = "built" <=> index.specs[u] = "built"
    BY <1>1, <2>1, <2>2, <2>3, EditSpecs
  <2>5. head'.work = head.work /\ (head'.doc = head.doc \/ head'.doc = index')
    BY <1>1 DEF GoodCommits
  <2>6. CopiesFlagged'
    BY <2>4, <2>5 DEF FInv, CopiesFlagged, Flagged
  <2>7. TreeAhead'
    BY <2>4 DEF FInv, TreeAhead
  <2>8. pc' # "commit" /\ tags' = tags
    BY DEF Onward
  <2> QED
    BY <2>6, <2>7, <2>8 DEF FInv, TagsFlagged
<1> QED
  BY <1>2, <1>3

LEMMA FInvBuild ==
  ASSUME TInv, FInv, Gate \/ BuildInBranch \/ Commit \/ CommitRefused
  PROVE  FInv'
<1>1. /\ tree \in GoodDocs /\ index \in GoodDocs /\ head \in GoodCommits
  BY DEF TInv, DiskOK
<1>2. CASE Gate
  <2>1. cur \in Slugs /\ Code \in GoodDocs /\ Code.specs = tree.specs
    BY <1>2, CodeTypes DEF Gate, TInv, Working
  <2>2. \A u \in Slugs : index.specs[u] = "built" => tree'.specs[u] = "built"
    <3>1. CASE tree' = ResetWorkspace(Code, index, pre)
      BY <1>1, <2>1, <3>1, ResetSpecs
    <3>2. CASE tree' = Bookkeep(Code, cur)
      BY <1>1, <2>1, <3>2, EditSpecs DEF Bookkeep, FInv, TreeAhead
    <3>3. CASE tree' = tree
      BY <3>3 DEF FInv, TreeAhead
    <3> QED
      BY <1>2, <3>1, <3>2, <3>3 DEF Gate
  <2>3. pc' = "commit" => tree'.specs[cur'] = "built"
    <3>1. pc' = "commit" => tree' = Bookkeep(Code, cur) /\ cur' = cur
      BY <1>2 DEF Gate, Fails, Onward
    <3> QED
      BY <1>1, <2>1, <3>1 DEF Bookkeep, GoodDocs, Docs
  <2> QED
    BY <1>2, <2>2, <2>3
    DEF Gate, FInv, CopiesFlagged, Flagged, TagsFlagged, TreeAhead
<1>3. CASE BuildInBranch
  <2>1. cur' \in Slugs
    BY <1>3 DEF BuildInBranch, NextSpec, TInv, QueueOK
  <2>2. [tree EXCEPT !.files = @ \cup {Work(cur'[1])}] \in GoodDocs
    BY <1>1, <1>3, <2>1, SlugTypes, RowTypes, EditTypes
    DEF BuildInBranch, Work, TInv, Working
  <2>3. /\ \A u \in Slugs : tree.specs[u] = "built" => tree'.specs[u] = "built"
        /\ pc' = "commit" => tree'.specs[cur'] = "built"
    <3> DEFINE coded == [tree EXCEPT !.files = @ \cup {Work(cur'[1])}]
    <3>1. /\ coded.specs = tree.specs
          /\ Bookkeep(coded, cur').specs = [coded.specs EXCEPT ![cur'] = "built"]
      BY <1>1, <2>2 DEF Bookkeep, GoodDocs, Docs
    <3>2. DOMAIN tree.specs = Slugs
      BY <1>1, EditSpecs
    <3>3. tree' = Bookkeep(coded, cur') \/ (tree' = tree /\ pc' # "commit")
      BY <1>3 DEF BuildInBranch, Fails, Onward
    <3> HIDE DEF coded
    <3> QED
      BY <2>1, <3>1, <3>2, <3>3
  <2> QED
    BY <1>3, <2>3
    DEF BuildInBranch, FInv, CopiesFlagged, Flagged, TagsFlagged, TreeAhead
<1>4. CASE Commit
  <2>1. cur \in Slugs /\ tree.specs[cur] = "built" /\ Work(cur[1])[1] = cur[1]
    BY <1>4 DEF Commit, TInv, Working, FInv, Work
  <2>2. /\ tree' = tree /\ index' = tree /\ head'.doc = tree
        /\ head'.work = head.work \cup {Work(cur[1])}
    BY <1>4 DEF Commit
  <2>3. Flagged(tree, head'.work)
    BY <2>1, <2>2 DEF FInv, CopiesFlagged, Flagged
  <2> QED
    BY <1>4, <2>2, <2>3
    DEF Commit, FInv, CopiesFlagged, Flagged, TagsFlagged, TreeAhead
<1>5. CASE CommitRefused
  BY <1>5
  DEF CommitRefused, Fails, Onward, FInv, CopiesFlagged, Flagged, TagsFlagged, TreeAhead
<1> QED
  BY <1>2, <1>3, <1>4, <1>5

LEMMA FInvReset ==
  ASSUME TInv, FInv, RepairDiscarded \/ TagCheckpoint \/ Undo
  PROVE  FInv'
<1>1. /\ tree \in GoodDocs /\ index \in GoodDocs /\ head \in GoodCommits
      /\ tags \in Seq(GoodCommits)
  BY DEF TInv, DiskOK
<1>2. CASE RepairDiscarded
  <2>1. \A u \in Slugs : head.doc.specs[u] = "built" => tree'.specs[u] = "built"
    BY <1>1, <1>2, ResetSpecs DEF RepairDiscarded
  <2> QED
    BY <1>2, <2>1
    DEF RepairDiscarded, FInv, CopiesFlagged, Flagged, TagsFlagged, TreeAhead
<1>3. CASE TagCheckpoint
  <2>1. TagsFlagged'
    <3>1. \A i \in 1 .. Len(tags') : Flagged(tags'[i].doc, tags'[i].work)
      BY <1>1, <1>3, AppendProperties DEF TagCheckpoint, FInv, TagsFlagged, CopiesFlagged
    <3> QED
      BY <3>1 DEF TagsFlagged
  <2> QED
    BY <1>3, <2>1 DEF TagCheckpoint, FInv, CopiesFlagged, Flagged, TreeAhead
<1>4. CASE Undo
  <2>1. PICK i \in 2 .. Len(tags) : /\ head' = tags[i - 1]
                                    /\ tree' = HardReset(tree, index, head'.doc)
                                    /\ index' = head'.doc
                                    /\ tags' = SubSeq(tags, 1, i - 1)
    BY <1>4 DEF Undo
  <2>2. i - 1 \in 1 .. Len(tags)
    BY <1>1
  <2>3. Flagged(head'.doc, head'.work)
    BY <2>1, <2>2 DEF FInv, TagsFlagged
  <2>4. \A u \in Slugs : head'.doc.specs[u] = "built" => tree'.specs[u] = "built"
    BY <1>1, <2>1, ResetSpecs
  <2>5. TagsFlagged'
    <3>1. \A j \in 1 .. Len(tags') : j \in 1 .. Len(tags) /\ tags'[j] = tags[j]
      BY <1>1, <2>1, <2>2, SubSeqProperties
    <3> QED
      BY <3>1 DEF FInv, TagsFlagged, Flagged
  <2> QED
    BY <1>4, <2>1, <2>3, <2>4, <2>5
    DEF Undo, FInv, CopiesFlagged, Flagged, TreeAhead
<1> QED
  BY <1>2, <1>3, <1>4

LEMMA FInvNext == TInv /\ FInv /\ [Next]_vars => FInv'
<1> SUFFICES ASSUME TInv, FInv, [Next]_vars PROVE FInv'
  OBVIOUS
<1>1. CASE SpecStage
  BY <1>1, FInvSpec DEF SpecStage
<1>2. CASE Gate \/ BuildInBranch \/ Commit \/ CommitRefused
  BY <1>2, FInvBuild
<1>3. CASE RepairDiscarded \/ TagCheckpoint \/ Undo
  BY <1>3, FInvReset
<1>4. CASE UNCHANGED vars
  BY <1>4
  DEF vars, repo, build, FInv, CopiesFlagged, Flagged, TagsFlagged, TreeAhead
<1> QED
  BY <1>1, <1>2, <1>3, <1>4, FInvQuiet DEF Next, Step

\* Whatever is reset, undone, refused or crashed: the flag of a committed task is
\* in the working tree and in the commit.
THEOREM FlagFollowsWorkAlways == Spec => []FlagFollowsWork
<1>1. Spec => [](TInv /\ FInv)
  BY TInvInit, TInvNext, FInvInit, FInvNext, PTL DEF Spec
<1> QED
  BY <1>1, FInvFlags, PTL

-----------------------------------------------------------------------------
(* The rows. *)

\* What the rows say is built is work the commits contain.
RowsTrue(rows, work) == \A r \in rows : r.status = "built" => <<r.task, r.title>> \in work

\* Memory and each copy of outcomes.yaml are true of HEAD; a task under review
\* is committed.
RInv == /\ RowsTrue(mem, head.work) /\ RowsTrue(results, head.work)
        /\ RowsTrue(RowsOf(tree), head.work) /\ RowsTrue(RowsOf(index), head.work)
        /\ RowsTrue(RowsOf(head.doc), head.work)
        /\ pc = "review" => Work(cur[1]) \in head.work

LEMMA RInvTrue == RInv => BuiltRowsAreTrue
BY DEF RInv, RowsTrue, BuiltRowsAreTrue

LEMMA RInvInit == Init => RInv
BY DEF Init, RInv, RowsTrue, RowsOf, NoFiles

\* The rows of a document that is reset come from one of the documents involved.
LEMMA ResetRows ==
  ASSUME NEW d \in GoodDocs, NEW i \in GoodDocs, NEW t \in GoodDocs, NEW before
  PROVE  /\ RowsOf(ResetWorkspace(d, i, before)) \in {RowsOf(d), RowsOf(i)}
         /\ RowsOf(HardReset(d, i, t)) \in {RowsOf(d), RowsOf(t)}
<1>1. ResetWorkspace(d, i, before).rows \in {d.rows, i.rows}
  <2>1. Checkout(d, i).rows \in {d.rows, i.rows}
    BY DEF Checkout, GoodDocs, Docs
  <2>2. Checkout(d, i) \in GoodDocs
    BY DocTypes
  <2> QED
    BY <2>1, <2>2 DEF ResetWorkspace, GoodDocs, Docs
<1>2. HardReset(d, i, t).rows \in {d.rows, t.rows}
  BY DEF HardReset
<1> QED
  BY <1>1, <1>2 DEF RowsOf

LEMMA WrittenRows ==
  ASSUME NEW d \in GoodDocs, NEW rows
  PROVE  RowsOf(WriteRows(d, rows)) = rows
<1>1. WriteRows(d, rows).rows = {rows}
  BY DEF WriteRows, GoodDocs, Docs
<1> QED
  BY <1>1 DEF RowsOf

\* Steps that change neither the documents' rows nor the commits.
LEMMA RInvSame ==
  ASSUME RInv, UNCHANGED <<index, head>>, RowsOf(tree') = RowsOf(tree),
         RowsTrue(mem', head.work), RowsTrue(results', head.work), pc' # "review"
  PROVE  RInv'
BY DEF RInv

LEMMA RInvStart ==
  ASSUME TInv, RInv, CreatePlanning \/ CreateBlocked \/ CreateFromLock
  PROVE  RInv'
<1>1. tree \in GoodDocs
  BY DEF TInv, DiskOK
<1>2. RowsOf(tree') = RowsOf(tree)
  BY <1>1 DEF CreatePlanning, CreateBlocked, CreateFromLock, RowsOf, GoodDocs, Docs
<1>3. mem' \subseteq mem \cup RowsOf(tree)
  BY <1>2 DEF CreatePlanning, CreateBlocked, CreateFromLock, Start, Resume
<1>4. RowsTrue(mem', head.work)
  BY <1>3 DEF RInv, RowsTrue
<1>5. UNCHANGED <<index, head, results>> /\ pc' \in {"schedule", pc} /\ (pc = "idle")
  BY DEF CreatePlanning, CreateBlocked, CreateFromLock, Start, queue
<1> QED
  BY <1>2, <1>4, <1>5, RInvSame DEF RInv

\* A row that says "failed" is true of any work.
LEMMA FailedRowsTrue ==
  ASSUME RInv, NEW t, results' = results \cup {Row(plan, t, "failed")}
  PROVE  RowsTrue(results', head.work)
BY DEF RInv, RowsTrue, Row

LEMMA RInvRun ==
  ASSUME TInv, RInv,
         \/ ScheduleTask \/ ScheduleWave \/ ScheduleDone \/ BuildInPlace \/ BuildInBranch
         \/ TryAgain \/ Gate \/ Reviewed \/ RetryDone \/ TagCheckpoint \/ Crash
  PROVE  RInv'
<1>1. tree \in GoodDocs /\ index \in GoodDocs
  BY DEF TInv, DiskOK
<1>2. CASE ScheduleTask \/ ScheduleWave \/ ScheduleDone \/ RetryDone \/ TagCheckpoint \/ Crash
  <2>1. UNCHANGED <<tree, index, head>> /\ mem' \in {mem, {}} /\ results' \in {results, {}}
        /\ pc' # "review"
    BY <1>2 DEF ScheduleTask, ScheduleWave, ScheduleDone, RetryDone, TagCheckpoint, Crash,
                repo, queue
  <2>2. RowsTrue({}, head.work)
    BY DEF RowsTrue
  <2> QED
    BY <2>1, <2>2, RInvSame DEF RInv
<1>3. CASE Reviewed
  <2>1. Row(plan, cur[1], "built").task = cur[1]
        /\ Row(plan, cur[1], "built").title = plan.title[cur[1]]
    BY DEF Row
  <2>2. RowsTrue(results', head.work)
    BY <1>3, <2>1 DEF Reviewed, RInv, RowsTrue, Work
  <2>3. pc' # "review"
    BY <1>3 DEF Reviewed, Onward
  <2> QED
    BY <1>3, <2>2, <2>3, RInvSame DEF Reviewed, RInv, repo
<1>4. CASE BuildInPlace
  <2>1. RowsOf(tree') = RowsOf(tree)
    BY <1>4 DEF BuildInPlace, repo
  <2>2. RowsTrue(results', head.work)
    BY <1>4, FailedRowsTrue DEF BuildInPlace, Fails, RInv
  <2>3. pc' # "review"
    BY <1>4 DEF BuildInPlace, Fails, Onward
  <2> QED
    BY <1>4, <2>1, <2>2, <2>3, RInvSame DEF BuildInPlace, RInv, repo
<1>5. CASE BuildInBranch
  <2>1. RowsOf(tree') = RowsOf(tree)
    <3> DEFINE coded == [tree EXCEPT !.files = @ \cup {Work(cur'[1])}]
    <3>1. cur' \in Slugs
      BY <1>5 DEF BuildInBranch, NextSpec, TInv, QueueOK
    <3>2. coded \in GoodDocs
      BY <1>1, <1>5, <3>1, SlugTypes, RowTypes, EditTypes
      DEF BuildInBranch, Work, TInv, Working
    <3>3. RowsOf(coded) = RowsOf(tree) /\ RowsOf(Bookkeep(coded, cur')) = RowsOf(coded)
      BY <1>1, <3>2 DEF Bookkeep, RowsOf, GoodDocs, Docs
    <3> QED
      BY <1>5, <3>3 DEF BuildInBranch
  <2>2. RowsTrue(results', head.work)
    BY <1>5, FailedRowsTrue DEF BuildInBranch, Fails, RInv
  <2>3. pc' # "review"
    BY <1>5 DEF BuildInBranch, Fails, Onward
  <2> QED
    BY <1>5, <2>1, <2>2, <2>3, RInvSame DEF BuildInBranch, RInv
<1>6. CASE Gate
  <2>1. RowsOf(tree') \in {RowsOf(tree), RowsOf(index)}
    <3>1. Code \in GoodDocs /\ RowsOf(Code) = RowsOf(tree)
      BY <1>6, CodeTypes DEF Gate, RowsOf
    <3>2. RowsOf(ResetWorkspace(Code, index, pre)) \in {RowsOf(Code), RowsOf(index)}
      BY <1>1, <3>1, ResetRows
    <3>3. RowsOf(Bookkeep(Code, cur)) = RowsOf(Code)
      BY <3>1 DEF Bookkeep, RowsOf, GoodDocs, Docs
    <3> QED
      BY <1>6, <3>1, <3>2, <3>3 DEF Gate
  <2>2. RowsTrue(results', head.work)
    BY <1>6, FailedRowsTrue DEF Gate, Fails, RInv
  <2>3. pc' # "review"
    BY <1>6 DEF Gate, Fails, Onward
  <2> QED
    BY <1>6, <2>1, <2>2, <2>3 DEF Gate, RInv
<1>7. CASE TryAgain
  <2>1. RowsOf(tree') = RowsOf(tree)
    BY <1>7, CodeTypes DEF TryAgain, RowsOf
  <2>2. results' = results /\ pc' # "review"
    BY <1>7 DEF TryAgain, queue
  <2> QED
    BY <1>7, <2>1, <2>2, RInvSame DEF TryAgain, RInv
<1> QED
  BY <1>2, <1>3, <1>4, <1>5, <1>6, <1>7

LEMMA RInvSpec ==
  ASSUME TInv, RInv, NEW s \in Slugs, SpecFrozen(s) \/ SpecBlocked(s) \/ SpecApproved(s)
  PROVE  RInv'
<1>1. tree \in GoodDocs /\ index \in GoodDocs /\ head \in GoodCommits
  BY DEF TInv, DiskOK
<1>2. CASE SpecFrozen(s)
  <2>1. RowsTrue({}, head.work)
    BY DEF RowsTrue
  <2> QED
    BY <1>2, <2>1, RInvSame DEF SpecFrozen, Attempt
<1>3. ASSUME SpecBlocked(s) \/ SpecApproved(s) PROVE RInv'
  <2> USE <1>3 DEF SpecBlocked, SpecApproved, Specified, Attempt
  <2>1. RowsOf(tree') = RowsOf(tree) /\ RowsOf(index') = RowsOf(index)
    BY <1>1 DEF RowsOf, GoodDocs, Docs
  <2>2. head'.work = head.work /\ (head'.doc = head.doc \/ head'.doc = index')
    BY <1>1 DEF GoodCommits
  <2>3. RowsTrue(results', head.work)
    BY FailedRowsTrue DEF RInv
  <2>4. pc' # "review" /\ mem' = mem
    BY DEF Onward
  <2> QED
    BY <2>1, <2>2, <2>3, <2>4 DEF RInv
<1> QED
  BY <1>2, <1>3

LEMMA RInvCommit ==
  ASSUME TInv, RInv, Commit \/ CommitRefused \/ RepairDiscarded
  PROVE  RInv'
<1>1. tree \in GoodDocs /\ index \in GoodDocs /\ head.doc \in GoodDocs
  BY DEF TInv, DiskOK, GoodCommits
<1>2. CASE Commit
  <2>1. /\ head'.doc = tree /\ index' = tree /\ tree' = tree
        /\ head'.work = head.work \cup {Work(cur[1])}
        /\ UNCHANGED <<mem, results, cur, plan>>
    BY <1>2 DEF Commit, queue
  <2>2. \A rows : RowsTrue(rows, head.work) => RowsTrue(rows, head'.work)
    BY <2>1 DEF RowsTrue
  <2> QED
    BY <1>2, <2>1, <2>2 DEF RInv, Commit, Work
<1>3. CASE CommitRefused
  <2>1. /\ RowsOf(tree') \in {RowsOf(tree), RowsOf(head.doc)}
        /\ index' = tree' /\ UNCHANGED <<head, mem>>
    BY <1>3 DEF CommitRefused
  <2>2. RowsTrue(results', head.work)
    BY <1>3, FailedRowsTrue DEF CommitRefused, Fails
  <2>3. pc' # "review"
    BY <1>3 DEF CommitRefused, Fails, Onward
  <2> QED
    BY <2>1, <2>2, <2>3 DEF RInv
<1>4. CASE RepairDiscarded
  <2>1. RowsOf(tree') \in {RowsOf(tree), RowsOf(head.doc)}
    BY <1>1, <1>4, ResetRows DEF RepairDiscarded
  <2> QED
    BY <1>4, <2>1 DEF RepairDiscarded, RInv, Work, queue
<1> QED
  BY <1>2, <1>3, <1>4

LEMMA RInvRecord ==
  ASSUME TInv, RInv, RecordOutcomes \/ RetryTask \/ Report
  PROVE  RInv'
<1>1. tree \in GoodDocs
  BY DEF TInv, DiskOK
<1>2. RowsTrue(mem', head.work) /\ RowsTrue(results', head.work)
  BY DEF RecordOutcomes, RetryTask, Report, Record, queue, RInv, RowsTrue
<1>3. RowsOf(tree') \in {RowsOf(tree), mem, mem'}
  <2>1. RowsOf(WriteRows(tree, mem)) = mem /\ RowsOf(WriteRows(tree, mem')) = mem'
    BY <1>1, WrittenRows
  <2> QED
    BY <2>1 DEF RecordOutcomes, RetryTask, Report
<1>4. UNCHANGED <<index, head>> /\ pc' # "review"
  BY DEF RecordOutcomes, RetryTask, Report
<1> QED
  BY <1>2, <1>3, <1>4 DEF RInv

LEMMA RInvNext ==
  ASSUME MaxUndos = 0
  PROVE  TInv /\ RInv /\ [Next]_vars => RInv'
<1> SUFFICES ASSUME TInv, RInv, [Next]_vars PROVE RInv'
  OBVIOUS
<1>1. CASE SpecStage
  BY <1>1, RInvSpec DEF SpecStage
<1>2. CASE Commit \/ CommitRefused \/ RepairDiscarded
  BY <1>2, RInvCommit
<1>3. CASE RecordOutcomes \/ RetryTask \/ Report
  BY <1>3, RInvRecord
<1>4. CASE CreatePlanning \/ CreateBlocked \/ CreateFromLock
  BY <1>4, RInvStart
<1>5. ~ Undo
  BY DEF Undo, FaultLeft, TInv, RunOK
<1>6. CASE UNCHANGED vars
  BY <1>6 DEF vars, repo, queue, build, RInv, Work
<1> QED
  BY <1>1, <1>2, <1>3, <1>4, <1>5, <1>6, RInvRun DEF Next, Step

\* Where nothing is undone, whatever crashes, is refused, reset or planned anew:
\* every row that says "built" is of work the commits contain.
THEOREM BuiltRowsAlwaysTrue ==
  ASSUME MaxUndos = 0
  PROVE  Spec => []BuiltRowsAreTrue
<1>1. TInv /\ RInv /\ [Next]_vars => (TInv /\ RInv)'
  BY TInvNext, RInvNext
<1>2. Spec => [](TInv /\ RInv)
  BY <1>1, TInvInit, RInvInit, PTL DEF Spec
<1> QED
  BY <1>2, RInvTrue, PTL

-----------------------------------------------------------------------------
(* The plan of a sequential run. *)

HasRow(t, rows) == \E st \in Statuses : Row(plan, t, st) \in rows

\* The tasks of the first pass that do not have their row yet.
Pending(t) == \/ t \in todo \/ t \in wave \/ \E s \in prep : s[1] = t
              \/ pc \in {"gate", "commit", "review"} /\ cur[1] = t

\* No planned task is lost: it waits, it is being built, or it has a row of this
\* plan; once the first pass is over it has that row for good.
PlanCovered ==
  pc \notin {"idle", "tag"} =>
    \A t \in Planned(plan) :
      IF mode = "first" THEN Pending(t) \/ HasRow(t, mem \cup results)
      ELSE HasRow(t, mem)

\* Rows of this attempt, and where nothing is under way, none.
PlaceOK ==
  /\ \A r \in results : \E t \in Tasks, st \in Statuses : r = Row(plan, t, st)
  /\ pc \in {"schedule", "record", "retry", "report", "tag", "idle"} => wave = {} /\ prep = {}
  /\ pc \in {"schedule", "retry", "report", "tag", "idle"} => results = {}
  /\ pc = "retry" => mode = "retry"
  /\ pc = "report" /\ mode = "first" => status = "halted"

CInv == parallel = FALSE /\ PlanCovered /\ PlaceOK /\ CompletedMeansBuilt

LEMMA CInvInit == Init => CInv
BY DEF Init, CInv, PlanCovered, PlaceOK, CompletedMeansBuilt

LEMMA CInvStart ==
  ASSUME ParallelFlags \subseteq {FALSE}, TInv, CInv,
         CreatePlanning \/ CreateBlocked \/ CreateFromLock
  PROVE  CInv'
<1>1. CASE CreateBlocked
  BY <1>1 DEF CreateBlocked, queue, CInv, PlanCovered, PlaceOK, CompletedMeansBuilt
<1>2. ASSUME CreatePlanning \/ CreateFromLock PROVE CInv'
  <2>1. PICK p : Start(p, tree')
    BY <1>2 DEF CreatePlanning, CreateFromLock
  <2>2. parallel' = FALSE /\ status' = "running"
    BY <2>1 DEF Start
  <2>3. PlanCovered'
    BY <2>1 DEF Start, PlanCovered, Pending, HasRow, Planned, ToBuild, Statuses, Row
  <2>4. PlaceOK'
    <3>1. results' = {} /\ wave' = {} /\ prep' = {} /\ pc' = "schedule"
      BY <2>1 DEF Start, PlaceOK, CInv
    <3> QED
      BY <3>1 DEF PlaceOK
  <2> QED
    BY <2>2, <2>3, <2>4 DEF CInv, CompletedMeansBuilt
<1> QED
  BY <1>1, <1>2

\* A run's steps keep its plan, and commits only add to the work.
LEMMA CompletedStays ==
  ASSUME CompletedMeansBuilt, plan' = plan, head.work \subseteq head'.work,
         status' = status \/ status' # "completed"
  PROVE  CompletedMeansBuilt'
BY DEF CompletedMeansBuilt, Planned, Work

LEMMA CInvSchedule ==
  ASSUME TInv, CInv, ScheduleTask \/ ScheduleWave \/ ScheduleDone \/ RetryTask \/ RetryDone
  PROVE  CInv'
<1> USE DEF ScheduleTask, ScheduleWave, ScheduleDone, RetryTask, RetryDone, repo, queue,
            build, ghost
<1>1. ~ ScheduleWave /\ parallel' = FALSE
  BY DEF CInv
<1>2. PlanCovered'
  <2>1. Planned(plan)' = Planned(plan) /\ UNCHANGED <<plan, mem, results, prep>>
    <3>1. UNCHANGED <<plan, mem, results, prep>>
      BY <1>1
    <3> QED
      BY <3>1 DEF Planned, Before, RoundOf
  <2>3. mem' = mem /\ mem' \cup results' = mem \cup results
    BY <2>1
  <2>4. CASE ScheduleTask
    <3>1. \A t : Pending(t) => Pending(t)'
      BY <2>4, <2>1 DEF Pending, CInv, PlaceOK
    <3>2. mode' = mode /\ pc = "schedule"
      BY <2>4
    <3> QED
      BY <2>1, <2>3, <3>1, <3>2 DEF CInv, PlanCovered, HasRow, Row
  <2>5. CASE ScheduleDone
    <3>1. results = {} /\ mode' = "retry" /\ \A t : ~ Pending(t)
      BY <2>5 DEF Pending, CInv, PlaceOK
    <3> QED
      BY <2>1, <2>5, <3>1 DEF CInv, PlanCovered, HasRow, Row
  <2>6. CASE RetryTask \/ RetryDone
    <3>1. mode = "retry" /\ mode' = "retry" /\ pc = "retry"
      BY <2>6 DEF CInv, PlaceOK
    <3> QED
      BY <2>1, <3>1 DEF CInv, PlanCovered, HasRow, Row
  <2> QED
    BY <1>1, <2>4, <2>5, <2>6
<1>3. PlaceOK'
  BY <1>1 DEF CInv, PlaceOK, Row
<1>4. CompletedMeansBuilt'
  BY <1>1, CompletedStays DEF CInv
<1> QED
  BY <1>1, <1>2, <1>3, <1>4 DEF CInv

LEMMA CInvSpec ==
  ASSUME TInv, CInv, NEW s \in Slugs, SpecFrozen(s) \/ SpecBlocked(s) \/ SpecApproved(s)
  PROVE  CInv'
<1> USE DEF SpecFrozen, SpecBlocked, SpecApproved, Specified, Attempt
<1>1. parallel' = FALSE /\ plan' = plan /\ mode' = mode
  BY DEF CInv
<1>2. s[1] \in Tasks
  BY SlugTypes
<1>3. PlanCovered'
  <2>1. CASE SpecFrozen(s)
    BY <2>1 DEF PlanCovered
  <2>2. CASE SpecBlocked(s)
    <3>1. wave' = wave \ {s[1]} /\ prep' = prep /\ todo' = todo /\ mem' = mem
          /\ results' = results \cup {Row(plan, s[1], "failed")} /\ pc = "spec"
      BY <2>2
    <3>2. \A t : Pending(t) => Pending(t)' \/ t = s[1]
      BY <3>1 DEF Pending
    <3>3. Planned(plan)' = Planned(plan) /\ \A t, st : Row(plan, t, st)' = Row(plan, t, st)
      BY <1>1 DEF Planned, Before, RoundOf, Row
    <3> QED
      BY <1>1, <3>1, <3>2, <3>3 DEF CInv, PlanCovered, HasRow, Statuses
  <2>3. CASE SpecApproved(s)
    <3>1. wave' = wave \ {s[1]} /\ prep' = prep \cup {s} /\ todo' = todo /\ mem' = mem
          /\ results' = results /\ pc = "spec"
      BY <2>3
    <3>2. \A t : Pending(t) => Pending(t)'
      BY <3>1 DEF Pending
    <3>3. Planned(plan)' = Planned(plan) /\ \A t, st : Row(plan, t, st)' = Row(plan, t, st)
      BY <1>1 DEF Planned, Before, RoundOf, Row
    <3> QED
      BY <1>1, <3>1, <3>2, <3>3 DEF CInv, PlanCovered, HasRow
  <2> QED
    BY <2>1, <2>2, <2>3
<1>4. PlaceOK'
  BY <1>2 DEF CInv, PlaceOK, Onward, Row, Statuses
<1>5. CompletedMeansBuilt'
  <2>1. head'.work = head.work
    BY DEF TInv, DiskOK, GoodCommits
  <2> QED
    BY <1>1, <2>1, CompletedStays DEF CInv
<1> QED
  BY <1>1, <1>3, <1>4, <1>5 DEF CInv

LEMMA CInvBuild ==
  ASSUME TInv, CInv,
         \/ BuildInPlace \/ BuildInBranch \/ TryAgain \/ Gate \/ Commit \/ CommitRefused
         \/ RepairDiscarded \/ Reviewed
  PROVE  CInv'
<1> USE DEF BuildInPlace, BuildInBranch, TryAgain, Gate, Commit, CommitRefused, RepairDiscarded,
            Reviewed, Fails, repo, queue, build, ghost
<1>1. ~ BuildInBranch /\ UNCHANGED <<parallel, plan, mode, mem, todo, wave, status>>
  BY DEF CInv, InBranch
<1>2. cur' \in Slugs /\ cur'[1] \in Tasks
  BY <1>1, SlugTypes DEF TInv, Working, QueueOK
<1>3. Planned(plan)' = Planned(plan) /\ \A t, st : Row(plan, t, st)' = Row(plan, t, st)
  BY <1>1 DEF Planned, Before, RoundOf, Row
<1>4. \/ results' = results /\ prep' \cup {cur'} = prep \cup {cur'} /\ pc' \in {"gate", "commit", "review"}
         /\ \/ cur' = cur /\ prep' = prep /\ pc \in {"gate", "commit", "review"}
            \/ pc = "build"
      \/ \E st \in Statuses : results' = results \cup {Row(plan, cur'[1], st)}
         /\ prep \subseteq prep' \cup {cur'} /\ (cur' = cur \/ pc = "build")
         /\ pc' = Onward(wave, prep')
  BY <1>1 DEF Statuses
<1>5. \A t : Pending(t) => Pending(t)' \/ HasRow(t, results')
  BY <1>1, <1>4 DEF Pending, HasRow
<1>6. PlanCovered'
  BY <1>1, <1>3, <1>4, <1>5 DEF CInv, PlanCovered, HasRow
<1>7. PlaceOK'
  <2>1. \A r \in results : \E t \in Tasks, st \in Statuses : r = Row(plan, t, st)
    BY DEF CInv, PlaceOK
  <2>2. \A r \in results' : \E t \in Tasks, st \in Statuses : r = Row(plan, t, st)
    BY <1>2, <1>4, <2>1
  <2>3. \A r \in results' : \E t \in Tasks, st \in Statuses : r = Row(plan, t, st)'
    BY <1>3, <2>2
  <2>4. /\ pc' \in {"record", "spec", "build", "gate", "commit", "review"}
        /\ pc' = "record" => wave' = {} /\ prep' = {}
    BY <1>1, <1>4 DEF Onward
  <2> QED
    BY <2>3, <2>4 DEF PlaceOK
<1>8. CompletedMeansBuilt'
  <2>1. head' = head \/ head' = [doc |-> tree, work |-> head.work \cup {Work(cur[1])}]
    BY <1>1
  <2>2. head.work \subseteq head'.work
    BY <2>1
  <2> QED
    BY <1>1, <2>2, CompletedStays DEF CInv
<1> QED
  BY <1>1, <1>6, <1>7, <1>8 DEF CInv

LEMMA CInvRecord ==
  ASSUME TInv, CInv, RecordOutcomes
  PROVE  CInv'
<1> USE DEF RecordOutcomes
<1>1. UNCHANGED <<parallel, plan, mode, todo, wave, prep, status, head>>
  BY DEF ghost
<1>2. Planned(plan)' = Planned(plan) /\ \A t, st : Row(plan, t, st)' = Row(plan, t, st)
  BY <1>1 DEF Planned, Before, RoundOf, Row
<1>3. \A t : HasRow(t, mem \cup results) => HasRow(t, mem')
  <2> SUFFICES ASSUME NEW t, HasRow(t, mem \cup results) PROVE HasRow(t, mem')
    OBVIOUS
  <2>1. \A u, st : Row(plan, u, st).task = u
    BY DEF Row
  <2>2. CASE \E r \in results : r.task = t
    BY <2>1, <2>2 DEF CInv, PlaceOK, Record, HasRow
  <2>3. CASE ~ \E r \in results : r.task = t
    BY <2>1, <2>3 DEF Record, HasRow
  <2> QED
    BY <2>2, <2>3
<1>4. PlanCovered'
  BY <1>1, <1>2, <1>3 DEF CInv, PlanCovered, Pending, HasRow
<1>5. PlaceOK'
  BY <1>1 DEF CInv, PlaceOK, TInv, RunOK
<1>6. CompletedMeansBuilt'
  BY <1>1, CompletedStays DEF CInv
<1> QED
  BY <1>1, <1>4, <1>5, <1>6 DEF CInv

\* The report: rows that all say "built" cover the plan, and they are true.
LEMMA CInvReport ==
  ASSUME TInv, RInv, CInv, Report
  PROVE  CInv'
<1> USE DEF Report, queue, build
<1>1. UNCHANGED <<parallel, plan, mode, mem, head, results>> /\ pc' = "tag"
  OBVIOUS
<1>2. Planned(plan)' = Planned(plan) /\ \A t : Work(t)' = Work(t)
  BY <1>1 DEF Planned, Before, RoundOf, Work
<1>3. ASSUME status' = "completed", NEW t \in Planned(plan) PROVE Work(t) \in head.work
  <2>1. status # "halted" /\ \A r \in mem : r.status = "built"
    BY <1>3 DEF Verdict
  <2>2. HasRow(t, mem)
    BY <1>3, <2>1 DEF CInv, PlaceOK, PlanCovered, TInv, RunOK
  <2>3. PICK st \in Statuses : Row(plan, t, st) \in mem
    BY <2>2 DEF HasRow
  <2>4. Row(plan, t, st).status = "built" /\ Row(plan, t, st).task = t
        /\ Row(plan, t, st).title = plan.title[t]
    BY <2>1, <2>3 DEF Row
  <2> QED
    BY <2>3, <2>4 DEF RInv, RowsTrue, Work
<1>4. CompletedMeansBuilt'
  BY <1>1, <1>2, <1>3 DEF CompletedMeansBuilt
<1> QED
  BY <1>1, <1>4 DEF CInv, PlanCovered, PlaceOK, Row

LEMMA CInvEnd ==
  ASSUME TInv, CInv, TagCheckpoint \/ Crash
  PROVE  CInv'
<1> USE DEF TagCheckpoint, Crash, repo, queue, build, ghost
<1>1. UNCHANGED <<parallel, plan, head>> /\ pc' = "idle" /\ results' \in {results, {}}
  OBVIOUS
<1>2. CompletedMeansBuilt'
  BY <1>1, CompletedStays DEF CInv
<1> QED
  BY <1>1, <1>2 DEF CInv, PlanCovered, PlaceOK, Row

LEMMA CInvNext ==
  ASSUME MaxUndos = 0, ParallelFlags \subseteq {FALSE}
  PROVE  TInv /\ RInv /\ CInv /\ [Next]_vars => CInv'
<1> SUFFICES ASSUME TInv, RInv, CInv, [Next]_vars PROVE CInv'
  OBVIOUS
<1>1. CASE CreatePlanning \/ CreateBlocked \/ CreateFromLock
  BY <1>1, CInvStart
<1>2. CASE ScheduleTask \/ ScheduleWave \/ ScheduleDone \/ RetryTask \/ RetryDone
  BY <1>2, CInvSchedule
<1>3. CASE SpecStage
  BY <1>3, CInvSpec DEF SpecStage
<1>4. CASE \/ BuildInPlace \/ BuildInBranch \/ TryAgain \/ Gate \/ Commit \/ CommitRefused
           \/ RepairDiscarded \/ Reviewed
  BY <1>4, CInvBuild
<1>5. CASE RecordOutcomes
  BY <1>5, CInvRecord
<1>6. CASE Report
  BY <1>6, CInvReport
<1>7. CASE TagCheckpoint \/ Crash
  BY <1>7, CInvEnd
<1>8. ~ Undo
  BY DEF Undo, FaultLeft, TInv, RunOK
<1>9. CASE UNCHANGED vars
  <2>1. /\ UNCHANGED <<pc, mode, mem, todo, wave, prep, cur, results, status, head, parallel>>
        /\ plan' = plan
    BY <1>9 DEF vars, repo, queue, build, ghost
  <2>2. Planned(plan)' = Planned(plan) /\ \A t, st : Row(plan, t, st)' = Row(plan, t, st)
    BY <2>1 DEF Planned, Before, RoundOf, Row
  <2>3. PlanCovered'
    BY <2>1, <2>2 DEF CInv, PlanCovered, Pending, HasRow
  <2>4. PlaceOK'
    BY <2>1, <2>2 DEF CInv, PlaceOK
  <2> QED
    BY <2>1, <2>3, <2>4, CompletedStays DEF CInv
<1> QED
  BY <1>1, <1>2, <1>3, <1>4, <1>5, <1>6, <1>7, <1>8, <1>9 DEF Next, Step

\* A sequential run that ends "completed" has every planned task committed,
\* through crashes, continuations, re-plans, refused commits and retries.
THEOREM CompletedAlwaysBuilt ==
  ASSUME MaxUndos = 0, ParallelFlags \subseteq {FALSE}
  PROVE  Spec => []CompletedMeansBuilt
<1>1. TInv /\ RInv /\ CInv /\ [Next]_vars => (TInv /\ RInv /\ CInv)'
  BY TInvNext, RInvNext, CInvNext
<1>2. Spec => [](TInv /\ RInv /\ CInv)
  BY <1>1, TInvInit, RInvInit, CInvInit, PTL DEF Spec
<1>3. CInv => CompletedMeansBuilt
  BY DEF CInv
<1> QED
  BY <1>2, <1>3, PTL

-----------------------------------------------------------------------------
(* Gated code. *)

\* The files of a commit are those of the work committed up to it, and what a
\* build had left in the tree.
Owned(c) == c.doc.files \subseteq c.work \cup left

\* The task whose build has written into the tree, or may have.
Building == IF pc \in {"gate", "commit"} THEN {Work(cur[1])} ELSE {}

\* The index holds such files too, and the tree beside them only what is left and
\* what is being built.
FilesSettled ==
  /\ Owned(head) /\ \A i \in 1 .. Len(tags) : Owned(tags[i])
  /\ index.files \subseteq head.work \cup left
  /\ tree.files \subseteq index.files \cup left \cup Building
  /\ pc = "gate" => pre \subseteq index.files \cup left

LEMMA FilesGated == FilesSettled => OnlyGatedCodeIsCommitted
BY DEF OnlyGatedCodeIsCommitted, FilesSettled, Owned

LEMMA FilesInit == Init => FilesSettled
BY DEF Init, FilesSettled, Owned, NoFiles

\* Bookkeeping touches no file; a failed build keeps what its clean slate and the
\* index hold; a hard reset keeps what was not tracked.
LEMMA ResetFiles ==
  ASSUME NEW d \in GoodDocs, NEW i \in GoodDocs, NEW t, NEW before
  PROVE  /\ \A s : Bookkeep(d, s).files = d.files
         /\ ResetWorkspace(d, i, before).files = (d.files \cap before) \cup i.files
         /\ HardReset(d, i, t).files = (d.files \ i.files) \cup t.files
<1>0. Checkout(d, i) \in GoodDocs
  BY DocTypes
<1>1. Checkout(d, i) \in GoodDocs /\ Checkout(d, i).files = d.files
  BY <1>0 DEF Checkout, GoodDocs, Docs
<1>2. ResetWorkspace(d, i, before).files = (d.files \cap before) \cup i.files
  BY <1>1 DEF ResetWorkspace, GoodDocs, Docs
<1> QED
  BY <1>2 DEF Bookkeep, HardReset, GoodDocs, Docs

\* Steps that touch no file, and none of a task being built.
LEMMA FilesSame ==
  ASSUME FilesSettled, tree'.files = tree.files, index'.files = index.files,
         head'.work = head.work, head'.doc.files \in {head.doc.files, index.files},
         tags' = tags, left' = left,
         pc \notin {"gate", "commit"}, pc' \notin {"gate", "commit"}
  PROVE  FilesSettled'
BY DEF FilesSettled, Owned, Building

LEMMA FilesQuiet ==
  ASSUME TInv, FilesSettled,
         \/ CreatePlanning \/ CreateBlocked \/ CreateFromLock
         \/ ScheduleTask \/ ScheduleWave \/ ScheduleDone
         \/ Reviewed \/ RecordOutcomes \/ RetryTask \/ RetryDone \/ Report
  PROVE  FilesSettled'
<1>1. tree \in GoodDocs
  BY DEF TInv, DiskOK
<1>2. tree'.files = tree.files
  <2>1. \/ tree' = tree \/ (\E p : tree' = [tree EXCEPT !.plan = p])
        \/ (\E rows : tree' = WriteRows(tree, rows))
    BY DEF CreatePlanning, CreateBlocked, CreateFromLock, ScheduleTask, ScheduleWave,
           ScheduleDone, Reviewed, RecordOutcomes, RetryTask, RetryDone, Report, repo
  <2> QED
    BY <1>1, <2>1 DEF WriteRows, GoodDocs, Docs
<1>3. UNCHANGED <<index, head, tags, left>>
  BY DEF CreatePlanning, CreateBlocked, CreateFromLock, Start, ScheduleTask, ScheduleWave,
         ScheduleDone, Reviewed, RecordOutcomes, RetryTask, RetryDone, Report, repo, build
<1>4. pc \notin {"gate", "commit"} /\ pc' \notin {"gate", "commit"}
  BY DEF CreatePlanning, CreateBlocked, CreateFromLock, Start, ScheduleTask, ScheduleWave,
         ScheduleDone, Reviewed, RecordOutcomes, RetryTask, RetryDone, Report, Onward
<1> QED
  BY <1>2, <1>3, <1>4, FilesSame

LEMMA FilesSpec ==
  ASSUME TInv, FilesSettled, NEW s \in Slugs,
         SpecFrozen(s) \/ SpecBlocked(s) \/ SpecApproved(s)
  PROVE  FilesSettled'
<1> USE DEF SpecFrozen, SpecBlocked, SpecApproved, Specified, Attempt
<1>1. tree \in GoodDocs /\ index \in GoodDocs /\ head \in GoodCommits
  BY DEF TInv, DiskOK
<1>2. tree'.files = tree.files /\ index'.files = index.files
  <2>1. /\ tree' = tree \/ tree' = [tree EXCEPT !.specs[s] = "open"]
        /\ index' = index \/ index' = [index EXCEPT !.specs[s] = "open"]
    OBVIOUS
  <2> HIDE DEF SpecFrozen, SpecBlocked, SpecApproved, Specified, Attempt
  <2> QED
    BY <1>1, <2>1 DEF GoodDocs, Docs
<1>3. head'.work = head.work /\ (head'.doc = head.doc \/ head'.doc = index')
  BY <1>1 DEF GoodCommits
<1>4. /\ UNCHANGED <<tags, left>>
      /\ pc \notin {"gate", "commit"} /\ pc' \notin {"gate", "commit"}
  BY DEF Onward, build
<1> QED
  BY <1>2, <1>3, <1>4, FilesSame

\* In the shared tree: the slate is what the tree holds when the loop starts, and
\* whichever way the loop ends, what its attempts wrote is committed, deleted or left.
LEMMA FilesInPlace ==
  ASSUME TInv, FilesSettled, BuildInPlace \/ TryAgain \/ Gate
  PROVE  FilesSettled'
<1>1. /\ tree \in GoodDocs /\ index \in GoodDocs
  BY DEF TInv, DiskOK
<1>2. CASE BuildInPlace
  <2>1. /\ UNCHANGED <<tree, index, head, tags, left>> /\ pc = "build"
        /\ pre' = tree.files \/ pc' \notin {"gate", "commit"}
    BY <1>2 DEF BuildInPlace, Fails, Onward, repo
  <2> QED
    BY <2>1 DEF FilesSettled, Owned, Building
<1>3. CASE TryAgain
  <2>1. /\ UNCHANGED <<index, head, tags, left, pc, cur, plan, pre>> /\ pc = "gate"
        /\ tree' = tree \/ tree' = Code
    BY <1>3 DEF TryAgain
  <2>2. tree'.files \subseteq tree.files \cup Building /\ Building' = Building
    BY <2>1, CodeTypes DEF Building, Work
  <2> QED
    BY <2>1, <2>2 DEF FilesSettled, Owned
<1>4. CASE Gate
  <2>1. /\ UNCHANGED <<index, head, tags, plan, cur>> /\ pc = "gate"
        /\ \/ pc' = "commit" /\ tree' = Bookkeep(Code, cur) /\ left' = left
           \/ /\ pc' \notin {"gate", "commit"} /\ left' = left
              /\ tree' = ResetWorkspace(Code, index, pre)
           \/ pc' \notin {"gate", "commit"} /\ left' = left \cup InTree /\ tree' = tree
    BY <1>4 DEF Gate, Fails, Onward
  <2>2. Work(cur[1])' = Work(cur[1])
    BY <2>1 DEF Work
  <2>3. Code \in GoodDocs /\ Code.files = tree.files \cup {Work(cur[1])}
    BY <2>1, CodeTypes
  <2>4. CASE pc' = "commit"
    <3>1. tree'.files = tree.files \cup {Work(cur[1])}
      BY <1>1, <2>1, <2>3, <2>4, ResetFiles
    <3> QED
      BY <2>1, <2>2, <2>4, <3>1 DEF FilesSettled, Owned, Building
  <2>5. CASE tree' = ResetWorkspace(Code, index, pre) /\ pc' \notin {"gate", "commit"}
             /\ left' = left
    <3>1. tree'.files \subseteq pre \cup index.files
      BY <1>1, <2>3, <2>5, ResetFiles
    <3> QED
      BY <2>1, <2>5, <3>1 DEF FilesSettled, Owned, Building
  <2>6. CASE tree' = tree /\ pc' \notin {"gate", "commit"} /\ left' = left \cup InTree
    BY <2>1, <2>6 DEF FilesSettled, Owned, Building, InTree
  <2> QED
    BY <2>1, <2>4, <2>5, <2>6
<1> QED
  BY <1>2, <1>3, <1>4

LEMMA FilesCommit ==
  ASSUME TInv, FilesSettled, BuildInBranch \/ Commit \/ CommitRefused
  PROVE  FilesSettled'
<1>1. tree \in GoodDocs /\ index \in GoodDocs /\ head \in GoodCommits
  BY DEF TInv, DiskOK
<1>2. CASE BuildInBranch
  <2>1. [tree EXCEPT !.files = @ \cup {Work(cur'[1])}] \in GoodDocs
    BY <1>1, <1>2, SlugTypes, RowTypes, EditTypes
    DEF BuildInBranch, NextSpec, Work, TInv, Working, QueueOK
  <2>2. /\ UNCHANGED <<index, head, tags, left, plan>> /\ pc = "build"
        /\ \/ pc' = "commit" /\ tree'.files = tree.files \cup {Work(cur'[1])}
           \/ pc' \notin {"gate", "commit"} /\ tree' = tree
    <3>1. \/ /\ pc' = "commit"
             /\ tree' = Bookkeep([tree EXCEPT !.files = @ \cup {Work(cur'[1])}], cur')
          \/ pc' \notin {"gate", "commit"} /\ tree' = tree
      BY <1>2 DEF BuildInBranch, Fails, Onward
    <3>2. Bookkeep([tree EXCEPT !.files = @ \cup {Work(cur'[1])}], cur').files
            = tree.files \cup {Work(cur'[1])}
      BY <1>1, <2>1 DEF Bookkeep, GoodDocs, Docs
    <3> QED
      BY <1>2, <3>1, <3>2 DEF BuildInBranch
  <2>3. Work(cur'[1]) = Work(cur[1])'
    BY <2>2 DEF Work
  <2> QED
    BY <2>2, <2>3 DEF FilesSettled, Owned, Building
<1>3. CASE Commit
  <2>1. /\ UNCHANGED <<tree, tags, left>> /\ pc = "commit" /\ pc' = "review"
        /\ index' = tree /\ head'.doc = tree
        /\ head'.work = head.work \cup {Work(cur[1])}
    BY <1>3 DEF Commit
  <2> QED
    BY <2>1 DEF FilesSettled, Owned, Building
<1>4. CASE CommitRefused
  <2>1. /\ UNCHANGED <<head, tags>> /\ index' = tree'
        /\ pc = "commit" /\ pc' \notin {"gate", "commit"}
        /\ \/ tree' = head.doc /\ left' = left
           \/ tree' = tree /\ left' = left \cup InTree
    BY <1>4 DEF CommitRefused, Fails, Onward
  <2>2. \A w : w \in tree.files => w \in head.work \cup left \/ w \in InTree
    BY <2>1 DEF FilesSettled, Building, InTree
  <2> QED
    BY <2>1, <2>2 DEF FilesSettled, Owned, Building
<1> QED
  BY <1>2, <1>3, <1>4

LEMMA FilesReset ==
  ASSUME TInv, FilesSettled, RepairDiscarded \/ TagCheckpoint \/ Undo \/ Crash
  PROVE  FilesSettled'
<1>1. /\ tree \in GoodDocs /\ index \in GoodDocs /\ tags \in Seq(GoodCommits)
  BY DEF TInv, DiskOK
<1>2. CASE RepairDiscarded
  <2>1. /\ UNCHANGED <<head, tags, left>> /\ pc = "review" /\ pc' = "review"
        /\ index' = head.doc /\ tree' = HardReset(tree, index, head.doc)
    BY <1>2 DEF RepairDiscarded
  <2>2. tree'.files = (tree.files \ index.files) \cup head.doc.files
    BY <1>1, <2>1, ResetFiles
  <2> QED
    BY <2>1, <2>2 DEF FilesSettled, Owned, Building
<1>3. CASE TagCheckpoint
  <2>1. UNCHANGED <<tree, index, head, left>> /\ pc = "tag" /\ pc' = "idle"
    BY <1>3 DEF TagCheckpoint, build
  <2>2. \A i \in 1 .. Len(tags') : tags'[i] = head \/ \E j \in 1 .. Len(tags) : tags'[i] = tags[j]
    <3>1. tags' = tags \/ tags' = Append(tags, head)
      BY <1>3 DEF TagCheckpoint
    <3> QED
      BY <1>1, <3>1, AppendProperties
  <2> QED
    BY <2>1, <2>2 DEF FilesSettled, Owned, Building
<1>4. CASE Undo
  <2>1. PICK i \in 2 .. Len(tags) : /\ head' = tags[i - 1]
                                    /\ tree' = HardReset(tree, index, head'.doc)
                                    /\ index' = head'.doc
                                    /\ tags' = SubSeq(tags, 1, i - 1)
    BY <1>4 DEF Undo
  <2>2. pc = "idle" /\ pc' = "idle" /\ left' = left
    BY <1>4 DEF Undo, build
  <2>3. i - 1 \in 1 .. Len(tags)
    BY <1>1
  <2>4. tree'.files = (tree.files \ index.files) \cup head'.doc.files
    BY <1>1, <2>1, ResetFiles
  <2>5. \A j \in 1 .. Len(tags') : j \in 1 .. Len(tags) /\ tags'[j] = tags[j]
    BY <1>1, <2>1, <2>3, SubSeqProperties
  <2> QED
    BY <2>1, <2>2, <2>3, <2>4, <2>5 DEF FilesSettled, Owned, Building
<1>5. CASE Crash
  <2>1. /\ UNCHANGED <<tree, index, head, tags>> /\ pc' = "idle"
        /\ left \subseteq left'
        /\ pc \in {"gate", "commit"} => left' = left \cup InTree
    BY <1>5 DEF Crash, repo
  <2> QED
    BY <2>1 DEF FilesSettled, Owned, Building, InTree
<1> QED
  BY <1>2, <1>3, <1>4, <1>5

LEMMA FilesNext == TInv /\ FilesSettled /\ [Next]_vars => FilesSettled'
<1> SUFFICES ASSUME TInv, FilesSettled, [Next]_vars PROVE FilesSettled'
  OBVIOUS
<1>1. CASE SpecStage
  BY <1>1, FilesSpec DEF SpecStage
<1>2. CASE BuildInPlace \/ TryAgain \/ Gate
  BY <1>2, FilesInPlace
<1>3. CASE BuildInBranch \/ Commit \/ CommitRefused
  BY <1>3, FilesCommit
<1>4. CASE RepairDiscarded \/ TagCheckpoint \/ Undo \/ Crash
  BY <1>4, FilesReset
<1>5. CASE UNCHANGED vars
  BY <1>5 DEF vars, repo, build, FilesSettled, Owned, Building, Work
<1> QED
  BY <1>1, <1>2, <1>3, <1>4, <1>5, FilesQuiet DEF Next, Step

\* A commit holds, beside the work gated and committed up to it, only code its own
\* build left in the tree: by a crash, by a refused commit, or by an error on the
\* last attempt, which resets nothing.  Every other failed build is taken back,
\* however many attempts it wrote, and whatever was undone, repaired or left before.
THEOREM OnlyGatedCodeIsEverCommitted == Spec => []OnlyGatedCodeIsCommitted
<1>1. Spec => [](TInv /\ FilesSettled)
  BY TInvInit, TInvNext, FilesInit, FilesNext, PTL DEF Spec
<1> QED
  BY <1>1, FilesGated, PTL

-----------------------------------------------------------------------------
(* Where the documents git keeps come from. *)

Sources == {tree, index, head.doc} \cup {tags[i].doc : i \in 1 .. Len(tags)}

RowsFrom(d) == RowsOf(d) \in {mem, mem'} \cup {RowsOf(e) : e \in Sources}

PlanFrom(d) == \/ d.plan = NoPlan
               \/ d.plan \in Plans /\ DagCheck(d.plan)
               \/ d.plan \in {e.plan : e \in Sources}

From(d) == RowsFrom(d) /\ PlanFrom(d)

LEMMA OldFrom == \A d \in Sources : From(d)
BY DEF From, RowsFrom, PlanFrom

LEMMA TreeFrom ==
  ASSUME TInv, [Next]_vars
  PROVE  From(tree')
<1>1. /\ tree \in GoodDocs /\ index \in GoodDocs /\ head.doc \in GoodDocs
      /\ \A i \in 1 .. Len(tags) : tags[i].doc \in GoodDocs
  <2>1. \A i \in 1 .. Len(tags) : tags[i] \in GoodCommits
    BY DEF TInv, DiskOK
  <2> QED
    BY <2>1 DEF TInv, DiskOK, GoodCommits
<1>2. From(tree) /\ From(index) /\ From(head.doc)
  BY OldFrom DEF Sources
<1>3. ASSUME tree' = tree PROVE From(tree')
  BY <1>2, <1>3
<1>4. ASSUME NEW p, tree' = [tree EXCEPT !.plan = p], p = NoPlan \/ (p \in Plans /\ DagCheck(p))
      PROVE  From(tree')
  <2>1. tree'.plan = p /\ tree'.rows = tree.rows
    BY <1>1, <1>4 DEF GoodDocs, Docs
  <2> QED
    BY <1>2, <1>4, <2>1 DEF From, RowsFrom, PlanFrom, RowsOf
<1>5. ASSUME NEW d, d.rows = tree.rows, d.plan = tree.plan PROVE From(d)
  BY <1>2, <1>5 DEF From, RowsFrom, PlanFrom, RowsOf
<1>6. ASSUME NEW rows, tree' = WriteRows(tree, rows), rows \in {mem, mem'}
      PROVE  From(tree')
  <2>1. tree'.plan = tree.plan /\ RowsOf(tree') = rows
    BY <1>1, <1>6, WrittenRows DEF WriteRows, GoodDocs, Docs
  <2> QED
    BY <1>2, <1>6, <2>1 DEF From, RowsFrom, PlanFrom
<1>7. ASSUME NEW t, tree' = HardReset(tree, index, t), From(t), t \in GoodDocs PROVE From(tree')
  <2>1. tree'.plan \in {tree.plan, t.plan} /\ RowsOf(tree') \in {RowsOf(tree), RowsOf(t)}
    BY <1>1, <1>7, ResetRows DEF HardReset
  <2> QED
    BY <1>2, <1>7, <2>1 DEF From, RowsFrom, PlanFrom
<1>8. CASE \/ ScheduleTask \/ ScheduleWave \/ ScheduleDone \/ Commit \/ Reviewed
           \/ RetryDone \/ TagCheckpoint \/ Crash \/ CreateFromLock \/ UNCHANGED vars
  BY <1>3, <1>8 DEF ScheduleTask, ScheduleWave, ScheduleDone, Commit, Reviewed, RetryDone,
                    TagCheckpoint, Crash, CreateFromLock, vars, repo
<1>9. CASE CreatePlanning \/ CreateBlocked
  BY <1>4, <1>9 DEF CreatePlanning, CreateBlocked
<1>10. CASE SpecStage
  <2>1. tree' = tree \/ \E s \in Slugs : tree' = [tree EXCEPT !.specs[s] = "open"]
    BY <1>10 DEF SpecStage, SpecFrozen, SpecBlocked, SpecApproved, Specified
  <2>2. tree'.rows = tree.rows /\ tree'.plan = tree.plan
    BY <1>1, <2>1 DEF GoodDocs, Docs
  <2> QED
    BY <1>5, <2>2
<1>11. CASE BuildInPlace \/ BuildInBranch
  <2> DEFINE coded == [tree EXCEPT !.files = @ \cup {Work(cur'[1])}]
  <2>1. coded.rows = tree.rows /\ coded.plan = tree.plan
    BY <1>1 DEF GoodDocs, Docs
  <2>2. DOMAIN coded = DOMAIN tree /\ DOMAIN tree = {"plan", "rows", "specs", "files"}
    BY <1>1 DEF GoodDocs, Docs
  <2>3. tree' = tree \/ tree' = Bookkeep(coded, cur')
    BY <1>11 DEF BuildInPlace, BuildInBranch, repo
  <2> HIDE DEF coded
  <2>4. Bookkeep(coded, cur').rows = coded.rows /\ Bookkeep(coded, cur').plan = coded.plan
    BY <2>2 DEF Bookkeep
  <2> QED
    BY <1>5, <2>1, <2>3, <2>4
<1>12. CASE Gate
  <2>0. /\ Code \in GoodDocs /\ Code.plan = tree.plan /\ Code.rows = tree.rows
        /\ RowsOf(Code) = RowsOf(tree)
    BY <1>12, CodeTypes DEF Gate, RowsOf
  <2>1. Checkout(Code, index).plan \in {tree.plan, index.plan}
    BY <1>1, <2>0 DEF Checkout, GoodDocs, Docs
  <2>2. ResetWorkspace(Code, index, pre).plan = Checkout(Code, index).plan
    BY <1>1, <2>0, DocTypes DEF ResetWorkspace, GoodDocs, Docs
  <2>3. RowsOf(ResetWorkspace(Code, index, pre)) \in {RowsOf(tree), RowsOf(index)}
    BY <1>1, <2>0, ResetRows
  <2>4. From(ResetWorkspace(Code, index, pre))
    BY <1>2, <2>1, <2>2, <2>3 DEF From, RowsFrom, PlanFrom
  <2>5. Bookkeep(Code, cur).rows = tree.rows /\ Bookkeep(Code, cur).plan = tree.plan
    BY <2>0 DEF Bookkeep, GoodDocs, Docs
  <2> QED
    BY <1>3, <1>5, <1>12, <2>4, <2>5 DEF Gate
<1>13. CASE CommitRefused
  BY <1>2, <1>13 DEF CommitRefused
<1>14. CASE RepairDiscarded
  BY <1>1, <1>2, <1>7, <1>14 DEF RepairDiscarded
<1>15. CASE RecordOutcomes \/ RetryTask \/ Report
  BY <1>3, <1>6, <1>15 DEF RecordOutcomes, RetryTask, Report
<1>16. CASE Undo
  <2>1. PICK i \in 2 .. Len(tags) : head' = tags[i - 1] /\ tree' = HardReset(tree, index, head'.doc)
    BY <1>16 DEF Undo
  <2>2. i - 1 \in 1 .. Len(tags)
    BY DEF TInv, DiskOK
  <2>3. head'.doc \in Sources /\ head'.doc \in GoodDocs
    BY <1>1, <2>1, <2>2 DEF Sources
  <2> QED
    BY <1>7, <2>1, <2>3, OldFrom
<1>17. CASE TryAgain
  BY <1>3, <1>5, <1>17, CodeTypes DEF TryAgain
<1> QED
  BY <1>8, <1>9, <1>10, <1>11, <1>12, <1>13, <1>14, <1>15, <1>16, <1>17 DEF Next, Step

\* Whatever git moves about, a document's rows are rows some document or the run
\* held, and its plan is one a document had, or one dag_check accepted.
LEMMA NewDocs ==
  ASSUME TInv, [Next]_vars
  PROVE  \A d \in Sources' : From(d)
<1>1. /\ tree \in GoodDocs /\ index \in GoodDocs /\ head \in GoodCommits
      /\ tags \in Seq(GoodCommits)
  BY DEF TInv, DiskOK
<1>2. From(tree') /\ \A d \in Sources : From(d)
  BY TreeFrom, OldFrom
<1>3. From(index') /\ From(head'.doc)
  <2>1. CASE SpecStage
    <3>1. /\ index' = index \/ \E s \in Slugs : index' = [index EXCEPT !.specs[s] = "open"]
          /\ head' = head \/ head' = [head EXCEPT !.doc = index']
      BY <2>1 DEF SpecStage, SpecFrozen, SpecBlocked, SpecApproved, Specified
    <3>2. index'.rows = index.rows /\ index'.plan = index.plan
      BY <1>1, <3>1 DEF GoodDocs, Docs
    <3>3. head'.doc \in {head.doc, index'}
      BY <1>1, <3>1 DEF GoodCommits
    <3>4. From(index')
      BY <1>2, <3>2 DEF Sources, From, RowsFrom, PlanFrom, RowsOf
    <3> QED
      BY <1>2, <3>3, <3>4 DEF Sources
  <2>2. CASE Undo
    <3>1. PICK i \in 2 .. Len(tags) : head' = tags[i - 1] /\ index' = head'.doc
      BY <2>2 DEF Undo
    <3>2. i - 1 \in 1 .. Len(tags)
      BY <1>1
    <3> QED
      BY <1>2, <3>1, <3>2 DEF Sources
  <2>3. CASE ~ SpecStage /\ ~ Undo
    <3>1. /\ index' = index \/ index' = head.doc \/ index' = tree \/ index' = tree'
          /\ \/ head' = head
             \/ head' = [doc |-> tree, work |-> head.work \cup {Work(cur[1])}]
      BY <2>3 DEF Next, Step, CreatePlanning, CreateBlocked, CreateFromLock, Start,
         ScheduleTask, ScheduleWave, ScheduleDone, BuildInPlace, BuildInBranch, TryAgain, Gate, Commit,
         CommitRefused, RepairDiscarded, Reviewed, RecordOutcomes, RetryTask, RetryDone,
         Report, TagCheckpoint, Crash, vars, repo
    <3>2. index' \in Sources \cup {tree'} /\ head'.doc \in Sources
      BY <3>1 DEF Sources
    <3> QED
      BY <1>2, <3>2
  <2> QED
    BY <2>1, <2>2, <2>3
<1>4. \A i \in 1 .. Len(tags') : tags'[i].doc \in Sources
  <2>1. CASE TagCheckpoint
    <3>1. tags' = tags \/ tags' = Append(tags, head)
      BY <2>1 DEF TagCheckpoint
    <3> QED
      BY <1>1, <3>1, AppendProperties DEF Sources
  <2>2. CASE Undo
    <3>1. PICK i \in 2 .. Len(tags) : tags' = SubSeq(tags, 1, i - 1)
      BY <2>2 DEF Undo
    <3>2. i - 1 \in 1 .. Len(tags)
      BY <1>1
    <3>3. \A j \in 1 .. Len(tags') : j \in 1 .. Len(tags) /\ tags'[j] = tags[j]
      BY <1>1, <3>1, <3>2, SubSeqProperties
    <3> QED
      BY <3>3 DEF Sources
  <2>3. CASE ~ TagCheckpoint /\ ~ Undo
    <3>1. tags' = tags
      BY <2>3 DEF Next, Step, CreatePlanning, CreateBlocked, CreateFromLock, Start,
         ScheduleTask, ScheduleWave, ScheduleDone, BuildInPlace, BuildInBranch, TryAgain, Gate, Commit,
         CommitRefused, RepairDiscarded, Reviewed, RecordOutcomes, RetryTask, RetryDone,
         Report, Crash, vars, repo, SpecStage, SpecFrozen, SpecBlocked, SpecApproved,
         Specified, Attempt
    <3> QED
      BY <3>1 DEF Sources
  <2> QED
    BY <2>1, <2>2, <2>3
<1> QED
  BY <1>2, <1>3, <1>4 DEF Sources

-----------------------------------------------------------------------------
(* The retries of a sequential run. *)

\* One row per task.
Single(rows) == \A r, s \in rows : r.task = s.task => r = s

SinglesInv == Single(mem) /\ \A d \in Sources : Single(RowsOf(d))

LEMMA SinglesInit == Init => SinglesInv
BY DEF Init, SinglesInv, Sources, Single, RowsOf, NoFiles

LEMMA SinglesNext ==
  ASSUME TInv, SinglesInv, [Next]_vars, pc = "record" => Single(results)
  PROVE  SinglesInv'
<1>1. Single({}) /\ \A rows, some : Single(rows) /\ some \subseteq rows => Single(some)
  BY DEF Single
<1>2. Single(mem')
  <2>1. CASE CreatePlanning \/ CreateFromLock
    <3>1. mem' \subseteq RowsOf(tree')
      BY <2>1 DEF CreatePlanning, CreateFromLock, Start, Resume
    <3>2. RowsOf(tree') = RowsOf(tree)
      BY <2>1 DEF CreatePlanning, CreateFromLock, RowsOf, TInv, DiskOK, GoodDocs, Docs
    <3> QED
      BY <1>1, <3>1, <3>2 DEF SinglesInv, Sources
  <2>2. CASE RecordOutcomes
    BY <2>2 DEF RecordOutcomes, Record, SinglesInv, Single
  <2>3. CASE ~ CreatePlanning /\ ~ CreateFromLock /\ ~ RecordOutcomes
    <3>1. mem' \in {mem, {}}
      BY <2>3 DEF Next, Step, CreateBlocked, ScheduleTask, ScheduleWave, ScheduleDone,
         BuildInPlace, BuildInBranch, TryAgain, Gate, Commit, CommitRefused, RepairDiscarded, Reviewed,
         RetryTask, RetryDone, Report, TagCheckpoint, Crash, Undo, vars, SpecStage,
         SpecFrozen, SpecBlocked, SpecApproved, Specified
    <3> QED
      BY <1>1, <3>1 DEF SinglesInv
  <2> QED
    BY <2>1, <2>2, <2>3
<1>3. \A d \in Sources' : RowsOf(d) \in {mem, mem'} \cup {RowsOf(e) : e \in Sources}
  BY NewDocs DEF From, RowsFrom
<1>4. \A d \in Sources' : Single(RowsOf(d))
  BY <1>2, <1>3 DEF SinglesInv
<1> QED
  BY <1>2, <1>4 DEF SinglesInv

\* Which attempt this pass is.
Pass == IF mode = "first" THEN 1 ELSE 2

Waiting == todo \cup retries \cup wave

\* The tasks with an approved spec or a build under way.
Busy(t) == \/ \E s \in prep : s[1] = t
           \/ pc \in {"gate", "commit", "review"} /\ cur[1] = t

OneAtATime ==
  /\ wave \cap (todo \cup retries) = {}
  /\ pc \in {"schedule", "retry", "report", "tag", "idle"} => wave = {} /\ prep = {} /\ results = {}
  /\ pc = "spec" => results = {} /\ prep = {} /\ \E t \in Tasks : wave = {t}
  /\ pc = "build" => results = {} /\ wave = {} /\ \E s \in Slugs : prep = {s}
  /\ pc \in {"gate", "commit", "review"} => results = {} /\ wave = {} /\ prep = {}
  /\ pc = "record" => wave = {} /\ prep = {} /\ Single(results)

\* How the passes and the verdicts follow each other.
PassesOK ==
  /\ pc \notin {"idle", "tag", "report"} => status = "running"
  /\ pc = "report" => \/ status = "running" /\ mode = "retry"
                      \/ status = "halted" /\ mode = "first"
  /\ pc = "idle" => mem = {}
  /\ pc = "schedule" => mode = "first"
  /\ pc = "retry" => mode = "retry"
  /\ mode = "first" \/ pc \in {"idle", "tag", "report"} => retries = {}
  /\ mode = "retry" => todo = {}

\* A task that waits is tried in this pass still; one whose row says "failed"
\* either waits or was tried in this pass.
Counted ==
  pc \notin {"idle", "tag"} =>
    \A t \in Tasks :
      /\ tried[t] <= Pass
      /\ t \in Waiting => tried[t] = Pass - 1
      /\ Busy(t) => tried[t] = Pass
      /\ t \in Planned(plan) \cap Failed(mem \cup results) => t \in Waiting \/ tried[t] = Pass

AInv == /\ parallel = FALSE /\ SinglesInv /\ OneAtATime /\ PassesOK /\ Counted
        /\ FailuresAreRetried

LEMMA AInvInit == Init => AInv
BY SinglesInit DEF Init, AInv, OneAtATime, PassesOK, Counted, FailuresAreRetried, Failed

\* The plan's tasks are the same while its run lasts.
LEMMA PlannedSame == plan' = plan => Planned(plan)' = Planned(plan)
BY DEF Planned, Before, RoundOf

LEMMA FailedRow ==
  /\ Failed({}) = {}
  /\ \A p, t : Failed({Row(p, t, "failed")}) = {t} /\ Failed({Row(p, t, "built")}) = {}
<1>1. \A p, t, st : Row(p, t, st).task = t /\ Row(p, t, st).status = st
  BY DEF Row
<1> QED
  BY <1>1 DEF Failed

LEMMA FailedAdds ==
  ASSUME NEW rows, NEW new
  PROVE  /\ Failed(rows \cup new) = Failed(rows) \cup Failed(new)
         /\ Failed(Record(rows, new)) \subseteq Failed(rows) \cup Failed(new)
BY DEF Failed, Record

LEMMA AInvStart ==
  ASSUME ParallelFlags \subseteq {FALSE}, TInv, AInv, [Next]_vars,
         CreatePlanning \/ CreateBlocked \/ CreateFromLock
  PROVE  AInv'
<1>0. SinglesInv'
  BY SinglesNext DEF AInv, OneAtATime
<1>1. CASE CreateBlocked
  BY <1>0, <1>1 DEF CreateBlocked, queue, AInv, OneAtATime, PassesOK, Counted, FailuresAreRetried,
                    Failed, Single, TInv, BuildOK
<1>2. ASSUME CreatePlanning \/ CreateFromLock PROVE AInv'
  <2>1. PICK p : Start(p, tree')
    BY <1>2 DEF CreatePlanning, CreateFromLock
  <2>2. /\ pc = "idle" /\ pc' = "schedule" /\ mode' = "first" /\ status' = "running"
        /\ plan' = p /\ todo' = ToBuild(p, mem') /\ tried' = [t \in Tasks |-> 0]
        /\ parallel' = FALSE /\ UNCHANGED <<wave, prep, results, retries>>
    BY <2>1 DEF Start
  <2>3. wave = {} /\ prep = {} /\ results = {} /\ retries = {}
    BY <2>2 DEF AInv, OneAtATime, PassesOK
  <2>4. mem' \subseteq RowSet
    BY TInvNext DEF TInv, RowsOK
  <2>5. \A t \in Planned(p) : t \in Failed(mem') => t \in todo'
    <3> SUFFICES ASSUME NEW t \in Planned(p), NEW r \in mem', r.task = t, r.status = "failed",
                        Row(p, t, "built") \in mem'
                 PROVE  FALSE
      BY <2>2 DEF ToBuild, Failed
    <3>1. Row(p, t, "built").task = t /\ Row(p, t, "built").status = "built"
      BY DEF Row
    <3> QED
      BY <1>0, <3>1 DEF SinglesInv, Single
  <2>6. Counted'
    BY <2>2, <2>3, <2>5 DEF Counted, Pass, Waiting, Busy, Planned, Failed
  <2>7. OneAtATime' /\ PassesOK'
    BY <2>2, <2>3 DEF OneAtATime, PassesOK
  <2>8. FailuresAreRetried'
    BY <2>2 DEF FailuresAreRetried
  <2> QED
    BY <1>0, <2>2, <2>6, <2>7, <2>8 DEF AInv
<1> QED
  BY <1>1, <1>2

LEMMA AInvSchedule ==
  ASSUME TInv, AInv, [Next]_vars, ScheduleTask \/ ScheduleWave \/ ScheduleDone
  PROVE  AInv'
<1>0. SinglesInv' /\ \A t \in Tasks : tried[t] \in Nat
  BY SinglesNext DEF AInv, OneAtATime, TInv, BuildOK
<1>1. /\ pc = "schedule" /\ mode = "first" /\ retries = {} /\ status = "running"
      /\ wave = {} /\ prep = {} /\ results = {}
  BY DEF ScheduleTask, ScheduleWave, ScheduleDone, AInv, OneAtATime, PassesOK
<1>2. ~ ScheduleWave
  BY DEF ScheduleWave, AInv
<1>3. CASE ScheduleTask
  <2>1. UNCHANGED <<parallel, mode, plan, mem, prep, results, retries, tried>>
    BY <1>3 DEF ScheduleTask
  <2>2. Planned(plan)' = Planned(plan)
    BY <2>1, PlannedSame
  <2>3. \A t \in Tasks : /\ tried[t] <= 1 /\ (t \in todo => tried[t] = 0)
                         /\ (t \in Planned(plan) \cap Failed(mem) => t \in todo \/ tried[t] = 1)
    BY <1>1 DEF AInv, Counted, Waiting, Pass
  <2>4. CASE pc' = "report" /\ status' = "halted" /\ UNCHANGED <<todo, wave>>
    <3>1. Counted' /\ OneAtATime' /\ PassesOK'
      BY <1>1, <2>1, <2>2, <2>3, <2>4 DEF Counted, Waiting, Pass, Busy, OneAtATime, PassesOK, Failed
    <3>2. FailuresAreRetried'
      BY <2>1, <2>3, <2>4, <1>0 DEF FailuresAreRetried
    <3> QED
      BY <1>0, <2>1, <3>1, <3>2 DEF AInv
  <2>5. CASE \E t \in todo : pc' = "spec" /\ wave' = {t} /\ todo' = todo \ {t} /\ UNCHANGED status
    <3>1. PICK t \in todo : pc' = "spec" /\ wave' = {t} /\ todo' = todo \ {t} /\ status' = status
      BY <2>5
    <3>2. t \in Tasks
      BY DEF TInv, QueueOK
    <3>3. Counted'
      BY <1>1, <2>1, <2>2, <2>3, <3>1 DEF Counted, Waiting, Pass, Busy, Failed
    <3>4. OneAtATime' /\ PassesOK'
      BY <1>1, <2>1, <3>1, <3>2 DEF OneAtATime, PassesOK
    <3>5. FailuresAreRetried'
      BY <1>1, <2>1, <2>2, <2>3, <3>1, <1>0 DEF FailuresAreRetried
    <3> QED
      BY <1>0, <2>1, <3>3, <3>4, <3>5 DEF AInv
  <2> QED
    BY <1>3, <2>4, <2>5 DEF ScheduleTask
<1>4. CASE ScheduleDone
  <2>1. /\ UNCHANGED <<parallel, plan, mem, todo, wave, prep, results, tried, status>>
        /\ todo = {} /\ pc' = "retry" /\ mode' = "retry"
        /\ retries' = Planned(plan) \cap Failed(mem)
    BY <1>4 DEF ScheduleDone, ghost
  <2>2. Planned(plan)' = Planned(plan)
    BY <2>1, PlannedSame
  <2>3. \A t \in Tasks : tried[t] <= 1 /\ (t \in Planned(plan) \cap Failed(mem) => tried[t] = 1)
    BY <1>1, <2>1 DEF AInv, Counted, Waiting, Pass
  <2>4. Counted' /\ OneAtATime' /\ PassesOK'
    BY <1>0, <1>1, <2>1, <2>2, <2>3 DEF Counted, Waiting, Pass, Busy, OneAtATime, PassesOK, Failed
  <2>5. FailuresAreRetried'
    BY <1>0, <1>1, <2>1, <2>3 DEF FailuresAreRetried
  <2> QED
    BY <1>0, <2>1, <2>4, <2>5 DEF AInv
<1> QED
  BY <1>2, <1>3, <1>4

LEMMA AInvSpec ==
  ASSUME TInv, AInv, [Next]_vars, NEW s \in Slugs,
         SpecFrozen(s) \/ SpecBlocked(s) \/ SpecApproved(s)
  PROVE  AInv'
<1>0. SinglesInv' /\ \A t \in Tasks : tried[t] \in Nat
  BY SinglesNext DEF AInv, OneAtATime, TInv, BuildOK
<1> USE DEF SpecFrozen, SpecBlocked, SpecApproved, Specified, Attempt
<1>1. /\ pc = "spec" /\ s[1] \in Tasks /\ status = "running"
      /\ wave = {s[1]} /\ prep = {} /\ results = {}
      /\ s[1] \notin todo /\ s[1] \notin retries
  BY SlugTypes DEF IsFirst, AInv, OneAtATime, PassesOK
<1>2. UNCHANGED <<parallel, mode, plan>> /\ Planned(plan)' = Planned(plan)
  BY PlannedSame
<1>3. tried' = [tried EXCEPT ![s[1]] = @ + 1] /\ tried[s[1]] = Pass - 1 /\ Pass \in {1, 2}
  BY <1>1 DEF AInv, Counted, Waiting, Pass
<1>4. \A t \in Tasks : /\ tried'[t] <= Pass /\ tried'[t] <= 2
                       /\ tried'[t] = IF t = s[1] THEN Pass ELSE tried[t]
  BY <1>0, <1>1, <1>3 DEF AInv, Counted, TInv, BuildOK
<1>5. CASE SpecFrozen(s)
  <2>1. /\ pc' = "idle" /\ status' = "raised" /\ mem' = {} /\ wave' = {} /\ prep' = {}
        /\ results' = {} /\ todo' = {} /\ retries' = {}
    BY <1>5
  <2>2. Counted' /\ OneAtATime' /\ PassesOK' /\ FailuresAreRetried'
    BY <1>4, <2>1 DEF Counted, OneAtATime, PassesOK, FailuresAreRetried
  <2> QED
    BY <1>0, <1>2, <2>2 DEF AInv
<1>6. ASSUME SpecBlocked(s) \/ SpecApproved(s) PROVE AInv'
  <2>1. /\ UNCHANGED <<status, todo, retries, mem>> /\ wave' = {}
        /\ \/ results' = {Row(plan, s[1], "failed")} /\ prep' = {} /\ pc' = "record"
           \/ results' = {} /\ prep' = {s} /\ pc' = "build"
    BY <1>1, <1>6 DEF Onward
  <2>2. /\ Failed(mem' \cup results') \subseteq Failed(mem) \cup {s[1]}
        /\ Failed(mem) = Failed(mem \cup results)
    <3> HIDE DEF SpecFrozen, SpecBlocked, SpecApproved, Specified, Attempt
    <3>1. Failed(results') \subseteq {s[1]}
      BY <2>1, FailedRow
    <3>2. Failed(mem' \cup results') = Failed(mem) \cup Failed(results')
      BY <2>1, FailedAdds
    <3>3. mem \cup results = mem
      BY <1>1
    <3> QED
      BY <3>1, <3>2, <3>3
  <2>3. Counted'
    <3> SUFFICES ASSUME NEW t \in Tasks
                 PROVE  /\ tried'[t] <= Pass
                        /\ t \in Waiting' => tried'[t] = Pass - 1
                        /\ Busy(t)' => tried'[t] = Pass
                        /\ t \in Planned(plan) \cap Failed(mem' \cup results')
                             => t \in Waiting' \/ tried'[t] = Pass
      BY <1>2 DEF Counted, Pass, Failed
    <3>1. t \in Waiting' => t \in Waiting /\ t # s[1]
      BY <1>1, <2>1 DEF Waiting
    <3>2. t \in Waiting => t \in Waiting' \/ t = s[1]
      BY <1>1, <2>1 DEF Waiting
    <3>3. Busy(t)' => t = s[1]
      BY <2>1 DEF Busy
    <3>4. /\ t \in Waiting => tried[t] = Pass - 1
          /\ t \in Planned(plan) \cap Failed(mem) => t \in Waiting \/ tried[t] = Pass
      BY <1>1, <2>2 DEF AInv, Counted
    <3> QED
      BY <1>4, <2>2, <3>1, <3>2, <3>3, <3>4
  <2>4. OneAtATime'
    BY <1>1, <2>1 DEF OneAtATime, Single
  <2>5. PassesOK'
    BY <1>1, <1>2, <2>1 DEF AInv, PassesOK
  <2>6. FailuresAreRetried'
    BY <1>1, <1>4, <2>1 DEF FailuresAreRetried
  <2> QED
    BY <1>0, <1>2, <2>3, <2>4, <2>5, <2>6 DEF AInv
<1> QED
  BY <1>5, <1>6

\* From the build to the row of its attempt.
LEMMA AInvBuild ==
  ASSUME TInv, AInv, [Next]_vars,
         \/ BuildInPlace \/ BuildInBranch \/ TryAgain \/ Gate \/ Commit \/ CommitRefused
         \/ RepairDiscarded \/ Reviewed
  PROVE  AInv'
<1>0. SinglesInv' /\ \A t \in Tasks : tried[t] \in Nat
  BY SinglesNext DEF AInv, OneAtATime, TInv, BuildOK
<1> USE DEF BuildInPlace, BuildInBranch, TryAgain, Gate, Commit, CommitRefused, RepairDiscarded,
            Reviewed, Fails, repo, queue, build, ghost
<1>1. /\ ~ BuildInBranch
      /\ UNCHANGED <<parallel, plan, mode, mem, todo, retries, wave, status, tried>>
  BY DEF AInv, InBranch
<1>2. /\ pc \in {"build", "gate", "commit", "review"} /\ status = "running"
      /\ results = {} /\ wave = {} /\ (pc # "build" => prep = {})
      /\ (pc = "build" => prep = {cur'}) /\ (pc # "build" => cur' = cur)
  BY <1>1 DEF AInv, OneAtATime, PassesOK, NextSpec
<1>3. cur' \in Slugs /\ cur'[1] \in Tasks /\ Busy(cur'[1])
  BY <1>1, <1>2, SlugTypes DEF TInv, Working, QueueOK, Busy
<1>4. /\ prep' = {}
      /\ \/ results' = {} /\ pc' \in {"gate", "commit", "review"}
         \/ \E st \in Statuses : results' = {Row(plan, cur'[1], st)} /\ pc' = "record"
  BY <1>1, <1>2 DEF Onward, Statuses
<1>5. Planned(plan)' = Planned(plan)
  BY <1>1, PlannedSame
<1>6. /\ Failed(mem' \cup results') \subseteq Failed(mem) \cup {cur'[1]}
      /\ Failed(mem) = Failed(mem \cup results)
  <2> HIDE DEF BuildInPlace, BuildInBranch, TryAgain, Gate, Commit, CommitRefused, RepairDiscarded,
               Reviewed, Fails
  <2>1. Failed(results') \subseteq {cur'[1]}
    BY <1>4, FailedRow DEF Statuses
  <2>2. Failed(mem' \cup results') = Failed(mem) \cup Failed(results')
    BY <1>1, FailedAdds
  <2>3. mem \cup results = mem
    BY <1>2
  <2> QED
    BY <2>1, <2>2, <2>3
<1>7. Counted'
  <2> SUFFICES ASSUME NEW t \in Tasks
               PROVE  /\ tried[t] <= Pass
                      /\ t \in Waiting' => tried[t] = Pass - 1
                      /\ Busy(t)' => tried[t] = Pass
                      /\ t \in Planned(plan) \cap Failed(mem' \cup results')
                           => t \in Waiting' \/ tried[t] = Pass
    BY <1>1, <1>5 DEF Counted, Pass, Failed
  <2>1. Waiting' = Waiting
    BY <1>1 DEF Waiting
  <2>2. Busy(t)' => t = cur'[1]
    BY <1>4 DEF Busy
  <2>3. tried[cur'[1]] = Pass
    BY <1>2, <1>3 DEF AInv, Counted
  <2>4. /\ tried[t] <= Pass
        /\ t \in Waiting => tried[t] = Pass - 1
        /\ t \in Planned(plan) \cap Failed(mem) => t \in Waiting \/ tried[t] = Pass
    BY <1>2, <1>6 DEF AInv, Counted
  <2> QED
    BY <1>6, <2>1, <2>2, <2>3, <2>4
<1>8. OneAtATime'
  BY <1>1, <1>2, <1>4 DEF AInv, OneAtATime, Single
<1>9. PassesOK'
  BY <1>1, <1>2, <1>4 DEF AInv, PassesOK
<1>10. FailuresAreRetried'
  BY <1>1, <1>2 DEF AInv, FailuresAreRetried
<1> QED
  BY <1>0, <1>1, <1>7, <1>8, <1>9, <1>10 DEF AInv

LEMMA AInvRecord ==
  ASSUME TInv, AInv, [Next]_vars, RecordOutcomes \/ RetryTask \/ RetryDone
  PROVE  AInv'
<1>0. SinglesInv' /\ \A t \in Tasks : tried[t] \in Nat
  BY SinglesNext DEF AInv, OneAtATime, TInv, BuildOK
<1>1. UNCHANGED <<parallel, plan, mode, todo, prep, tried, status>>
  BY DEF RecordOutcomes, RetryTask, RetryDone, ghost, queue
<1>2. Planned(plan)' = Planned(plan) /\ mode \in {"first", "retry"} /\ status = "running"
  BY <1>1, PlannedSame DEF TInv, RunOK, AInv, PassesOK, RecordOutcomes, RetryTask, RetryDone
<1>3. FailuresAreRetried'
  BY <1>1, <1>2 DEF AInv, FailuresAreRetried
<1>4. CASE RecordOutcomes
  <2>1. /\ mem' = Record(mem, results) /\ results' = {} /\ pc = "record"
        /\ pc' = (IF mode = "first" THEN "schedule" ELSE "retry")
        /\ UNCHANGED <<wave, retries>> /\ wave = {} /\ prep = {}
    BY <1>4 DEF RecordOutcomes, AInv, OneAtATime
  <2>2. Failed(mem' \cup results') \subseteq Failed(mem \cup results)
    BY <2>1, FailedAdds
  <2>3. Counted'
    <3>1. Waiting' = Waiting /\ (\A t : ~ Busy(t)') /\ Pass' = Pass
      BY <1>1, <2>1 DEF Waiting, Busy, Pass
    <3>2. Failed(mem \cup results)' = Failed(mem' \cup results')
      BY DEF Failed
    <3> QED
      BY <1>1, <1>2, <2>1, <2>2, <3>1, <3>2 DEF AInv, Counted
  <2>4. OneAtATime' /\ PassesOK'
    BY <1>1, <1>2, <2>1 DEF AInv, OneAtATime, PassesOK
  <2> QED
    BY <1>0, <1>1, <1>3, <2>3, <2>4 DEF AInv
<1>5. CASE RetryTask
  <2>1. PICK t \in retries : wave' = {t}
    BY <1>5 DEF RetryTask, IsFirst
  <2>2. /\ retries' = retries \ {t} /\ pc = "retry" /\ pc' = "spec"
        /\ UNCHANGED <<mem, results>> /\ mode = "retry" /\ todo = {}
        /\ wave = {} /\ prep = {} /\ results = {} /\ t \in Tasks
    BY <1>5, <2>1 DEF RetryTask, AInv, OneAtATime, PassesOK, TInv, QueueOK
  <2>3. Counted'
    <3>1. Waiting' = Waiting /\ (\A u : ~ Busy(u)') /\ Pass' = Pass
      BY <1>1, <2>1, <2>2 DEF Waiting, Busy, Pass
    <3>2. Failed(mem \cup results)' = Failed(mem \cup results)
      BY <2>2 DEF Failed
    <3> QED
      BY <1>1, <1>2, <2>2, <3>1, <3>2 DEF AInv, Counted
  <2>4. OneAtATime' /\ PassesOK'
    BY <1>1, <1>2, <2>1, <2>2 DEF OneAtATime, PassesOK
  <2> QED
    BY <1>0, <1>1, <1>3, <2>3, <2>4 DEF AInv
<1>6. CASE RetryDone
  <2>1. /\ UNCHANGED <<mem, wave, results, retries>> /\ pc = "retry" /\ pc' = "report"
        /\ mode = "retry" /\ retries = {} /\ wave = {} /\ prep = {} /\ results = {}
    BY <1>6 DEF RetryDone, queue, AInv, OneAtATime, PassesOK
  <2>2. Counted'
    <3>1. Waiting' = Waiting /\ (\A u : ~ Busy(u)') /\ Pass' = Pass
      BY <1>1, <2>1 DEF Waiting, Busy, Pass
    <3>2. Failed(mem \cup results)' = Failed(mem \cup results)
      BY <2>1 DEF Failed
    <3> QED
      BY <1>1, <1>2, <2>1, <3>1, <3>2 DEF AInv, Counted
  <2>3. OneAtATime' /\ PassesOK'
    BY <1>1, <1>2, <2>1 DEF AInv, OneAtATime, PassesOK
  <2> QED
    BY <1>0, <1>1, <1>3, <2>2, <2>3 DEF AInv
<1> QED
  BY <1>4, <1>5, <1>6

\* The report calls a run failed only when both passes are over.
LEMMA AInvEnd ==
  ASSUME TInv, AInv, [Next]_vars, Report \/ TagCheckpoint \/ Crash \/ Undo
  PROVE  AInv'
<1>0. SinglesInv' /\ \A t \in Tasks : tried[t] \in Nat
  BY SinglesNext DEF AInv, OneAtATime, TInv, BuildOK
<1>1. CASE Report
  <2>1. /\ UNCHANGED <<parallel, plan, mode, mem, queue, tried>> /\ pc = "report" /\ pc' = "tag"
        /\ status' = Verdict(mem) /\ wave = {} /\ prep = {} /\ results = {} /\ retries = {}
        /\ \/ status = "running" /\ mode = "retry" /\ todo = {}
           \/ status = "halted" /\ mode = "first"
    BY <1>1 DEF Report, queue, AInv, OneAtATime, PassesOK
  <2>2. Planned(plan)' = Planned(plan) /\ Failed(mem)' = Failed(mem)
    BY <2>1, PlannedSame DEF Failed
  <2>3. OneAtATime' /\ PassesOK' /\ Counted'
    BY <2>1 DEF queue, AInv, OneAtATime, PassesOK, Counted
  <2>4. FailuresAreRetried'
    <3>1. CASE status = "halted"
      BY <2>1, <3>1 DEF AInv, FailuresAreRetried, Verdict
    <3>2. CASE status = "running" /\ mode = "retry"
      <4>1. \A t \in Planned(plan) \cap Failed(mem) : tried[t] = 2
        BY <2>1, <3>2 DEF AInv, Counted, Waiting, Pass, Planned
      <4> QED
        BY <2>1, <2>2, <3>2, <4>1 DEF AInv, FailuresAreRetried, Verdict
    <3> QED
      BY <2>1, <3>1, <3>2
  <2> QED
    BY <1>0, <2>1, <2>3, <2>4 DEF AInv
<1>2. CASE TagCheckpoint
  <2>1. /\ UNCHANGED <<parallel, plan, mode, queue, tried, status>> /\ pc = "tag" /\ pc' = "idle"
        /\ mem' = {} /\ retries = {}
    BY <1>2 DEF TagCheckpoint, ghost, AInv, PassesOK
  <2>2. OneAtATime' /\ PassesOK' /\ Counted'
    BY <2>1 DEF queue, AInv, OneAtATime, PassesOK, Counted
  <2>3. FailuresAreRetried'
    BY <2>1, FailedRow DEF AInv, FailuresAreRetried, Failed
  <2> QED
    BY <1>0, <2>1, <2>2, <2>3 DEF AInv
<1>3. CASE Crash
  <2>1. /\ UNCHANGED <<parallel, tried>> /\ pc' = "idle" /\ status' = "crashed" /\ mem' = {}
        /\ todo' = {} /\ wave' = {} /\ prep' = {} /\ results' = {} /\ retries' = {}
    BY <1>3 DEF Crash
  <2> QED
    BY <1>0, <2>1 DEF AInv, OneAtATime, PassesOK, Counted, FailuresAreRetried
<1>4. CASE Undo
  <2>1. UNCHANGED <<parallel, mode, mem, queue, tried>> /\ pc = "idle" /\ pc' = "idle"
        /\ status' = "undone"
    BY <1>4 DEF Undo
  <2> QED
    BY <1>0, <2>1 DEF queue, AInv, OneAtATime, PassesOK, Counted, FailuresAreRetried
<1> QED
  BY <1>1, <1>2, <1>3, <1>4

LEMMA AInvNext ==
  ASSUME ParallelFlags \subseteq {FALSE}
  PROVE  TInv /\ AInv /\ [Next]_vars => AInv'
<1> SUFFICES ASSUME TInv, AInv, [Next]_vars PROVE AInv'
  OBVIOUS
<1>1. CASE CreatePlanning \/ CreateBlocked \/ CreateFromLock
  BY <1>1, AInvStart
<1>2. CASE ScheduleTask \/ ScheduleWave \/ ScheduleDone
  BY <1>2, AInvSchedule
<1>3. CASE SpecStage
  BY <1>3, AInvSpec DEF SpecStage
<1>4. CASE \/ BuildInPlace \/ BuildInBranch \/ TryAgain \/ Gate \/ Commit \/ CommitRefused
           \/ RepairDiscarded \/ Reviewed
  BY <1>4, AInvBuild
<1>5. CASE RecordOutcomes \/ RetryTask \/ RetryDone
  BY <1>5, AInvRecord
<1>6. CASE Report \/ TagCheckpoint \/ Crash \/ Undo
  BY <1>6, AInvEnd
<1>7. CASE UNCHANGED vars
  <2>1. /\ UNCHANGED <<pc, mode, mem, todo, wave, prep, cur, results, retries, status,
                      parallel, tried>> /\ plan' = plan
    BY <1>7 DEF vars, repo, queue, build, ghost
  <2>2. Planned(plan)' = Planned(plan) /\ Failed(mem)' = Failed(mem)
        /\ Failed(mem \cup results)' = Failed(mem \cup results)
    BY <2>1, PlannedSame DEF Failed
  <2>3. SinglesInv'
    BY SinglesNext DEF AInv, OneAtATime
  <2>4. OneAtATime' /\ PassesOK'
    BY <2>1 DEF AInv, OneAtATime, PassesOK
  <2>5. Counted'
    BY <2>1, <2>2 DEF AInv, Counted, Waiting, Busy, Pass
  <2>6. FailuresAreRetried'
    BY <2>1, <2>2 DEF AInv, FailuresAreRetried
  <2> QED
    BY <2>1, <2>3, <2>4, <2>5, <2>6 DEF AInv
<1> QED
  BY <1>1, <1>2, <1>3, <1>4, <1>5, <1>6, <1>7 DEF Next, Step

\* Sequential runs, whatever crashes, is refused, planned anew or undone: no task
\* is tried a third time, a halted run retries nothing, and a run that reports
\* failure has tried every task that failed twice.
THEOREM FailuresAreAlwaysRetried ==
  ASSUME ParallelFlags \subseteq {FALSE}
  PROVE  Spec => []FailuresAreRetried
<1>1. TInv /\ AInv /\ [Next]_vars => (TInv /\ AInv)'
  BY TInvNext, AInvNext
<1>2. Spec => [](TInv /\ AInv)
  BY <1>1, TInvInit, AInvInit, PTL DEF Spec
<1>3. AInv => FailuresAreRetried
  BY DEF AInv
<1> QED
  BY <1>2, <1>3, PTL

-----------------------------------------------------------------------------
(* The order of a plan that dag_check accepted. *)

LEMMA LeastNat ==
  ASSUME NEW S, S \subseteq Nat, S # {}
  PROVE  \E n \in S : \A m \in S : n <= m
<1>1. PICK n \in S : \A m \in S : <<m, n>> \notin OpToRel(<, Nat)
  BY NatLessThanWellFounded, WFMin
<1>2. ASSUME NEW m \in S PROVE n <= m
  <2>1. <<m, n>> \in Nat \X Nat /\ <<m, n>>[1] = m /\ <<m, n>>[2] = n
    OBVIOUS
  <2>2. ~ (<<m, n>>[1] < <<m, n>>[2])
    BY <1>1, <2>1 DEF OpToRel
  <2> QED
    BY <2>1, <2>2
<1> QED
  BY <1>2

\* The rounds up to the n-th, as a function.
Rounds(p, f, n) ==
  f = [k \in 0 .. n |-> IF k = 0 THEN {} ELSE {t \in Tasks : p.deps[t] \subseteq f[k - 1]}]

\* There are such rounds for every n: a least n without any would have a
\* predecessor whose rounds go one further.
LEMMA RoundsExist ==
  ASSUME NEW p, NEW n \in Nat
  PROVE  \E f : Rounds(p, f, n)
<1> DEFINE Missing == {m \in Nat : ~ \E f : Rounds(p, f, m)}
<1>1. Missing = {}
  <2> SUFFICES ASSUME Missing # {} PROVE FALSE
    OBVIOUS
  <2>1. \A m : m \in Missing <=> m \in Nat /\ ~ \E f : Rounds(p, f, m)
    OBVIOUS
  <2> HIDE DEF Missing
  <2>2. PICK m \in Missing : \A l \in Missing : m <= l
    BY <2>1, LeastNat
  <2>3. m \in Nat
    BY <2>1, <2>2
  <2>4. CASE m = 0
    <3> DEFINE f == [k \in 0 .. 0 |-> {}]
    <3>1. f = [k \in 0 .. 0 |-> IF k = 0 THEN {} ELSE {t \in Tasks : p.deps[t] \subseteq f[k - 1]}]
      OBVIOUS
    <3>2. Rounds(p, f, 0)
      BY <3>1 DEF Rounds
    <3> QED
      BY <2>1, <2>2, <2>4, <3>2
  <2>5. CASE m # 0
    <3>1. m - 1 \in Nat /\ m - 1 \notin Missing
      BY <2>2, <2>3, <2>5
    <3>2. PICK g : Rounds(p, g, m - 1)
      BY <2>1, <3>1
    <3> DEFINE h == [k \in 0 .. m |-> IF k = 0 THEN {}
                                      ELSE {t \in Tasks : p.deps[t] \subseteq g[k - 1]}]
    <3>3. \A k \in 0 .. m - 1 : h[k] = g[k]
      <4> SUFFICES ASSUME NEW k \in 0 .. m - 1 PROVE h[k] = g[k]
        OBVIOUS
      <4>1. g[k] = IF k = 0 THEN {} ELSE {t \in Tasks : p.deps[t] \subseteq g[k - 1]}
        <5> DEFINE body(f, i) == IF i = 0 THEN {} ELSE {t \in Tasks : p.deps[t] \subseteq f[i - 1]}
        <5>1. g = [i \in 0 .. m - 1 |-> body(g, i)]
          BY <3>2 DEF Rounds
        <5> HIDE DEF body
        <5>2. g[k] = body(g, k)
          BY <5>1, Zenon
        <5> QED
          BY <5>2 DEF body
      <4>2. k \in 0 .. m
        BY <2>3
      <4> QED
        BY <4>1, <4>2
    <3>4. h = [k \in 0 .. m |-> IF k = 0 THEN {} ELSE {t \in Tasks : p.deps[t] \subseteq h[k - 1]}]
      <4>1. \A k \in 0 .. m : k # 0 => k - 1 \in 0 .. m - 1
        BY <2>3
      <4> QED
        BY <3>3, <4>1
    <3>5. Rounds(p, h, m)
      <4> HIDE DEF h
      <4> QED
        BY <3>4 DEF Rounds
    <3> QED
      BY <2>1, <2>2, <3>5
  <2> QED
    BY <2>4, <2>5
<1> QED
  BY <1>1

\* What Kahn's rounds are.
LEMMA DoneIs ==
  ASSUME NEW p
  PROVE  /\ Done(p)[0] = {}
         /\ \A k \in 1 .. N : Done(p)[k] = {t \in Tasks : p.deps[t] \subseteq Done(p)[k - 1]}
<1>1. \E f : Rounds(p, f, N)
  BY RoundsExist, AutopilotAssumption DEF AutopilotAssumption
<1>2. Done(p) = CHOOSE f : Rounds(p, f, N)
  BY DEF Done, Rounds
<1>3. Rounds(p, Done(p), N)
  BY <1>1, <1>2
<1> DEFINE body(f, i) == IF i = 0 THEN {} ELSE {t \in Tasks : p.deps[t] \subseteq f[i - 1]}
<1>4. Done(p) = [i \in 0 .. N |-> body(Done(p), i)]
  BY <1>3 DEF Rounds
<1> HIDE DEF body
<1>5. \A k \in 0 .. N : Done(p)[k] = body(Done(p), k)
  BY <1>4, Zenon
<1> USE DEF body
<1>6. 0 \in 0 .. N /\ \A k \in 1 .. N : k \in 0 .. N /\ k # 0
  BY AutopilotAssumption DEF AutopilotAssumption
<1> QED
  BY <1>5, <1>6

\* A task done after one round is done after the next.
LEMMA DoneGrows ==
  ASSUME NEW p, NEW k \in 1 .. N
  PROVE  Done(p)[k - 1] \subseteq Done(p)[k]
<1> DEFINE Bad == {m \in Nat : m \in 1 .. N /\ ~ (Done(p)[m - 1] \subseteq Done(p)[m])}
<1>0. N \in Nat
  BY AutopilotAssumption DEF AutopilotAssumption
<1>1. Bad = {}
  <2> SUFFICES ASSUME Bad # {} PROVE FALSE
    OBVIOUS
  <2>1. PICK m \in Bad : \A l \in Bad : m <= l
    BY LeastNat
  <2>2. m \in 1 .. N /\ m \in Nat /\ ~ (Done(p)[m - 1] \subseteq Done(p)[m])
    OBVIOUS
  <2>3. CASE m = 1
    BY <2>2, <2>3, DoneIs
  <2>4. CASE m # 1
    <3>1. m - 1 \in 1 .. N /\ m - 1 \in Nat /\ ~ (m <= m - 1)
      BY <1>0, <2>2, <2>4
    <3>2. Done(p)[(m - 1) - 1] \subseteq Done(p)[m - 1]
      BY <2>1, <3>1
    <3>3. /\ Done(p)[m - 1] = {t \in Tasks : p.deps[t] \subseteq Done(p)[(m - 1) - 1]}
          /\ Done(p)[m] = {t \in Tasks : p.deps[t] \subseteq Done(p)[m - 1]}
      BY <2>2, <3>1, DoneIs
    <3> QED
      BY <2>2, <3>2, <3>3
  <2> QED
    BY <2>3, <2>4
<1> QED
  BY <1>0, <1>1

LEMMA DoneStays ==
  ASSUME NEW p, NEW j \in 0 .. N, NEW k \in 0 .. N, j <= k
  PROVE  Done(p)[j] \subseteq Done(p)[k]
<1> DEFINE Bad == {m \in Nat : j <= m /\ m <= N /\ ~ (Done(p)[j] \subseteq Done(p)[m])}
<1>0. N \in Nat
  BY AutopilotAssumption DEF AutopilotAssumption
<1>1. Bad = {}
  <2> SUFFICES ASSUME Bad # {} PROVE FALSE
    OBVIOUS
  <2>1. PICK m \in Bad : \A l \in Bad : m <= l
    BY LeastNat
  <2>2. m \in Nat /\ j <= m /\ m <= N /\ ~ (Done(p)[j] \subseteq Done(p)[m]) /\ m # j
    OBVIOUS
  <2>3. m - 1 \in Nat /\ j <= m - 1 /\ m - 1 <= N /\ m \in 1 .. N /\ ~ (m <= m - 1)
    BY <1>0, <2>2
  <2>4. Done(p)[j] \subseteq Done(p)[m - 1]
    BY <2>1, <2>3
  <2>5. Done(p)[m - 1] \subseteq Done(p)[m]
    BY <2>3, DoneGrows
  <2> QED
    BY <2>2, <2>4, <2>5
<1> QED
  BY <1>0, <1>1

\* Every task of an accepted plan has its round.
LEMMA RoundIs ==
  ASSUME NEW p, DagCheck(p), NEW t \in Tasks
  PROVE  /\ RoundOf(p, t) \in 1 .. N
         /\ t \in Done(p)[RoundOf(p, t)] /\ t \notin Done(p)[RoundOf(p, t) - 1]
<1>0. N \in Nat
  BY AutopilotAssumption DEF AutopilotAssumption
<1> DEFINE In == {m \in Nat : m <= N /\ t \in Done(p)[m]}
<1>1. N \in In
  BY <1>0 DEF DagCheck
<1>2. PICK m \in In : \A l \in In : m <= l
  BY <1>1, LeastNat
<1>3. m \in Nat /\ m <= N /\ t \in Done(p)[m]
  OBVIOUS
<1>4. m # 0
  BY <1>3, DoneIs
<1>5. m \in 1 .. N /\ m - 1 \in Nat /\ m - 1 <= N /\ ~ (m <= m - 1)
  BY <1>0, <1>3, <1>4
<1>6. t \notin Done(p)[m - 1]
  BY <1>2, <1>5
<1> QED
  BY <1>3, <1>5, <1>6 DEF RoundOf

\* A dependency comes before the task, and Before orders the plan.
LEMMA DepsBefore ==
  ASSUME NEW p \in Plans, DagCheck(p), NEW t \in Tasks, NEW d \in p.deps[t]
  PROVE  d \in Tasks /\ Before(p, d, t)
<1>0. N \in Nat /\ d \in Tasks
  BY AutopilotAssumption DEF AutopilotAssumption
<1> DEFINE k == RoundOf(p, t)
<1> DEFINE j == RoundOf(p, d)
<1>1. /\ k \in 1 .. N /\ t \in Done(p)[k]
      /\ j \in 1 .. N /\ d \notin Done(p)[j - 1]
  BY <1>0, RoundIs
<1> HIDE DEF j, k
<1>2. d \in Done(p)[k - 1]
  BY <1>1, DoneIs
<1>3. ~ (k - 1 <= j - 1)
  <2>1. k - 1 \in 0 .. N /\ j - 1 \in 0 .. N
    BY <1>0, <1>1
  <2> QED
    BY <1>1, <1>2, <2>1, DoneStays
<1>4. j < k
  BY <1>0, <1>1, <1>3
<1> QED
  BY <1>0, <1>4 DEF Before, j, k

LEMMA BeforeOrders ==
  ASSUME NEW p, DagCheck(p)
  PROVE  /\ \A t, u \in Tasks : Before(p, t, u) => ~ Before(p, u, t)
         /\ \A t, u, w \in Tasks : Before(p, t, u) /\ Before(p, u, w) => Before(p, t, w)
<1>0. N \in Nat
  BY AutopilotAssumption DEF AutopilotAssumption
<1>1. \A t \in Tasks : RoundOf(p, t) \in Nat /\ t \in Nat
  BY <1>0, RoundIs DEF Tasks
<1> QED
  BY <1>1 DEF Before

\* A planned task's dependencies are planned: max_tasks cuts the order, not the plan.
LEMMA DepsPlanned ==
  ASSUME NEW p \in Plans, DagCheck(p), NEW t \in Planned(p), NEW d \in p.deps[t]
  PROVE  d \in Planned(p)
<1>1. t \in Tasks /\ d \in Tasks /\ Before(p, d, t)
  BY DepsBefore DEF Planned
<1> DEFINE Less(u) == {w \in Tasks : Before(p, w, u)}
<1>2. Less(d) \subseteq Less(t)
  BY <1>1, BeforeOrders
<1>3. IsFiniteSet(Tasks)
  BY FS_Interval, AutopilotAssumption DEF AutopilotAssumption, Tasks
<1>4. IsFiniteSet(Less(t)) /\ IsFiniteSet(Less(d))
  BY <1>3, FS_Subset
<1>5. Cardinality(Less(d)) <= Cardinality(Less(t))
  BY <1>2, <1>4, FS_Subset
<1>6. Cardinality(Less(t)) < MaxTasks
  BY DEF Planned
<1>7. Cardinality(Less(d)) \in Nat /\ Cardinality(Less(t)) \in Nat /\ MaxTasks \in Nat
  BY <1>4, FS_CardinalityType, AutopilotAssumption DEF AutopilotAssumption
<1>8. Cardinality(Less(d)) < MaxTasks
  BY <1>5, <1>6, <1>7
<1> QED
  BY <1>1, <1>8 DEF Planned

\* Of a plan dag_check accepted, _topo_order is a strict order in which every
\* dependency comes first, and max_tasks never cuts a dependency off its task.
THEOREM TopologicalOrder ==
  ASSUME NEW p \in Plans, DagCheck(p)
  PROVE  /\ \A t \in Tasks : \A d \in p.deps[t] : d \in Tasks /\ Before(p, d, t)
         /\ \A t, u \in Tasks : Before(p, t, u) => ~ Before(p, u, t)
         /\ \A t, u, w \in Tasks : Before(p, t, u) /\ Before(p, u, w) => Before(p, t, w)
         /\ \A t \in Planned(p) : p.deps[t] \subseteq Planned(p)
<1>1. \A t \in Tasks : \A d \in p.deps[t] : d \in Tasks /\ Before(p, d, t)
  BY DepsBefore
<1>2. \A t \in Planned(p) : p.deps[t] \subseteq Planned(p)
  BY DepsPlanned
<1> QED
  BY <1>1, <1>2, BeforeOrders

-----------------------------------------------------------------------------
(* The order of the attempts. *)

\* The fate of a task is known: skipped as built, or attempted and recorded.
Settled(t) == \/ Row(plan, t, "built") \in mem
              \/ tried[t] > 0 /\ \E r \in mem : r.task = t

\* The scheduler has handed the task out; its row is not recorded yet.
Attempted(t) == Busy(t) \/ \E r \in results : r.task = t

Settling(t) == Settled(t) \/ t \in wave \/ Attempted(t)

\* Only plans dag_check accepted are ever written, and worked on.
PlansChecked == /\ \A d \in Sources : d.plan # NoPlan => DagCheck(d.plan)
                /\ pc # "idle" => DagCheck(plan)

RunPlaces ==
  /\ pc \in {"schedule", "retry", "report", "tag", "idle"} => wave = {} /\ prep = {} /\ results = {}
  /\ pc = "record" => wave = {} /\ prep = {}
  /\ pc = "retry" => mode = "retry"

\* Every task handed out settles, and a wave waits for what it depends on.
WavesOrdered ==
  pc # "idle" /\ mode = "first" =>
    /\ todo \subseteq Planned(plan)
    /\ \A t \in sched : Settling(t)
    /\ ~ parallel => \A t \in Planned(plan) \ todo : Settling(t)
    /\ \A t \in wave : \A d \in plan.deps[t] : Settled(d)

AttemptsCount == pc # "idle" => \A t \in Tasks : Attempted(t) => tried[t] > 0

DInv == PlansChecked /\ RunPlaces /\ WavesOrdered /\ AttemptsCount

LEMMA DInvInit == Init => DInv
BY DEF Init, DInv, PlansChecked, RunPlaces, WavesOrdered, AttemptsCount, Sources, NoFiles

LEMMA PlansCheckedNext ==
  ASSUME TInv, DInv, [Next]_vars
  PROVE  PlansChecked'
<1>1. \A d \in Sources' : d.plan # NoPlan => DagCheck(d.plan)
  BY NewDocs DEF From, PlanFrom, DInv, PlansChecked
<1>2. pc' # "idle" => DagCheck(plan')
  <2>1. CASE CreatePlanning
    BY <2>1 DEF CreatePlanning, Start
  <2>2. CASE CreateFromLock
    BY <2>2 DEF CreateFromLock, Start, DInv, PlansChecked, Sources
  <2>3. CASE ~ CreatePlanning /\ ~ CreateFromLock
    <3>1. plan' = plan /\ (pc = "idle" => pc' = "idle")
      BY <2>3 DEF Next, Step, CreateBlocked, ScheduleTask, ScheduleWave, ScheduleDone,
         BuildInPlace, BuildInBranch, TryAgain, Gate, Commit, CommitRefused, RepairDiscarded, Reviewed,
         RecordOutcomes, RetryTask, RetryDone, Report, TagCheckpoint, Crash, Undo, vars,
         SpecStage, SpecFrozen, SpecBlocked, SpecApproved, Specified, Attempt
    <3> QED
      BY <3>1 DEF DInv, PlansChecked
  <2> QED
    BY <2>1, <2>2, <2>3
<1>3. \A d \in Sources' : d.plan # NoPlan => DagCheck(d.plan)'
  BY <1>1 DEF DagCheck, Done
<1> QED
  BY <1>1, <1>2 DEF PlansChecked, DagCheck, Done

LEMMA DInvStart ==
  ASSUME TInv, DInv, [Next]_vars, CreatePlanning \/ CreateBlocked \/ CreateFromLock
  PROVE  DInv'
<1>1. CASE CreateBlocked
  BY <1>1, PlansCheckedNext
  DEF CreateBlocked, queue, DInv, RunPlaces, WavesOrdered, AttemptsCount
<1>2. ASSUME CreatePlanning \/ CreateFromLock PROVE DInv'
  <2>1. PICK p : Start(p, tree')
    BY <1>2 DEF CreatePlanning, CreateFromLock
  <2>2. /\ pc = "idle" /\ pc' = "schedule" /\ mode' = "first" /\ plan' = p
        /\ todo' = ToBuild(p, mem') /\ sched' = {}
        /\ UNCHANGED <<wave, prep, results>>
    BY <2>1 DEF Start
  <2>3. wave = {} /\ prep = {} /\ results = {}
    BY <2>2 DEF DInv, RunPlaces
  <2>4. \A t \in Planned(p) : t \in todo' \/ Row(p, t, "built") \in mem'
    BY <2>2 DEF ToBuild
  <2>5. todo' \subseteq Planned(p) /\ Planned(p)' = Planned(p)
    BY <2>2 DEF ToBuild, Planned, Before, RoundOf
  <2>6. WavesOrdered'
    BY <2>2, <2>3, <2>4, <2>5 DEF WavesOrdered, Settling, Settled, Row, Planned
  <2>7. RunPlaces' /\ AttemptsCount'
    BY <2>2, <2>3 DEF RunPlaces, AttemptsCount, Attempted, Busy
  <2> QED
    BY <2>6, <2>7, PlansCheckedNext DEF DInv
<1> QED
  BY <1>1, <1>2

\* The scheduler's choice: a task whose dependencies are settled.
LEMMA DInvSchedule ==
  ASSUME TInv, DInv, [Next]_vars, ScheduleTask \/ ScheduleWave \/ ScheduleDone
  PROVE  DInv'
<1>1. /\ pc = "schedule" /\ wave = {} /\ prep = {} /\ results = {} /\ plan \in Plans
      /\ DagCheck(plan) /\ UNCHANGED <<plan, mem, prep, results, tried, parallel, cur>>
      /\ todo \subseteq Tasks
  BY DEF ScheduleTask, ScheduleWave, ScheduleDone, DInv, RunPlaces, PlansChecked, TInv,
         Working, QueueOK, build, ghost
<1>2. Planned(plan)' = Planned(plan) /\ \A t : Settled(t)' = Settled(t)
  BY <1>1, PlannedSame DEF Settled, Row
<1>3. \A t : ~ Attempted(t)
  BY <1>1 DEF Attempted, Busy
<1>4. pc' \in {"schedule", "report", "spec", "retry"} /\ \A t : ~ Attempted(t)'
  BY <1>1 DEF Attempted, Busy, ScheduleTask, ScheduleWave, ScheduleDone
<1>5. mode = "first" => /\ todo \subseteq Planned(plan) /\ \A t \in sched : Settled(t)
                        /\ ~ parallel => \A t \in Planned(plan) \ todo : Settled(t)
  BY <1>1, <1>3 DEF DInv, WavesOrdered, Settling
<1>6. RunPlaces' /\ AttemptsCount'
  BY <1>1, <1>4 DEF RunPlaces, AttemptsCount, ScheduleTask, ScheduleWave, ScheduleDone
<1>7. WavesOrdered'
  <2> SUFFICES ASSUME mode' = "first" PROVE WavesOrdered'
    BY DEF WavesOrdered
  <2>1. mode = "first" /\ ~ ScheduleDone
    BY DEF ScheduleTask, ScheduleWave, ScheduleDone
  <2>2. CASE ScheduleTask
    <3>1. /\ sched' = sched /\ ~ parallel
          /\ \/ UNCHANGED <<todo, wave>>
             \/ \E t \in todo : IsFirst(plan, t, todo) /\ wave' = {t} /\ todo' = todo \ {t}
      BY <2>2 DEF ScheduleTask
    <3>2. CASE UNCHANGED <<todo, wave>>
      BY <1>1, <1>2, <1>5, <2>1, <3>1, <3>2 DEF WavesOrdered, Settling
    <3>3. CASE \E t \in todo : IsFirst(plan, t, todo) /\ wave' = {t} /\ todo' = todo \ {t}
      <4>1. PICK t \in todo : IsFirst(plan, t, todo) /\ wave' = {t} /\ todo' = todo \ {t}
        BY <3>3
      <4>2. \A d \in plan.deps[t] : Settled(d)
        <5> SUFFICES ASSUME NEW d \in plan.deps[t] PROVE Settled(d)
          OBVIOUS
        <5>1. d \in Planned(plan) /\ d \in Tasks /\ t \in Tasks /\ Before(plan, d, t)
          BY <1>1, <1>5, <2>1, DepsPlanned, DepsBefore
        <5>2. ~ Before(plan, t, d)
          BY <1>1, <5>1, BeforeOrders
        <5>3. d # t
          BY <5>1, <5>2
        <5>4. d \notin todo
          BY <4>1, <5>2, <5>3 DEF IsFirst
        <5> QED
          BY <1>5, <2>1, <3>1, <5>1, <5>4
      <4> QED
        BY <1>1, <1>2, <1>5, <2>1, <3>1, <4>1, <4>2 DEF WavesOrdered, Settling
    <3> QED
      BY <3>1, <3>2, <3>3
  <2>3. CASE ScheduleWave
    <3>1. /\ parallel /\ wave' = WaveOf(plan, todo, sched) /\ sched' = sched \cup wave'
          /\ todo' \subseteq todo
      BY <2>3 DEF ScheduleWave
    <3>2. \A t \in wave' : plan.deps[t] \subseteq sched
      BY <3>1 DEF WaveOf, Ready
    <3> QED
      BY <1>1, <1>2, <1>5, <2>1, <3>1, <3>2 DEF WavesOrdered, Settling
  <2> QED
    BY <2>1, <2>2, <2>3
<1> QED
  BY <1>6, <1>7, PlansCheckedNext DEF DInv

LEMMA DInvSpec ==
  ASSUME TInv, DInv, [Next]_vars, NEW s \in Slugs,
         SpecFrozen(s) \/ SpecBlocked(s) \/ SpecApproved(s)
  PROVE  DInv'
<1> USE DEF SpecFrozen, SpecBlocked, SpecApproved, Specified, Attempt
<1>1. /\ pc = "spec" /\ s[1] \in wave /\ s[1] \in Tasks /\ plan \in Plans
      /\ tried \in [Tasks -> Nat] /\ sched \subseteq Tasks
  BY SlugTypes DEF IsFirst, TInv, Working, BuildOK, QueueOK
<1>2. CASE SpecFrozen(s)
  BY <1>2, PlansCheckedNext DEF DInv, RunPlaces, WavesOrdered, AttemptsCount
<1>3. ASSUME SpecBlocked(s) \/ SpecApproved(s) PROVE DInv'
  <2>1. /\ UNCHANGED <<plan, mode, parallel, mem, todo, sched, cur>>
        /\ wave' = wave \ {s[1]} /\ pc' = Onward(wave', prep')
        /\ \/ results' = results \cup {Row(plan, s[1], "failed")} /\ prep' = prep
           \/ results' = results /\ prep' = prep \cup {s}
    BY <1>3 DEF build
  <2>2. \A t \in Tasks : tried'[t] \in Nat /\ tried[t] \in Nat
                         /\ tried'[t] = (IF t = s[1] THEN tried[t] + 1 ELSE tried[t])
    BY <1>1, <1>3
  <2> HIDE DEF SpecFrozen, SpecBlocked, SpecApproved, Specified, Attempt
  <2>3. Row(plan, s[1], "failed").task = s[1]
    BY DEF Row
  <2>4. \A t \in Tasks : Attempted(t)' <=> Attempted(t) \/ t = s[1]
    BY <1>1, <2>1, <2>3 DEF Attempted, Busy, Onward
  <2>5. \A t \in Tasks : Settled(t) => Settled(t)'
    BY <2>1, <2>2 DEF Settled, Row
  <2>6. \A t \in Tasks : Settling(t) => Settling(t)'
    BY <2>1, <2>2, <2>4, <2>5 DEF Settling
  <2>7. Planned(plan)' = Planned(plan) /\ Planned(plan) \subseteq Tasks
    BY <2>1, PlannedSame DEF Planned
  <2>8. \A t \in wave : t \in Tasks /\ plan.deps[t] \subseteq Tasks
    BY <1>1, AutopilotAssumption DEF AutopilotAssumption, TInv, QueueOK
  <2>9. WavesOrdered'
    BY <1>1, <2>1, <2>5, <2>6, <2>7, <2>8 DEF DInv, WavesOrdered
  <2>10. AttemptsCount'
    BY <1>1, <2>2, <2>4 DEF DInv, AttemptsCount
  <2>11. RunPlaces'
    BY <2>1 DEF RunPlaces, Onward
  <2> QED
    BY <2>9, <2>10, <2>11, PlansCheckedNext DEF DInv
<1> QED
  BY <1>2, <1>3

LEMMA DInvBuild ==
  ASSUME TInv, DInv, [Next]_vars,
         \/ BuildInPlace \/ BuildInBranch \/ TryAgain \/ Gate \/ Commit \/ CommitRefused
         \/ RepairDiscarded \/ Reviewed
  PROVE  DInv'
<1> USE DEF BuildInPlace, BuildInBranch, TryAgain, Gate, Commit, CommitRefused, RepairDiscarded,
            Reviewed, Fails, repo, queue, build, ghost
<1>1. UNCHANGED <<plan, mode, parallel, mem, todo, sched, wave, tried>>
  OBVIOUS
<1>2. cur' \in Slugs /\ cur'[1] \in Tasks /\ Busy(cur'[1]) /\ prep' \cup {cur'} = prep \cup {cur'}
  BY SlugTypes DEF TInv, Working, QueueOK, Busy, NextSpec
<1>3. /\ pc \in {"build", "gate", "commit", "review"} /\ (pc # "build" => cur' = cur)
      /\ \/ results' = results /\ pc' \in {"gate", "commit", "review"}
         \/ /\ pc' = Onward(wave, prep')
            /\ \E st \in Statuses : results' = results \cup {Row(plan, cur'[1], st)}
  BY DEF Statuses
<1> HIDE DEF BuildInPlace, BuildInBranch, TryAgain, Gate, Commit, CommitRefused, RepairDiscarded,
             Reviewed, Fails, repo, queue, build, ghost
<1>4. \A st : Row(plan, cur'[1], st).task = cur'[1]
  BY DEF Row
<1>5. \A t \in Tasks : Attempted(t)' <=> Attempted(t)
  <2> SUFFICES ASSUME NEW t \in Tasks PROVE Attempted(t)' <=> Attempted(t)
    OBVIOUS
  <2>1. CASE results' = results /\ pc' \in {"gate", "commit", "review"}
    BY <1>2, <1>3, <2>1 DEF Attempted, Busy
  <2>2. CASE /\ pc' = Onward(wave, prep')
             /\ \E st \in Statuses : results' = results \cup {Row(plan, cur'[1], st)}
    BY <1>2, <1>3, <1>4, <2>2 DEF Attempted, Busy, Onward
  <2> QED
    BY <1>3, <2>1, <2>2
<1>6. \A t : Settled(t)' <=> Settled(t)
  BY <1>1 DEF Settled, Row
<1>7. Planned(plan)' = Planned(plan) /\ Planned(plan) \subseteq Tasks /\ sched \subseteq Tasks
  BY <1>1, PlannedSame DEF Planned, TInv, QueueOK
<1>8. WavesOrdered'
  BY <1>1, <1>3, <1>5, <1>6, <1>7 DEF DInv, WavesOrdered, Settling
<1>9. AttemptsCount'
  BY <1>1, <1>3, <1>5 DEF DInv, AttemptsCount
<1>10. RunPlaces'
  BY <1>1, <1>3 DEF RunPlaces, Onward
<1> QED
  BY <1>8, <1>9, <1>10, PlansCheckedNext DEF DInv

\* The rows of the attempts become the run's rows.
LEMMA DInvRecord ==
  ASSUME TInv, DInv, [Next]_vars, RecordOutcomes
  PROVE  DInv'
<1>1. /\ UNCHANGED <<plan, mode, parallel, todo, sched, wave, prep, tried>>
      /\ pc = "record" /\ pc' \in {"schedule", "retry"} /\ results' = {}
      /\ pc' = "retry" => mode = "retry"
      /\ mem' = Record(mem, results) /\ wave = {} /\ prep = {}
  BY DEF RecordOutcomes, ghost, DInv, RunPlaces, TInv, RunOK
<1>2. \A t : Attempted(t) <=> \E r \in results : r.task = t
  BY <1>1 DEF Attempted, Busy
<1>3. \A t : ~ Attempted(t)'
  BY <1>1 DEF Attempted, Busy
<1>4. \A t \in Tasks : Settling(t) => Settled(t)'
  <2> SUFFICES ASSUME NEW t \in Tasks, Settling(t) PROVE Settled(t)'
    OBVIOUS
  <2>1. CASE \E r \in results : r.task = t
    <3>1. tried[t] > 0
      BY <1>1, <1>2, <2>1 DEF DInv, AttemptsCount
    <3> QED
      BY <1>1, <2>1, <3>1 DEF Settled, Record
  <2>2. CASE ~ \E r \in results : r.task = t
    <3>1. Settled(t)
      BY <1>1, <1>2, <2>2 DEF Settling
    <3>2. \A r \in mem : r.task = t => r \in mem'
      BY <1>1, <2>2 DEF Record
    <3>3. Row(plan, t, "built").task = t /\ Row(plan, t, "built")' = Row(plan, t, "built")
      BY <1>1 DEF Row
    <3> QED
      BY <1>1, <3>1, <3>2, <3>3 DEF Settled
  <2> QED
    BY <2>1, <2>2
<1>5. Planned(plan)' = Planned(plan) /\ Planned(plan) \subseteq Tasks /\ sched \subseteq Tasks
  BY <1>1, PlannedSame DEF Planned, TInv, QueueOK
<1>6. WavesOrdered'
  BY <1>1, <1>4, <1>5 DEF DInv, WavesOrdered, Settling
<1>7. AttemptsCount' /\ RunPlaces'
  BY <1>1, <1>3 DEF AttemptsCount, RunPlaces
<1> QED
  BY <1>6, <1>7, PlansCheckedNext DEF DInv

LEMMA DInvEnd ==
  ASSUME TInv, DInv, [Next]_vars,
         \/ RetryTask \/ RetryDone \/ Report \/ TagCheckpoint \/ Crash \/ Undo
  PROVE  DInv'
<1>1. CASE RetryTask
  <2>1. /\ pc = "retry" /\ pc' = "spec" /\ UNCHANGED <<mode, results, prep>>
        /\ results = {} /\ prep = {} /\ mode = "retry"
    BY <1>1 DEF RetryTask, DInv, RunPlaces
  <2> QED
    BY <1>1, <2>1, PlansCheckedNext
    DEF RetryTask, DInv, WavesOrdered, RunPlaces, AttemptsCount, Attempted, Busy
<1>2. CASE RetryDone \/ Report
  <2>1. /\ UNCHANGED <<plan, mode, parallel, mem, queue, tried>>
        /\ pc \in {"retry", "report"} /\ pc' \in {"report", "tag"}
    BY <1>2 DEF RetryDone, Report, ghost
  <2>2. Planned(plan)' = Planned(plan) /\ \A t : Settled(t)' = Settled(t)
    BY <2>1, PlannedSame DEF Settled, Row
  <2>3. \A t : Attempted(t)' = Attempted(t)
    BY <2>1 DEF queue, Attempted, Busy
  <2>4. WavesOrdered' /\ AttemptsCount' /\ RunPlaces'
    BY <2>1, <2>2, <2>3
    DEF queue, DInv, WavesOrdered, Settling, AttemptsCount, RunPlaces
  <2> QED
    BY <2>4, PlansCheckedNext DEF DInv
<1>3. CASE TagCheckpoint \/ Crash \/ Undo
  <2>1. /\ pc' = "idle" /\ wave' = {} /\ prep' = {} /\ results' = {}
    BY <1>3 DEF TagCheckpoint, Crash, Undo, queue, DInv, RunPlaces
  <2> QED
    BY <2>1, PlansCheckedNext DEF DInv, WavesOrdered, RunPlaces, AttemptsCount
<1> QED
  BY <1>1, <1>2, <1>3

LEMMA DInvNext == TInv /\ DInv /\ [Next]_vars => DInv'
<1> SUFFICES ASSUME TInv, DInv, [Next]_vars PROVE DInv'
  OBVIOUS
<1>1. CASE CreatePlanning \/ CreateBlocked \/ CreateFromLock
  BY <1>1, DInvStart
<1>2. CASE ScheduleTask \/ ScheduleWave \/ ScheduleDone
  BY <1>2, DInvSchedule
<1>3. CASE SpecStage
  BY <1>3, DInvSpec DEF SpecStage
<1>4. CASE \/ BuildInPlace \/ BuildInBranch \/ TryAgain \/ Gate \/ Commit \/ CommitRefused
           \/ RepairDiscarded \/ Reviewed
  BY <1>4, DInvBuild
<1>5. CASE RecordOutcomes
  BY <1>5, DInvRecord
<1>6. CASE RetryTask \/ RetryDone \/ Report \/ TagCheckpoint \/ Crash \/ Undo
  BY <1>6, DInvEnd
<1>7. CASE UNCHANGED vars
  <2>1. UNCHANGED <<pc, plan, mode, parallel, mem, queue, tried, cur>>
    BY <1>7 DEF vars, build, ghost
  <2>2. Planned(plan)' = Planned(plan) /\ \A t : Settled(t)' = Settled(t)
    BY <2>1, PlannedSame DEF Settled, Row
  <2>3. \A t : Attempted(t)' = Attempted(t)
    BY <2>1 DEF queue, Attempted, Busy
  <2>4. WavesOrdered' /\ AttemptsCount' /\ RunPlaces'
    BY <2>1, <2>2, <2>3
    DEF queue, DInv, WavesOrdered, Settling, AttemptsCount, RunPlaces
  <2> QED
    BY <2>4, PlansCheckedNext DEF DInv
<1> QED
  BY <1>1, <1>2, <1>3, <1>4, <1>5, <1>6, <1>7 DEF Next, Step

\* An attempt is made by the spec stage alone, on a task of the wave.
LEMMA AttemptInOrder ==
  ASSUME TInv, DInv, [Next]_vars, NEW t \in Tasks,
         mode = "first", tried[t] = 0, tried'[t] = 1
  PROVE  \A d \in plan.deps[t] : \/ Row(plan, d, "built") \in mem
                                 \/ tried[d] > 0 /\ \E r \in mem : r.task = d
<1>1. CASE SpecStage
  <2>1. PICK s \in Slugs : Attempt(s)
    BY <1>1 DEF SpecStage, SpecFrozen, SpecBlocked, SpecApproved, Specified
  <2>2. pc = "spec" /\ s[1] \in wave /\ tried' = [tried EXCEPT ![s[1]] = @ + 1]
    BY <2>1 DEF Attempt, IsFirst
  <2>3. tried \in [Tasks -> Nat]
    BY DEF TInv, BuildOK
  <2>4. t = s[1]
    BY <2>2, <2>3
  <2> QED
    BY <2>2, <2>4 DEF DInv, WavesOrdered, Settled
<1>2. CASE CreatePlanning \/ CreateFromLock
  BY <1>2 DEF CreatePlanning, CreateFromLock, Start
<1>3. CASE ~ SpecStage /\ ~ CreatePlanning /\ ~ CreateFromLock
  <2>1. tried' = tried
    BY <1>3 DEF Next, Step, CreateBlocked, ScheduleTask, ScheduleWave, ScheduleDone,
       BuildInPlace, BuildInBranch, TryAgain, Gate, Commit, CommitRefused, RepairDiscarded, Reviewed,
       RecordOutcomes, RetryTask, RetryDone, Report, TagCheckpoint, Crash, Undo, vars, ghost
  <2> QED
    BY <2>1
<1> QED
  BY <1>1, <1>2, <1>3

\* Sequential or in waves, after crashes, continuations and undos: a task's first
\* attempt comes after the fate of all it depends on is known.  For the
\* sequential loop this is Kahn's order (DepsBefore); for the waves it is the set
\* of tasks the earlier waves contained, all of which have their rows by then.
THEOREM AttemptsAlwaysFollowDependencies == Spec => AttemptsFollowDependencies
<1>1. TInv /\ DInv /\ [Next]_vars
        => [\A t \in Tasks :
              /\ mode = "first"
              /\ tried[t] = 0 /\ tried'[t] = 1
              => \A d \in plan.deps[t] :
                   \/ Row(plan, d, "built") \in mem
                   \/ tried[d] > 0 /\ \E r \in mem : r.task = d]_vars
  BY AttemptInOrder
<1>2. Spec => [](TInv /\ DInv)
  BY TInvInit, TInvNext, DInvInit, DInvNext, PTL DEF Spec
<1> QED
  BY <1>1, <1>2, PTL DEF Spec, AttemptsFollowDependencies
=============================================================================

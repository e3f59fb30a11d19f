----------------------------- MODULE AutopilotBuild -----------------------------
(***************************************************************************)
(* `avs create`: the runs that build a locked plan task by task            *)
(* (upstream/autopilot.py, upstream/build.py) inside one workspace.        *)
(*                                                                         *)
(* The workspace is a git working tree.  Every file the pipeline keeps     *)
(* there -- the plan, the specs with their `built` flags, outcomes.yaml,   *)
(* the code -- is an ordinary tracked file, and the pipeline itself runs   *)
(* `git add -A`, `git checkout -- .` and `git reset --hard` on it.  A run  *)
(* keeps its rows in memory, writes them to outcomes.yaml, and may crash   *)
(* anywhere; the next run resumes from what the working tree then says.    *)
(***************************************************************************)
EXTENDS Naturals, Sequences, FiniteSets

CONSTANTS
  N,             \* tasks of a plan, t1 .. tN in the planner's order
  Plans,         \* plans the planner may write: [deps, lane, title]
  Titles,        \* spec titles (slugs) the spec writer may choose for a task
  MaxTasks,      \* tasks one run builds at most
  ParallelFlags, \* whether runs are started with --parallel (wave scheduling)
  Ceiling,       \* token bound of a run, in model calls (specs, builds); 0 disables it
  MaxRepairs,    \* MAX_REPAIR_ATTEMPTS
  MaxIterations, \* MAX_ITERATIONS: attempts of the implementer in one build
  NoPlan,        \* there is no plan.yaml
  MaxRuns,       \* bound: runs started
  MaxCrashes,    \* bound: runs that crash
  MaxRefusals,   \* bound: `git commit`s that fail
  MaxUndos,      \* bound: `avs undo`s
  MaxErrors,     \* bound: builds that end in an error and are not reset
  MaxFaults      \* bound: crashes, refusals, undos and errors together

Tasks == 1 .. N
Slugs == Tasks \X Titles
Statuses == {"built", "failed"}
Row(p, t, s) == [task |-> t, title |-> p.title[t], status |-> s]
Works == UNION {{<<t, p.title[t]>> : t \in Tasks} : p \in Plans}
RowSet == UNION {{Row(p, t, s) : t \in Tasks, s \in Statuses} : p \in Plans}
Steps == {"idle", "schedule", "spec", "build", "gate", "commit", "review",
          "record", "retry", "report", "tag"}

ASSUME AutopilotAssumption ==
  /\ N \in Nat /\ MaxTasks \in Nat /\ Ceiling \in Nat /\ MaxRepairs \in Nat
  /\ ParallelFlags \subseteq BOOLEAN
  /\ \A p \in Plans : p.deps \in [Tasks -> SUBSET Tasks]
  /\ NoPlan \notin Plans
  /\ MaxIterations \in Nat \ {0}
  /\ MaxRuns \in Nat /\ MaxCrashes \in Nat
  /\ MaxRefusals \in Nat /\ MaxUndos \in Nat /\ MaxErrors \in Nat /\ MaxFaults \in Nat

VARIABLES
  tree,      \* the working tree's plan, specs, rows and code
  index,     \* the same files as git's index holds them
  head,      \* the commit at HEAD, and the work whose own commit it contains
  tags,      \* the ap-checkpoint-* tags, oldest first
  pc,        \* what the run does next
  parallel,  \* the run was started with --parallel
  mode,      \* "first" pass or "retry" pass
  plan,      \* the plan the run works on
  mem,       \* the outcome rows the run holds in memory
  todo,      \* tasks the first pass has not started
  sched,     \* tasks earlier waves contain
  wave,      \* tasks of this wave without a spec yet
  prep,      \* tasks of this wave with an approved spec, waiting to be built
  cur,       \* the spec being built
  pre,       \* the files that existed before its build
  attempt,   \* which attempt of the implementer it is at, 0 outside its loop
  written,   \* the last attempt with a usable answer wrote files
  left,      \* history: code in the tree that a build left there uncommitted
  results,   \* this wave's rows
  retries,   \* failed tasks the retry pass has not reached
  repairs,   \* repair attempts on the module under review
  used,      \* model calls this run has paid for, in specs and builds
  tried,     \* attempts this run has made, per task
  dropped,   \* tasks the scheduler gave up on
  status,    \* how the last run ended
  approved,  \* the plan last approved at Gate U2
  runs, crashes, refusals, undos, errors

repo == <<tree, index, head, tags>>
queue == <<todo, sched, wave, prep, results, retries>>
loop == <<attempt, written>>
build == <<cur, pre, loop, left, repairs>>
ghost == <<used, tried, dropped, status, approved>>
tally == <<runs, crashes, refusals, undos, errors>>
vars == <<repo, pc, parallel, mode, plan, mem, queue, build, ghost, tally>>

\* One more fault is within the bounds.
FaultLeft(n, max) == n < max /\ crashes + refusals + undos + errors < MaxFaults

-----------------------------------------------------------------------------
(* The plan. *)

\* Kahn's rounds: the tasks whose dependencies are all done after k rounds.
Done(p) ==
  LET done[k \in 0 .. N] ==
        IF k = 0 THEN {} ELSE {t \in Tasks : p.deps[t] \subseteq done[k - 1]}
  IN done

DagCheck(p) == Done(p)[N] = Tasks

RoundOf(p, t) == CHOOSE k \in 1 .. N : t \in Done(p)[k] /\ t \notin Done(p)[k - 1]

\* _topo_order: round by round, the planner's order within a round.
Before(p, t, u) ==
  \/ RoundOf(p, t) < RoundOf(p, u)
  \/ RoundOf(p, t) = RoundOf(p, u) /\ t < u

IsFirst(p, t, S) == t \in S /\ \A u \in S \ {t} : Before(p, t, u)

\* plan_topo: the first max_tasks tasks.
Planned(p) == {t \in Tasks : Cardinality({u \in Tasks : Before(p, u, t)}) < MaxTasks}

\* Mutated: a wave does not wait for the waves before it.
ReadyAtOnce(p, S, done) == S

Ready(p, S, done) == {t \in S : p.deps[t] \subseteq done}

\* One task per lane among the ready ones.
WaveOf(p, S, done) ==
  {t \in Ready(p, S, done) :
     \A u \in Ready(p, S, done) : p.lane[u] = p.lane[t] => ~ Before(p, u, t)}

(* The rows. *)

\* outcomes.yaml: {} when there is no such file, {rows} when it holds rows.
RowsOf(d) == UNION d.rows
BuiltIds(d) == {s[1] : s \in {x \in Slugs : d.specs[x] = "built"}}

\* A built row is believed only when a spec of that task is built on disk.
Resume(d) == {r \in RowsOf(d) : r.status = "built" => r.task \in BuiltIds(d)}

Record(rows, new) == {r \in rows : \A n \in new : n.task # r.task} \cup new

\* Mutated: a task is recognised by its id alone (the bug tasks_to_build tells of).
ToBuildById(p, rows) ==
  {t \in Planned(p) : ~ \E r \in rows : r.task = t /\ r.status = "built"}

ToBuild(p, rows) == {t \in Planned(p) : Row(p, t, "built") \notin rows}

Failed(rows) == {r.task : r \in {x \in rows : x.status = "failed"}}

(* What git does to the files. *)

\* `git checkout -- .`: tracked files come back from the index.
Checkout(d, i) ==
  [d EXCEPT !.plan = IF i.plan = NoPlan THEN @ ELSE i.plan,
            !.rows = IF i.rows = {} THEN @ ELSE i.rows,
            !.specs = [s \in Slugs |->
                         IF i.specs[s] = "none" THEN d.specs[s] ELSE i.specs[s]]]

\* Mutated: tracked files only.
ResetTracked(d, i, before) == Checkout(d, i)

\* _reset_workspace: delete the files that were not there before, then checkout.
ResetWorkspace(d, i, before) ==
  [Checkout(d, i) EXCEPT !.files = (@ \cap before) \cup i.files]

\* `git reset --hard`: tracked files become the target's, untracked ones stay.
HardReset(d, i, target) ==
  [plan |-> IF i.plan = NoPlan /\ target.plan = NoPlan THEN d.plan ELSE target.plan,
   rows |-> IF i.rows = {} /\ target.rows = {} THEN d.rows ELSE target.rows,
   specs |-> [s \in Slugs |-> IF i.specs[s] = "none" /\ target.specs[s] = "none"
                              THEN d.specs[s] ELSE target.specs[s]],
   files |-> (d.files \ i.files) \cup target.files]

NoFiles == [plan |-> NoPlan, rows |-> {}, files |-> {},
            specs |-> [s \in Slugs |-> "none"]]

\* Mutated: the flag is left for later.
BookkeepLater(d, s) == d

\* finalize_build_bookkeeping, as far as later runs read it.
Bookkeep(d, s) == [d EXCEPT !.specs[s] = "built"]

WriteRows(d, rows) == [d EXCEPT !.rows = {rows}]

InBranch == parallel /\ mode = "first"
Work(t) == <<t, plan.title[t]>>

-----------------------------------------------------------------------------
(* Starting a run. *)

Start(p, d) ==
  /\ pc = "idle" /\ runs < MaxRuns
  /\ runs' = runs + 1
  /\ parallel' \in ParallelFlags
  /\ pc' = "schedule" /\ mode' = "first" /\ status' = "running"
  /\ plan' = p
  /\ mem' = Resume(d)
  /\ todo' = ToBuild(p, Resume(d))
  /\ sched' = {} /\ dropped' = {} /\ used' = 0
  /\ tried' = [t \in Tasks |-> 0]
  /\ UNCHANGED <<index, head, tags, wave, prep, results, retries, build,
                 crashes, refusals, undos, errors>>

\* No plan yet, or --replan: decompose, dag_check, approve, build.
CreatePlanning ==
  \E p \in Plans :
    /\ DagCheck(p)
    /\ tree' = [tree EXCEPT !.plan = p]
    /\ approved' = p
    /\ Start(p, tree')

\* dag_check refuses the plan; plan.yaml then holds it as blocked, not locked.
CreateBlocked ==
  /\ pc = "idle" /\ runs < MaxRuns
  /\ runs' = runs + 1
  /\ \E p \in Plans : ~ DagCheck(p)
  /\ tree' = [tree EXCEPT !.plan = NoPlan]
  /\ approved' = NoPlan /\ status' = "blocked"
  /\ UNCHANGED <<index, head, tags, pc, parallel, mode, plan, mem, queue, build,
                 used, tried, dropped, crashes, refusals, undos, errors>>

\* The locked plan is reused.
CreateFromLock ==
  /\ tree.plan # NoPlan
  /\ Start(tree.plan, tree)
  /\ UNCHANGED <<tree, approved>>

-----------------------------------------------------------------------------
(* The first pass. *)

\* The loop's next task, or the stop rule between two tasks.
ScheduleTask ==
  /\ pc = "schedule" /\ ~ parallel /\ todo # {}
  /\ IF Ceiling # 0 /\ used > Ceiling
     THEN /\ pc' = "report" /\ status' = "halted"
          /\ UNCHANGED <<todo, wave>>
     ELSE \E t \in todo :
          /\ IsFirst(plan, t, todo)
          /\ pc' = "spec" /\ wave' = {t} /\ todo' = todo \ {t}
          /\ UNCHANGED status
  /\ UNCHANGED <<repo, parallel, mode, plan, mem, sched, prep, results, retries, build,
                 used, tried, dropped, approved, tally>>

\* The next wave; when no task is ready the rest is left out.
ScheduleWave ==
  /\ pc = "schedule" /\ parallel /\ todo # {}
  /\ wave' = WaveOf(plan, todo, sched)
  /\ sched' = sched \cup wave'
  /\ IF wave' = {}
     THEN todo' = {} /\ dropped' = todo /\ pc' = pc
     ELSE todo' = todo \ wave' /\ dropped' = dropped /\ pc' = "spec"
  /\ UNCHANGED <<repo, parallel, mode, plan, mem, prep, results, retries, build,
                 used, tried, status, approved, tally>>

\* Mutated: the rows to retry are read back from the last commit.
ScheduleDoneReadsBack ==
  /\ pc = "schedule" /\ todo = {}
  /\ pc' = "retry" /\ mode' = "retry"
  /\ retries' = Planned(plan) \cap Failed(RowsOf(head.doc))
  /\ UNCHANGED <<repo, parallel, plan, mem, todo, sched, wave, prep, results, build,
                 ghost, tally>>

\* Nothing left to start: the run's failed tasks are retried once.
ScheduleDone ==
  /\ pc = "schedule" /\ todo = {}
  /\ pc' = "retry" /\ mode' = "retry"
  /\ retries' = Planned(plan) \cap Failed(mem)
  /\ UNCHANGED <<repo, parallel, plan, mem, todo, sched, wave, prep, results, build, ghost,
                 tally>>

-----------------------------------------------------------------------------
(* One attempt: spec, build, commit, review. *)

\* Where the run goes with these tasks still waiting for a spec or a build.
Onward(w, q) == IF w # {} THEN "spec" ELSE IF q # {} THEN "build" ELSE "record"

\* The wave's next task goes to the spec writer, which names the spec s.
Attempt(s) ==
  /\ pc = "spec" /\ IsFirst(plan, s[1], wave)
  /\ used' = used + 1
  /\ tried' = [tried EXCEPT ![s[1]] = @ + 1]
  /\ UNCHANGED <<tags, parallel, mode, plan, sched, build, dropped, approved, tally>>

\* A spec that is built is frozen: the stage raises, nothing catches it, and the
\* run ends there.
SpecFrozen(s) ==
  /\ Attempt(s) /\ tree.specs[s] = "built"
  /\ pc' = "idle" /\ status' = "raised"
  /\ wave' = {} /\ prep' = {} /\ results' = {} /\ todo' = {} /\ retries' = {}
  /\ mem' = {}
  /\ UNCHANGED <<tree, index, head>>

Specified(s, q) ==
  /\ Attempt(s) /\ tree.specs[s] # "built"
  /\ tree' = [tree EXCEPT !.specs[s] = "open"]
  /\ wave' = wave \ {s[1]}
  /\ prep' = q
  /\ pc' = Onward(wave', q)
  /\ UNCHANGED <<status, todo, retries, mem>>

\* The linters or critics block the spec.
SpecBlocked(s) ==
  /\ Specified(s, prep)
  /\ results' = results \cup {Row(plan, s[1], "failed")}
  /\ UNCHANGED <<index, head>>

\* The spec is approved; for a lane it is committed, to be seen in HEAD.
SpecApproved(s) ==
  /\ Specified(s, prep \cup {s})
  /\ index' = IF InBranch THEN [index EXCEPT !.specs[s] = "open"] ELSE index
  /\ head' = IF InBranch THEN [head EXCEPT !.doc = index'] ELSE head
  /\ UNCHANGED results

SpecStage == \E s \in Slugs : SpecFrozen(s) \/ SpecBlocked(s) \/ SpecApproved(s)

NextSpec(s) == s \in prep /\ \A u \in prep \ {s} : Before(plan, s[1], u[1])

\* A build that ends without a commit leaves a failed row.
Fails(t, q) ==
  /\ results' = results \cup {Row(plan, t, "failed")}
  /\ pc' = Onward(wave, q)

\* A build in the shared working tree comes to its implementer, or is refused.
BuildInPlace ==
  /\ pc = "build" /\ ~ InBranch
  /\ \E s \in prep : NextSpec(s) /\ cur' = s
  /\ prep' = prep \ {cur'}
  /\ used' = used + 1
  /\ \/ attempt' = 1 /\ pre' = tree.files /\ pc' = "gate" /\ UNCHANGED results
     \/ Fails(cur'[1], prep') /\ UNCHANGED <<attempt, pre>>
  /\ UNCHANGED <<repo, parallel, mode, plan, mem, todo, sched, wave, retries,
                 written, left, repairs, tried, dropped, status, approved, tally>>

\* The tree once the implementer has written the task's files.
Code == [tree EXCEPT !.files = @ \cup {Work(cur[1])}]
InTree == {Work(cur[1])} \cap tree.files

\* Files that fail a check; no file; an answer cut off or refused, of which
\* nothing is written.  While attempts are left the implementer is told and asked.
TryAgain ==
  /\ pc = "gate" /\ attempt < MaxIterations
  /\ attempt' = attempt + 1
  /\ \/ tree' = Code /\ written' = TRUE
     \/ UNCHANGED tree /\ written' \in {FALSE, written}
  /\ UNCHANGED <<index, head, tags, pc, parallel, mode, plan, mem, queue, cur, pre, left,
                 repairs, ghost, tally>>

\* The loop ends and the build gate decides: set `built`, or reset the workspace.
\* An error on the last attempt resets only what `written` still tells of.
Gate ==
  /\ pc = "gate"
  /\ \/ /\ tree' = Bookkeep(Code, cur)
        /\ pc' = "commit"
        /\ UNCHANGED <<results, left, errors>>
     \/ /\ tree' = ResetWorkspace(Code, index, pre)
        /\ Fails(cur[1], prep)
        /\ UNCHANGED <<left, errors>>
     \/ /\ attempt = MaxIterations /\ ~ written /\ FaultLeft(errors, MaxErrors)
        /\ errors' = errors + 1
        /\ left' = left \cup InTree
        /\ Fails(cur[1], prep)
        /\ UNCHANGED tree
  /\ attempt' = 0 /\ written' = FALSE /\ pre' = {}
  /\ UNCHANGED <<index, head, tags, parallel, mode, plan, mem, todo, sched, wave, prep, retries,
                 cur, repairs, ghost, runs, crashes, refusals, undos>>

\* --parallel: built in a worktree of its own, then merged without a commit.
BuildInBranch ==
  /\ pc = "build" /\ InBranch
  /\ \E s \in prep : NextSpec(s) /\ cur' = s
  /\ prep' = prep \ {cur'}
  /\ \/ /\ tree' = Bookkeep([tree EXCEPT !.files = @ \cup {Work(cur'[1])}], cur')
        /\ pc' = "commit"
        /\ UNCHANGED results
     \/ /\ Fails(cur'[1], prep')   \* not built, or a merge conflict that is aborted
        /\ UNCHANGED tree
  /\ UNCHANGED <<index, head, tags, parallel, mode, plan, mem, todo, sched, wave, retries,
                 pre, loop, left, repairs, ghost, tally>>

\* `git add -A` takes the whole tree.
Commit ==
  /\ pc = "commit"
  /\ index' = tree
  /\ head' = [doc |-> tree, work |-> head.work \cup {Work(cur[1])}]
  /\ repairs' = 0 /\ pc' = "review"
  /\ UNCHANGED <<tree, tags, parallel, mode, plan, mem, queue, cur, pre, loop, left, ghost,
                 tally>>

\* The commit fails: in place the tree stays staged as it is, a merge is aborted.
CommitRefused ==
  /\ pc = "commit" /\ FaultLeft(refusals, MaxRefusals)
  /\ refusals' = refusals + 1
  /\ tree' = IF InBranch THEN head.doc ELSE tree
  /\ left' = IF InBranch THEN left ELSE left \cup InTree
  /\ index' = tree'
  /\ Fails(cur[1], prep)
  /\ UNCHANGED <<head, tags, parallel, mode, plan, mem, todo, sched, wave, prep,
                 retries, cur, pre, loop, repairs, ghost, runs, crashes, undos, errors>>

\* A discarded repair: checkout or reset --hard to the commit under review.
RepairDiscarded ==
  /\ pc = "review" /\ repairs < MaxRepairs
  /\ repairs' = repairs + 1
  /\ tree' = HardReset(tree, index, head.doc)
  /\ index' = head.doc
  /\ UNCHANGED <<head, tags, pc, parallel, mode, plan, mem, queue, cur, pre, loop, left, ghost,
                 tally>>

\* The review is over, with a repair that landed in a commit of its own or none.
Reviewed ==
  /\ pc = "review"
  /\ results' = results \cup {Row(plan, cur[1], "built")}
  /\ pc' = Onward(wave, prep)
  /\ UNCHANGED <<repo, parallel, mode, plan, mem, todo, sched, wave, prep, retries, build,
                 ghost, tally>>

\* record_outcome for the attempt (or wave); the sequential loop and the retry
\* pass persist at once, the wave loop does not.
RecordOutcomes ==
  /\ pc = "record"
  /\ mem' = Record(mem, results)
  /\ results' = {}
  /\ tree' = IF InBranch THEN tree ELSE WriteRows(tree, mem')
  /\ pc' = IF mode = "first" THEN "schedule" ELSE "retry"
  /\ UNCHANGED <<index, head, tags, parallel, mode, plan, todo, sched, wave, prep, retries, build,
                 ghost, tally>>

-----------------------------------------------------------------------------
(* The retry pass and the end of a run. *)

\* The row under retry is written out first; then a fresh attempt.
RetryTask ==
  /\ pc = "retry" /\ retries # {}
  /\ \E t \in retries : IsFirst(plan, t, retries) /\ wave' = {t}
  /\ retries' = retries \ wave'
  /\ tree' = WriteRows(tree, mem)
  /\ pc' = "spec"
  /\ UNCHANGED <<index, head, tags, parallel, mode, plan, mem, todo, sched, prep, results,
                 build, ghost, tally>>

\* Mutated: the pass goes on until nothing has failed.
RetryUntilBuilt ==
  /\ pc = "retry" /\ retries = {} /\ Failed(mem) = {}
  /\ pc' = "report"
  /\ UNCHANGED <<repo, parallel, mode, plan, mem, queue, build, ghost, tally>>

RetryDone ==
  /\ pc = "retry" /\ retries = {}
  /\ pc' = "report"
  /\ UNCHANGED <<repo, parallel, mode, plan, mem, queue, build, ghost, tally>>

Verdict(rows) ==
  IF status = "halted" THEN "halted"
  ELSE IF rows # {} /\ \A r \in rows : r.status = "built" THEN "completed" ELSE "failed"

\* The report, then outcomes.yaml for the last time.
Report ==
  /\ pc = "report"
  /\ tree' = WriteRows(tree, mem)
  /\ status' = Verdict(mem)
  /\ pc' = "tag"
  /\ UNCHANGED <<index, head, tags, parallel, mode, plan, mem, queue, build, used, tried,
                 dropped, approved, tally>>

\* After the evidence is refreshed, a completed build gets a checkpoint.
TagCheckpoint ==
  /\ pc = "tag"
  /\ tags' = IF status = "completed" THEN Append(tags, head) ELSE tags
  /\ pc' = "idle" /\ mem' = {}
  /\ UNCHANGED <<tree, index, head, parallel, mode, plan, queue, build, ghost, tally>>

-----------------------------------------------------------------------------
(* The world around the run. *)

Crash ==
  /\ pc # "idle" /\ FaultLeft(crashes, MaxCrashes)
  /\ crashes' = crashes + 1
  /\ pc' = "idle" /\ status' = "crashed"
  /\ mem' = {} /\ todo' = {} /\ wave' = {} /\ prep' = {} /\ results' = {}
  /\ retries' = {} /\ attempt' = 0 /\ written' = FALSE /\ pre' = {}
  /\ left' = IF pc \in {"gate", "commit"} THEN left \cup InTree ELSE left
  /\ UNCHANGED <<repo, parallel, mode, plan, sched, cur, repairs, used, tried, dropped, approved,
                 runs, refusals, undos, errors>>

\* Mutated: the branch goes back, the files stay.
UndoSoft ==
  /\ pc = "idle" /\ FaultLeft(undos, MaxUndos)
  /\ undos' = undos + 1
  /\ \E i \in 2 .. Len(tags) :
       head' = tags[i - 1] /\ index' = head'.doc /\ tags' = SubSeq(tags, 1, i - 1)
  /\ status' = "undone"
  /\ UNCHANGED <<tree, approved, pc, parallel, mode, plan, mem, queue, build, used, tried,
                 dropped, runs, crashes, refusals, errors>>

\* undo_to_before: back to the checkpoint before the chosen one.
Undo ==
  /\ pc = "idle" /\ FaultLeft(undos, MaxUndos)
  /\ undos' = undos + 1
  /\ \E i \in 2 .. Len(tags) :
       /\ head' = tags[i - 1]
       /\ tree' = HardReset(tree, index, head'.doc)
       /\ index' = head'.doc
       /\ tags' = SubSeq(tags, 1, i - 1)
  /\ approved' = tree'.plan
  /\ status' = "undone"
  /\ UNCHANGED <<pc, parallel, mode, plan, mem, queue, build, used, tried, dropped,
                 runs, crashes, refusals, errors>>

-----------------------------------------------------------------------------
Init ==
  /\ tree = NoFiles /\ index = NoFiles
  /\ head = [doc |-> NoFiles, work |-> {}]
  /\ tags = <<>>
  /\ pc = "idle" /\ parallel = FALSE /\ mode = "first" /\ plan = NoPlan /\ mem = {}
  /\ todo = {} /\ sched = {} /\ wave = {} /\ prep = {} /\ results = {} /\ retries = {}
  /\ cur = <<>> /\ pre = {} /\ repairs = 0
  /\ attempt = 0 /\ written = FALSE /\ left = {}
  /\ used = 0 /\ tried = [t \in Tasks |-> 0] /\ dropped = {}
  /\ status = "none" /\ approved = NoPlan
  /\ runs = 0 /\ crashes = 0 /\ refusals = 0 /\ undos = 0 /\ errors = 0

Step ==
  \/ ScheduleTask \/ ScheduleWave \/ ScheduleDone
  \/ SpecStage \/ BuildInPlace \/ TryAgain \/ Gate \/ BuildInBranch \/ Commit \/ CommitRefused
  \/ RepairDiscarded \/ Reviewed \/ RecordOutcomes
  \/ RetryTask \/ RetryDone \/ Report \/ TagCheckpoint

Next == CreatePlanning \/ CreateBlocked \/ CreateFromLock \/ Step \/ Crash \/ Undo

Spec == Init /\ [][Next]_vars

\* A started run keeps running: one process, no waiting on anybody.
FairSpec == Spec /\ WF_vars(Step)

-----------------------------------------------------------------------------
(* Properties. *)

Docs == [plan : Plans \cup {NoPlan}, rows : SUBSET SUBSET RowSet,
         specs : [Slugs -> {"none", "open", "built"}], files : SUBSET Works]
Commits == [doc : Docs, work : SUBSET Works]

\* The state of the workspace and of the run has the shape the code gives it.
TypeOK ==
  /\ tree \in Docs /\ index \in Docs /\ head \in Commits /\ tags \in Seq(Commits)
  /\ \A x, y \in tree.rows : x = y
  /\ pc \in Steps /\ parallel \in BOOLEAN /\ mode \in {"first", "retry"} /\ plan \in Plans \cup {NoPlan}
  /\ mem \subseteq RowSet /\ results \subseteq RowSet
  /\ todo \subseteq Tasks /\ sched \subseteq Tasks /\ wave \subseteq Tasks
  /\ retries \subseteq Tasks /\ dropped \subseteq Tasks
  /\ prep \subseteq Slugs /\ cur \in Slugs \cup {<<>>} /\ pre \subseteq Works
  /\ attempt \in 0 .. MaxIterations /\ written \in BOOLEAN /\ left \subseteq Works
  /\ repairs \in Nat /\ used \in Nat /\ tried \in [Tasks -> Nat]
  /\ approved \in Plans \cup {NoPlan}

\* A record never says "built" of work that is not committed: not in memory, not
\* in outcomes.yaml, whatever crashed, was refused or was reset before, or after
\* one undo.  A run skips a task on that word alone (_resume_outcomes,
\* tasks_to_build).  (A second undo, or one after a refused merge, can meet an
\* outcomes.yaml git does not track, and `git reset --hard` leaves that behind.)
BuiltRowsAreTrue ==
  \A r \in mem \cup results \cup RowsOf(tree) :
    r.status = "built" => <<r.task, r.title>> \in head.work

\* A run that ends "completed" leaves every task of the plan it worked on
\* committed under that task's own title.
CompletedMeansBuilt ==
  status = "completed" => \A t \in Planned(plan) : Work(t) \in head.work

\* The `built` flag of a committed task is in its own commit: no checkout, reset
\* or undo takes the one without the other (built_task_ids reads the flag).
FlagFollowsWork ==
  \A w \in head.work : w[1] \in BuiltIds(tree) /\ w[1] \in BuiltIds(head.doc)

\* Code that did not pass its gate reaches a commit, with a sibling's `git add -A`,
\* only when its own build left it in the tree: the run crashed in that build, the
\* commit was refused, or the last attempt ended in an error that resets nothing.
\* Every other failed build leaves no residue, whatever the attempts before wrote
\* (_reset_workspace).
OnlyGatedCodeIsCommitted == head.doc.files \subseteq head.work \cup left

\* A task is first attempted when the fate of every task it depends on is known:
\* each of those was attempted in this run and has its row, or was skipped as built.
AttemptsFollowDependencies ==
  [][\A t \in Tasks :
       /\ mode = "first"
       /\ tried[t] = 0 /\ tried'[t] = 1
       => \A d \in plan.deps[t] :
            \/ Row(plan, d, "built") \in mem
            \/ tried[d] > 0 /\ \E r \in mem : r.task = d]_vars

\* A sequential run attempts no task more than twice, and one that gives up on a
\* planned task has tried it twice, however the attempts ended.
FailuresAreRetried ==
  /\ \A t \in Tasks : tried[t] <= 2 /\ (status = "halted" => tried[t] <= 1)
  /\ status = "failed" => \A t \in Planned(plan) \cap Failed(mem) : tried[t] = 2

\* A run that was started ends.
RunEnds == pc # "idle" ~> pc = "idle"

-----------------------------------------------------------------------------
(* What comments and documents say. *)

\* "a task interrupted halfway restarts that task" (autopilot.py): the spec
\* stage of a run does not raise.
InterruptedTaskRestarts == status # "raised"

\* "cycle -- dag_check blocks these upstream" (schedule_waves): of a plan
\* dag_check accepted, a completed run's waves left no task out.
WavesCoverThePlan == status = "completed" => dropped = {}

\* "Earlier iterations already wrote into the shared workspace -- same residue
\* rule as the failure returns" (build.py): without a crash or a refused commit no
\* failed build leaves anything behind.
FailedBuildsLeaveNothing == crashes + refusals = 0 => left = {}

\* "A locked plan is now the plan" (autopilot.py): the plan on disk is the one
\* approved last, until it is approved anew or undone.
LockedPlanHolds == tree.plan = approved
=============================================================================

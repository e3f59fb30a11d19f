# ai-venture-studio in TLA+

TLA+ models of the parts of ai-venture-studio (`avs`) that keep state across
processes and crashes, TLC runs on small instances of them, and TLAPS proofs of
the properties that matter most. Paths below are relative to
`src/ai_venture_studio/`. `PROJECT.json` maps each definition to the lines it
translates and lists components, runs, hazards and theorems.

1. [The system](#1-the-system)
2. [The components](#2-the-components)
3. The modules: [JobQueue](#31-jobqueue) · [ReviewGraph](#32-reviewgraph) ·
   [AutopilotBuild](#33-autopilotbuild) · [SpecChange](#34-specchange) ·
   [Autonomy](#35-autonomy) · [Maintenance](#36-maintenance) ·
   [Intake](#37-intake) · [Voter and Panel](#38-voter-and-panel) ·
   [ChatThread and Studio](#39-chatthread-and-studio) ·
   [ProductBench and Cadence](#310-productbench-and-cadence)
4. [The runs](#4-the-runs)
5. [What the models found](#5-what-the-models-found)
6. [What is proved, and how](#6-what-is-proved-and-how)
7. [Not modelled](#7-not-modelled)
8. [Plan](#8-plan)
9. [Running it](#9-running-it)

## 1. The system

`avs` has an upstream half, which turns an idea into a built product, and a
downstream half, which reviews code and operations. Nearly all of it is
sequential code over YAML files and git. What makes it hard is that many such
processes are started, killed and restarted around the same files:

```
 forge webhook ──> avs serve ──┬─> jobqueue.db ──> avs worker ──> avs review
   alerts, PRs      │ jobs.yaml └─> detached `avs review` (no queue)   │
                    │ on start: recovery thread ──────────────────────┤
                    │                                                 v
 human ── avs resume / avs recover ───────────────────> LangGraph checkpoints
                                                        + YAML mirror + forge
 voters -> verify -> score -> fold -> verdict (inside the review)     │
                                                                      │
 avs triage ── incident graph ── history.yaml, skills/ ── fix branch  │
                                                                      │
 avs deploy-review ── track record <── avs deploy-outcome (human)     │
                          │                                           │
 avs automerge / avs deploy-execute <── policies <────────────────────┘

 human ── Founder Studio ── build.pid ──> avs create / avs add / avs retry-task
                 │                                │
                 │ confirm, scr-approve           │
                 v                                v
          SCRs, parked amendment     plan (lock) -> waves -> spec -> build
                                       -> gate -> commit -> review/repair
                                                  │
                       one git workspace: plan.yaml, specs, requirements.yaml,
                       outcomes.yaml, code, ap-checkpoint-* tags
```

Components call one another in one of three ways: a subprocess running `avs`
(queue worker, server, Studio), files under `.avs/`, `.mas/` or the product's
workspace, or the forge's CLI. There are no locks between processes, except
SQLite's own in the job queue. So the questions worth asking are all about
order: what a crash loses, what a second process sees, and what a file still
says after git has moved it.

## 2. The components

`M` modelled, `P` partly, `–` not modelled. The last column is what makes the
component correct; for the unmodelled ones it is what a model would check.

| component | | module | state | what is hard | correct when |
|---|---|---|---|---|---|
| job queue (`jobqueue.py`) | M | `JobQueue` | SQLite table of jobs | a worker that dies; claims taken back by age | one holder per job, results final, every job finished |
| review graph (`orchestrator/`, `mirror.py`) | M | `ReviewGraph` | checkpoints, mirror, forge | crash between effect and checkpoint; two processes on one review | no unattended escalation, no unearned approval, an audit trail without holes, every review settles |
| automation gate, track record (`automation.py`, `deploy/track_record.py`) | M | `Autonomy` | policies, track record, log | read-modify-write by two processes; expiry; re-marked outcomes | autonomy only inside an unexpired, earned policy |
| build autopilot (`upstream/autopilot.py`, `build.py`, `plan.py`, `spec.py`) | P | `AutopilotBuild`, `SpecChange` | git workspace, rows, tags | crash or git reset between work, flag and row | a row that says built is true, completed means built |
| specs, requirements, reconciliation | P | `SpecChange` | specs, ledger, SCRs | grant consumed before its use is saved; git takes files back | one rewrite per grant; code and ratified contract agree |
| build repair loop (`upstream/correction.py`) | P | `SpecChange`, `AutopilotBuild` | parked amendment | an amendment applied without its build | an amendment follows its build |
| Founder Studio (`studio*.py`) | P | `Studio`, `ChatThread`, `SpecChange` | conversation, `FDR.md`, `build.pid`, the `thinking` flag | stale pages, overlapping requests, a build beside them | what is built is what was said and confirmed; one build per product at a time |
| deployment review (`deploy/`) | P | `Autonomy` | checkpoints, mirror, record | crash between row and final file | the record says what the final file says |
| maintenance (`maintenance/`) | P | `Maintenance` | incidents, history, skills, fix branches | two triages over one history and one skill folder | only approved skills injected; drafts earned |
| webhook server (`server.py`, `ci.py`, `tenants.py`) | P | `Intake` | dedupe markers, incident files, `jobs.yaml` | unlocked rewrites; marker before effect | each alert handled once; no job lost from the list |
| voters, leader, verification, scoring | P | `Voter`, `Panel` | conversation, envelopes | bounds a model may mix; folding and merging after scoring | bounded calls; verdict and report agree |
| command line (`cli.py`) | P | several | none of its own | the order of gates in automerge, deploy-execute | no merge or deploy without every gate |
| test gate, sandbox (`testing.py`) | – | | scratch worktree | leftovers of a killed run | a gate that cannot run does not say clear |
| analysis tools (`tools/`) | – | | none | stateless analyzers | – |
| forge (`forge.py`) | – | | external | a call that fails half way | errors are never taken for success |
| MCP transport (`mcp/`) | – | | a pipe and its reader | a late answer to an earlier request | an answer belongs to its request |
| providers | – | | network | retries and rate limits | – |
| planning inputs | P | `Studio` | the brief | two runs write one brief | a plan is of the words it was made for |
| workspace, delivery | – | | generated files | – | – |
| product loop (`product/`) | – | | stage, cycle | one process, a human gate per stage | no stage without its gate |
| evidence, experiments | – | | statistics | gates over floats | – |
| marketing gates | – | | approvals | – | – |
| adoption track | – | | hash-chained ledger | – | the chain verifies |
| complex-system lanes | – | | none | checks of declared numbers | – |
| cadence, notification (`cadence.py`, `notify.py`) | P | `Cadence` | dated artifacts, `alerts-sent.yaml` | days, releases and three tellers of one log | news is said once and never withheld; paid runs are spaced |
| spend ledger | – | | buffer and file | rows lost with the process | the bound counts what was spent |
| learning loop | – | | proposals | – | a human accepts |
| benchmarks (`product_bench.py`, `bench_criterion.py`) | P | `ProductBench` | checkpoints, `bench.pid`, result files | runs killed and resumed across builds | a number was measured on what its file names; the criterion fires on readings |
| policies, profiles, editions | – | | configuration | – | – |
| rendering, replay | – | | none | text in, text out | – |

## 3. The modules

Each component has one module with its state as VARIABLES and one action per
operation, an `MC` module with small instances, and a proof module, which some
share. Definitions marked *Mutated* are plausible bugs of the definition they stand
before. Where a file is loaded whole and saved whole without a lock, load and save are two
actions: this is the interleaving the code really has. `used` or `spent` counts
what the bounds `Max...` cap; other history variables say what happened in a
behaviour (`raced`, `torn`, `beside`, `blessed`, ...) and no action reads them
to decide anything.

### 3.1 JobQueue

**Modules.** `JobQueue` (the table and the worker loops), `WorkQueue` (the
abstract queue: a ticket is waiting, held by one holder, done or failed, and it
is finished while it is held, late only after a `Lapse`), `MCJobQueue`,
`JobQueueProofs`.

**State.** `jobs` is the table (`status`, `worker`, and the age of the claim in
place of `claimed_at`), `last` is SQLite's autoincrement. Each worker has a
program counter through `worker_loop`'s calls: requeue, claim, run, complete;
`cur` is its job, `held` the time it has had it, `taken` the local `done`.

**Actions.** `Enqueue` is `JobQueue.enqueue`; `RequeueStale` is the loop test
and `requeue_stale`; `Claim` and `ClaimNothing` are the two outcomes of
`claim()`; `RunEnds` and `RunTimesOut` are `subprocess.run` ending or raising
`TimeoutExpired`, which nothing catches; `Complete` is `complete()`. `Crash`,
`Restart`, `Tick` and `Sleep` are the world. Each queue operation is one
action because each is one SQLite transaction or one statement.

Two clocks matter. The subprocess limit runs on the monotonic clock, the claim's
age on wall time. `Sleep`, a suspension of the host, lets them part; the history
variable `slept` says that it happened. `Slack` bounds the time between
the end of a subprocess and the write of its row: in the code it is a statement
away, and the two hours between the limit (4 h) and `max_age_s` (6 h) are far
longer. The numbers are scaled to `Timeout = 2, Slack = 1, MaxAge = 3`, the
tightest values `QueueAssumption` allows, so the boundary case is the one that
is explored.

**What it shows.** `complete()` writes by id alone; that it never overwrites
somebody else's result rests only on the three numbers above and on the host
not being suspended. A laptop that sleeps in the middle of a job wakes with a
stale claim and a live subprocess, and the job is run twice. No job is lost that
way: `EveryJobFinishes` has no such premise, and the refinement goes through a
suspension by way of the abstract queue's `Lapse`.

### 3.2 ReviewGraph

**State.** On disk: `meta` (meta.yaml), `ckpt` (the newest stored checkpoint:
next node, graph state, whether `interrupt` was recorded), `files` (mirror files
as pairs of step and node), `finals`, `logs` (voter logs). On the forge:
`issues`, `comments`. Per process: the node it runs next, its graph state, the
mirror's step counter, results not yet stored, and the human's decision it brings.

**Actions.** One per node of `build_graph` (`DorGate`, `InitNode`, `Analyze`,
`Tools`, `Vote`, `Verify`, `Leader`, `TestGate`, `Hitl`); `escalate` and `post`
are split at their external effects (`OpenIssue`, `Escalate`; `PostDorFail` or
`PostLogs`, `PostComment`, `PostFinal`) so that a crash can fall between them.
`StartReview` is `run_review`, `Recover` is `recover_reviews` for this review,
`Resume` is `resume_review`, `Persist` is the checkpointer's background write,
`Pause` is `interrupt()` and the exit. What voters, verification, the test gate
and the forge answer is a nondeterministic choice (`Panel` looks inside the
first two); the five `ESCALATE_*` verdicts are one and `deep` mode is folded
into `standard`, because the graph treats them alike.

How LangGraph stores and replays is modelled from how the code uses it and marked
external: results are stored asynchronously, so a crash loses up to
`MaxLag + 1` of them; a resume decision is consumed by `hitl` only and
elsewhere the graph just continues.

**What it shows.** The gates hold in every interleaving, two processes on one
review included. After a crash an issue can be opened a second time (the issue
is opened before `escalate`'s result is stored), which is why `SideEffectsOnce`
is about runs without a crash. With a lagging checkpoint the models are asked
again and may answer differently. A review that never stored its first checkpoint is reported by
`recover_reviews` as `no_checkpoint` and not continued: the premise of
`EveryReviewSettles`.

### 3.3 AutopilotBuild

**State.** A document is what the pipeline keeps in the working tree: the plan,
the specs with their status, `outcomes.yaml` and the code, one unit of *work* per
task and title. There are three copies of it, as git has them: `tree`, `index`
and `head`; `head.work` is the work whose own gated commit HEAD contains. Then
the run: the rows it holds in memory (`mem`), the tasks still to be scheduled
(`todo`, `wave`, `prep`), the spec being built, the retry list, the counters.

| action | code |
|---|---|
| `CreatePlanning`, `CreateBlocked`, `CreateFromLock` | `run_autopilot` to the lock: decompose, `dag_check`, approve, or reuse `plan.yaml`; `_resume_outcomes`, `tasks_to_build` |
| `ScheduleTask`, `ScheduleWave`, `ScheduleDone` | the sequential loop with its stop rule, `schedule_waves`, the turn to the retry pass |
| `SpecStage` | the spec writer, linters, critics and approval; a built spec raises |
| `BuildInPlace`, `TryAgain`, `Gate` | `run_build`, `_run_build_inner` in the workspace: up to `MAX_ITERATIONS` attempts, then the gate: `finalize_build_bookkeeping`, `_reset_workspace`, or an error that resets only what `written` still names |
| `BuildInBranch` | `--parallel`: a worktree per lane, `merge --no-commit` |
| `Commit`, `CommitRefused` | `git add -A`, `git commit` |
| `RepairDiscarded`, `Reviewed` | `review_and_repair`: a repair rolled back, or the review over |
| `RecordOutcomes` | `record_outcome`, `_write_outcomes` |
| `RetryTask`, `RetryDone`, `Report`, `TagCheckpoint` | the retry pass, the report, the checkpoint tag |
| `Undo`, `Crash` | `undo_to_before`; the process dies |

`Checkout`, `ResetWorkspace` and `HardReset` say what git does to tracked and
untracked files, as far as the pipeline's files go.

**Abstractions.** An attempt writes the task's files, returns none, or is cut off
or refused; `written` is whether the variable of that name still names files, which
an attempt without files empties. `left`, a history variable, collects what a
build left in the tree uncommitted: a crash in it, a refused commit, or an error
whose reset was skipped. `MaxErrors` bounds the last. A repair that lands is part of
`Reviewed`; its own commit adds no task. Tokens are counted as model calls. A
provider exception that nothing catches is a `Crash`. Titles may collide with an
earlier plan's, never across two tasks. Grants, which let a spec be reopened, are
`SpecChange`'s subject: without one a built spec is frozen.

**What it shows.** Rows, flags and commits stay together through every reset of
these runs. Whatever else is committed than gated code was in `left`
(`OnlyGatedCodeIsCommitted`); that a build can leave something without a crash and
without a refused commit `AutopilotResidue.cfg` shows. Section 5 tells where the
other edges are.

### 3.4 SpecChange

Changing a product that is already built: `spec.py` (save, freeze, SCRs, the
drift gate), `requirements.py` (the numbered ledger derived from the specs),
`correction.py` (`apply_change`, `run_correction`) and `run_feature` of
`autopilot.py`, started from the Studio.

**State.** A tree is the specs and the ledger; there is the working tree
(`work`), `head`, and the `ap-checkpoint-*` tags. A contract is its one criterion
(`text`), its status, the built flag, the text its approval pinned, and the change
that wrote it (`by`, history). Outside git, as `.mas/` is: the change requests
`scrs`, the `parked` amendment. `build` is the detached `avs add`.

**Actions.** `Confirm` and `Add` (`correct_confirm` with `apply_change`, and
`feature_build`, behind `build.pid`), `ApproveScr` (`approve_scr`), `Reconcile`
(`run_feature` up to its plan), `WriteSpec` / `SpendOnSpec` / `SaveGranted` /
`SpecRefused` (`run_spec_stage` with and without a grant, split between
`_scr_grant`, which consumes it, and `_save`), `Built`, `BuildFailed`,
`BuildRaises` (`finalize_build_bookkeeping`, `_reset_workspace`), `Finish` (the
end of `run_feature`), `TakeParked`, `Amend`, `StampAmendment`
(`apply_pending_amendment` and `amend_spec_criteria`: the file is deleted, then the
grant consumed, then the spec written), `Tag` (`tag_checkpoint`), `RepairLands` and
`RepairFails` (`run_correction`), `Undo` (`undo_last`), `Crash`. `Sync` is
`sync_ledger`; the code calls it on every save and at the end of a run and so do
the actions.

**What it shows.** `OneRewritePerApproval`: a grant is consumed before the spec
is saved, so a crash can waste an approval and never spend it twice.
`AmendmentFollowsItsBuild`: an amendment parked by a change whose build failed
is not picked up by the next feature. `NoUnratifiedFork`: text and pinned
approval move together through checkouts, resets, undos and tags, unless a repair
or an undo ran beside a build (`beside`), which `build.pid` does not prevent.
`NumbersStay`: a step of the program never gives a promise a second number;
only a rollback of the whole file does.

### 3.5 Autonomy

**State.** A deployment review has its facts, the last stored checkpoint, its final
file. Any number of processes may be at work on one, each in a slot
(`Procs == Reviews \X Slots`): where it is (`pc`), what its score node kept
(`kept`), its copy of the track record (`copy`). `records` is the track record;
`mark` the `deploy-outcome` command in flight; `policies` the two policy files;
`cmd` the acting process; `day` the date. `said` (what the human last said of a
review), `acted`, `keeps` (what each scoring of a review kept) and `raced` are
history.

**Actions.** `StartReview`, `WriteMeta`, `ProbesAndVote`, `ScoreNode`,
`RecordLoad`, `RecordSave`, `WriteFinal`, `Crash` are the graph of
`deploy/graph.py` with `finalize_node` split into its three writes. `RecoverCheck`
and `RecoverLoad` are `recover_deploy_reviews`, which every start of the server
runs: it asks for `meta.yaml`, a checkpoint and no final file and *not* whether the
review's process is alive, so a live review is run a second time beside itself, and
the two write one track record, one checkpoint thread and a final file each.
`MarkLoad`, `MarkSave` are `mark_outcome`; `DeployLoad`, `DeployEvaluate`,
`MergeEvaluate`, `Act`, `Record`, `Killed` are `avs deploy-execute` and
`avs automerge`; `EditPolicy` and `Tick` are the human and the date.
`DeployRefused` and `MergeRefused` have one disjunct per condition of
`evaluate_deploy` and `evaluate_merge`. What probes and panel find is a set of
kinds.

**What it shows.** Every merge and deploy stood on a policy in force, a final
file that carries it, and a streak the human's own latest marks bear out
(`TrustIsEarned` compares with `said`, not with the file the code counts). The
file keeps carrying a deploy where all scorings of the review kept the same
(`ScoredAlike`); where a recovery beside a live review scored it anew, the file
that a deploy stood on can be replaced by one that says otherwise afterwards, which
`AutonomyRescored.cfg` shows. The other premises are of the same kind: two
overlapping writers of the track record lose a mark, and a review scored twice, by
a recovery after a crash or beside a live process, keeps the first row while it may
show the second verdict.

### 3.6 Maintenance

**State.** Per incident its checkpoint and whether it has a final file; per process
at work on one (`Procs`, an incident and a slot) the node it runs and what its nodes
returned; shared: `history` (history.yaml) and `skills` (the skill files by name).
`blessed` and `applied` are the bodies a human approved and the bodies an
investigation was given.

**Actions.** `Triage`, `Gather`, `TriageNode`, `LearnedNode`, `RootCauseNode`,
then `finalize` in its four steps (`HistoryLoad`, `HistorySave`, `DraftCheck`,
`DraftWrite`) and `WriteFinal`; `Crash`; `RecoverCheck` and `RecoverLoad`
(`recover_maintenance`, at every start of the server, beside a live process as
well as after a dead one); `Approve` (a human edits the file).

**What it shows.** A draft over a file of the same name lends no approval to the
new body; a class gets a skill after distinct incidents, also when one is triaged
again or recovered beside its own process; the history is complete up to its
length. What two simultaneous triages lose is said by the premise `raced`. The fix
request (`fixpr.py`) works on a branch and in a worktree of its own; nothing else
reads what it leaves, and it is not modelled.

### 3.7 Intake

The webhook server of one workspace. The event loop runs one handler at a time
(`loop`), `GET /jobs` runs in threads (`lister`). `Alert`, `AlertFile` are the
monitoring hook with its marker and its incident file; `Post` a posted incident;
`ReviewEvent`, `Popen`, `RecordLoad`, `RecordSave` a review or push event and
`_record_job`; `ListLoad`, `ListSave` `_reconcile_jobs`; `Exit` a spawned process
ending; `Crash` the server. `MaxRows` is 200 in the code and 1 in the run.

**What it shows.** An alert has one incident file unless the server died between
marker and file; then every redelivery is dropped as a duplicate. A listing that
overlaps an event writes its stale copy back and the event's row is gone; where
that has not happened the list is exactly the latest work. No interleaving shows
a running process as finished.

### 3.8 Voter and Panel

`Voter` is the conversation of one voter (`voters/base.py`,
`tools/voter_tools.py`): `BeginAttempt`, `Answers`, `AttemptFails`,
`ProviderFails`, and one action per kind of reply the loop tells apart
(`ReplyEmpty`, `ReplyMalformed`, `ReplyUnreadable`, `ReplyToolRequest`,
`ReplyForeignRequest`). `Panel` extends it to the path from tool reports to the
leader's verdict: `RunTools`, `Ask`, `Reply`, `Collect`, `Verify` (`verify.py`,
`scoring.py`), `Lead` (filter, fold, sort, verdict) and `Merge` (the semantic
merge). It models what `ReviewGraph` leaves to a choice of verdicts. Voters run in
threads but share nothing while they do, so they are run one after the other.
A finding is its title, place, severity, confidence and hint; a severity is its
rank.

**What it shows.** A model may mix empty, unreadable, malformed and tool-asking
replies and still costs a bounded number of calls (`RoundTripsAreBounded`, which is
proved, of the replies that are counted: a refused tool request costs no budget). The verdict is
chosen before a model merges findings, and still agrees with the merged report.
Folding loses no site.

### 3.9 ChatThread and Studio

From the first page to the build: what the founder says, what the Studio makes of
it, and which words `avs create --yes` then builds. `ChatThread` is the pure part
(`studio_chat.py`): the list of turns and what is read off it, `compose_fdr`, and
the extraction with its rule that only verbatim words count as said. `Studio`
extends it.

**State.** On disk: `thread` (conversation.jsonl), `fdr`, its `backup`,
`questions`, `confirmation`, `brief`, `plan` with its lock and fingerprint,
`report`, `pid` (build.pid). In the server: `thinking`. Each browser tab is a
process, the page it shows and where its request is; each build is one too, with
the words and the plan it holds in memory.

| action | code |
|---|---|
| `Home`, `Chat` | `home`, `chat`, `_chat_page`: which page, by the flag, build.pid, the report, the confirmation, the conversation |
| `SubmitAnswer`, `ChatAnswer`, `Extract` | `POST /chat`: the flag, the open question, the extraction of the opening |
| `SubmitGuess`, `ChatGuess` | `POST /chat/guess`: yes, other words or neither |
| `BeginAssess`, `Assess` | `_chat_assess`: one more question, or `_chat_handoff` |
| `ChatEnough`, `ChatRestart` | the two links under a question |
| `SubmitFdr`, `SaveFdr`, `FdrReads`, `FdrDiscovers`, `FdrSummary` | `POST /fdr`: conflict check, release of the lock, then the foreground `run_autopilot` up to the summary |
| `Raises` | a model call that raises, and its handler |
| `StartBuild`, `SpawnBuild`, `Reset` | `POST /build` (check, then spawn), `POST /reset` |
| `BuildReads`, `BuildDiscovers`, `BuildConfirms`, `BuildPlans` | the detached run: `reusable_plan`, discovery, confirmation, the plan saved as proposed |
| `BuildApproves`, `BuildLoads` | `approve_plan` and `_build_plan`, each of which reads `plan.yaml` anew: the first locks, the second builds what is there |
| `BuildEnds`, `BuildDies` | the report; a kill |
| `EditFdr`, `StudioRestarts` | an editor; the server |

A request is split where another one can come between: after the check of
`thinking` or of build.pid and at every model call. `agreed`, `unseen`,
`overlaps`, `mixed` and a build's `shown` are history.

**Abstractions.** Words are told apart by whose they are: typed, skipped, or one
of the model's proposals. A document is its contents, so equal documents have
equal fingerprints; the untouched template counts as no document. What the
assessor, the extraction and discovery answer is a choice.

**What it shows.** What a build builds is a plan for the words it read, made from a
brief of those words, whatever is written to `FDR.md` meanwhile
(`BuiltFromItsWords`). The weak points are the two files a run reads again after it
wrote them: the brief, approved and read back from disk, and the plan, which is
locked and built from disk, also where the run means to reuse a lock. Two runs that
overlap may so plan from each other's brief, or build each other's plan
(`StudioPlans.cfg`). `mixed` says which of the two files was replaced under a run that
had yet to read it, and exempts exactly the half of the property that rests on it.
Two builds need a double click or a reset. Words a model
proposed reach the document only by a yes. The questions end: `FollowUpsAreBounded`
counts the answered ones against those that start the last round, `MostFollowUps`,
and one for each assessment that ran beside another (`overlaps`), since the rounds
are counted before the wait for the assessor.

**Assumptions.** `Earlier`, the conversations an earlier session left, are threads
with no more follow-ups than one tab gets (`StudioAssumption`); what they hold as
answers counts as agreed. There are at least two rounds, as many as in the code (`MAX_CLARIFY_ROUNDS`):
the argument needs room for a clarify question left on disk beside a request that
is about to assess.

### 3.10 ProductBench and Cadence

**Modules.** `ProductBench` is the benchmark of whole products
(`product_bench.py`) with the kill criterion that reads its results
(`bench_criterion.py`). `Cadence` extends it with the daily scheduler
(`cadence.py`) and the alert channel (`notify.py`), which start benches, read
what they left and post what needs a person.

**State.** `bank` holds one checkpoint per case: the row and the key (build, case
file, provider) it was measured under. `lock` is bench.pid, `files` the result
files, each in `.mas/` and perhaps in the tracked directory. `run` is what each
bench process does. In `Cadence`, `weekly` stands for the newest artifact of the
weekly loops (compound and sweep, which go together), `sent` is
`alerts-sent.yaml`, and `morning` is what each of the three tellers of that file
does: the LaunchAgent, a report by hand, a bench with `--notify`.

| action | code |
|---|---|
| `Starts`, `TakeLock`, `ReleaseLock` | `acquire_bench_lock` (check, then write) and `release_bench_lock` |
| `SkipCase`, `MeasureCase`, `CaseCrashes` | one turn of the loop over the cases: not asked, cut, banked; measured and banked; an exception and `_REPEAT_ABORT_THRESHOLD` |
| `Save`, `Dies` | `save_summary`; a kill |
| `Release`, `Upgrade`, `EditCases`, `CopyByHand`, `Tick`, `UtcTick` | the world: a release, the scheduler's own install, the case files, a human who copies a result, local midnight and UTC's |
| `Wakes`, `RunWeekly`, `RunBench`, `BenchRefused`, `BenchReturns`, `BenchTimesOut` | `run_due`: what is due is read once, then each loop in turn |
| `Report`, `Deliver`, `LoadSent`, `SaveSent` | `build_alert`, `is_worth_repeating`, `post`, `record_sent` (whole file read, whole file written) |
| `OperatorReports`, `BenchPosts`, `TellerDies` | the other two tellers, and one that is killed |

`Series`, `Streak` and `Fires` are `_scan` and `evaluate`: which files count as a
reading of the suite, and how many in a row are below a floor. `Watched` is the
other reading of the same directory, `_bench_status`. There are two dates:
`utc`, which stamps results and checkpoints (`product_bench.py`), and `day`, the
local date that the scheduler ages them against (`cadence.py`). `Zone` says where
the machine is: east of Greenwich its midnight comes first, west of it second.
`Watched` takes in aborted runs of any kind: `_scan` tests `aborted` first, so they
are in neither list of what is excluded.

**Abstractions.** A case works, fails its probes or builds nothing; rates are
compared as fractions of small numbers. Builds are numbered, days too. Hours are
not told apart: a checkpoint's age in whole days is either of the two its date
allows (`Ages`). An alert is the set of its facts. A teller reads the date once per step where the code reads
it once per call.

**What it shows.** However runs are killed, resumed, upgraded and overlapped, each
number in a result was measured under the key the result names
(`RowsAreTheResults`), because `read_checkpoint` compares the key and `Save` takes
its own. The criterion fires only on whole real runs (`FiresOnReadings`), but
two of them may be the same measurements twice (`TwoReadings`, section 5). No
news is withheld that was not said (`NewsIsSaid`): the log is written after the
delivery, and per kind. The same news can be posted twice in a day, where two
tellers overlap or one dies between the post and the log. A resume does not
pay again for what is banked under its own key (`ResumesPayOnce`), and the
scheduler pays for a second bench within the spacing, less one day, only where the
first left no result (`SpendIsSpaced`). The day is what the two dates can differ by:
a bench started in the early hours east of Greenwich is stamped with the day
before and looks a day older than it is, so that the full spacing does not hold
(`BenchSpacing.cfg`).

`MCLoops` puts three instances side by side and a behaviour is of one of them: the
bench alone (in UTC), the scheduler with its tellers (west), the scheduler with
releases to bench (east).

## 4. The runs

Every run ends within two and a half minutes on two cores. Deadlock is not checked where
the system really stops: all work done, all bounded events spent.

| run | checks | instance, and why it is enough |
|---|---|---|
| `queue` | `HolderOwnsRow`, `ImplementsQueue`, `EveryJobFinishes` | 2 workers, one with `--max-jobs 1`, 2 jobs, 2 deaths: a job can be orphaned twice; a host that may be suspended at any moment |
| `review` | `SideEffectsOnce`, `NoUnattendedEscalation`, `ApprovalIsEarned` | 2 processes that overlap at most once, a crash, 2 human answers, `MaxLag = 0`: a recovery beside a live worker, and a resume of what either left |
| `review_live` | `MirrorCoversCheckpoint`, `AppendOnlyMirror`, `EveryReviewSettles` | one process at a time, 2 crashes (the re-run of a node crashes as well), 2 answers, `MaxLag = 1` |
| `autopilot_crash` | `BuiltRowsAreTrue`, `FlagFollowsWork`, `CompletedMeansBuilt`, `OnlyGatedCodeIsCommitted`, `FailuresAreRetried` | 2 tasks, 3 runs with re-plans that reverse the order and rename a task, a token bound, builds of up to 3 attempts, and one fault: a crash, a refused commit, an undo or an error without reset (2,667,849 states) |
| `autopilot_parallel` | `AttemptsFollowDependencies`, `RunEnds` | 3 tasks, two of them siblings, in one lane or three, 2 runs, two of: a crash, a refused commit, an error without reset (496,658 states) |
| `change` | `OneRewritePerApproval`, `AmendmentFollowsItsBuild`, `NoUnratifiedFork`, `NumbersStay` | 2 specs, 2 criteria, one drafted change, one other feature, 2 runs, 2 requests, any two of approval, repair, undo, crash |
| `autonomy` | `MarksSurvive`, `RecordMatchesFinal`, `TrustIsEarned`, `ActionsStandOnRecord` | 2 policies (one expired tomorrow, one with another command), 2 days, 2 marks, and one of three mixtures (`EachInTurn`): two reviews, a crash and a command; one review with a crash, a recovery beside its live process, two policy edits and a command; two reviews with such a recovery (2,018,686 states) |
| `maintenance` | `OnlyApprovedIsInjected`, `DraftsAreEarned`, `EveryIncidentSettles` | 2 incidents of one class, threshold 2, history of 2, 2 file names, which may collide; three runs and a crash, so one incident is triaged twice, or two runs and a recovery beside a live one, or one run with both (`EachInTurn`, `TwoOfOne`: one incident may have two processes at once) (391,605 states) |
| `intake` | `AlertsBecomeIncidents`, `JobsAreTheLatest` | 2 keys, a listing thread, 3 processes, 4 requests, 2 listings, a crash; `MaxRows = 1`, so the third row pushes one out |
| `panel` | `VerdictMatchesReport`, `SitesSurviveFolding`, `EveryReviewIsDecided` | 3 voters, with tools or without, one retry, a budget of one; findings that agree in issue and differ in site, or in severity only |
| `studio` | `BuiltFromItsWords`, `ProposalsNeedAYes`, `FollowUpsAreBounded` | 2 tabs, 2 builds, 5 requests, one fault (a death, an exception, an edit, a restart); 2 questions on the form, 2 proposals, a conversation just begun, half way or over; a round is 2 answers for the code's 5, so the rounds run out (675,042 states) |
| `loops` | `RowsAreTheResults`, `FiresOnReadings`, `ResumesPayOnce`, `NewsIsSaid`, `SpendIsSpaced` | three parts. *bench*: 2 cases, 2 runs, 2 builds, 2 days, checkpoints valid for one; one fault (a race for the pid file, a full disk, a case that crashes, a kill, a copy by hand, an edited case): a run can be killed, upgraded under, resumed and cut short; 2 results below the floor fire. *alerts*: one bench of one case, 2 days, 3 tellers of whom one is not the scheduler's; a webhook that refuses, a teller that dies, a failed loop, a refused preflight, a crashed case. *spend*: one case, 2 runs, 2 builds, 3 starts, 4 days, spacing 3, backstop 4, a kill, a crashed case or a dead teller (1,632,416 states for the three) |

**Fairness.** Assumed only where the code's scheduling gives it. `WF` on a live
worker's loop and on time (`queue`); nobody must enqueue, restart or refrain
from crashing, so `EveryJobFinishes` has as premise that some worker without
`--max-jobs` is eventually up for good. `WF` on a live review process's nodes,
writes and exit and on `Recover` (`review_live`), which `avs serve` runs each
time it starts: a crash is read as one that takes the host's server with it; no
fairness for `Resume`, as a human may never answer, and `EveryReviewSettles`
counts waiting for a human as settled. The same two for incidents, by process and
by incident (`maintenance`). `WF(Step)` for a started autopilot run (`autopilot_parallel`):
one process that waits for nobody. `WF(Next)` for the panel, whose next state is
one process's next statement. No fairness on faults, humans or new work.

## 5. What the models found

Fifteen instances violate a sentence of the repository. They are not among the
runs of `PROJECT.json`, all of which pass; each `.cfg` checks one property (one row
takes a run's own `.cfg` and changes its last line) and TLC's trace is the
counterexample.

| config (module) | property | the repository says | what happens |
|---|---|---|---|
| `ReviewMirrorClash.cfg` (MCReviewGraph) | `AppendOnlyMirror` | "a second process continuing this review appends after the existing steps instead of overwriting them" (`mirror.py:18`) | `serve` recovers reviews on start while detached workers live on; both count the same files and write the same step |
| `AutopilotWedge.cfg` (MCAutopilotBuild) | `InterruptedTaskRestarts` | "a task interrupted halfway restarts that task" (`autopilot.py:460`) | a crash after `built: true` was written and before the row was: the next run's spec stage raises, as does every run after it that picks that title |
| `AutopilotLock.cfg` (MCAutopilotBuild) | `LockedPlanHolds` | "A locked plan is now the plan" (`autopilot.py:282`) | after `--replan`, the first failed build's `git checkout -- .` restores the discarded plan |
| `AutopilotResidue.cfg` (MCAutopilotBuild) | `FailedBuildsLeaveNothing` | "Earlier iterations already wrote into the shared workspace -- same residue rule as the failure returns" (`build.py:1314`) | the reset of the error returns asks `written`, which an attempt that returned no file has emptied: what the attempt before it wrote stays, and the next task's `git add -A` commits it |
| `AutonomyRescored.cfg` (MCAutonomy) | `DeploysStandOnPromote` | a deploy runs "only on a PROMOTE with every condition met" (`cli.py:3426`) | a server that starts recovers a review that is still running; it is scored twice, and the second final file, a hold, replaces the promotion that a deploy stood on |
| `AutonomyHumanPaths.cfg` (MCAutonomy) | `HumanPathsNeedAHuman` | "Paths whose change always demands a human, whatever the policy says" (`automation.py:51`) | `avs automerge` reads the changed files from `diff.changed_files` of the final file (`cli.py:3391`), which no review writes, so no path ever blocks; a deploy reviews deploy files only, so a chart passes |
| `PanelOverride.cfg` (MCPanel) | `EveryReviewIsDecided` | "switch to the spec's declared fallback ... or give up" (`base.py:145`) | the guard compares provider names; a fallback on the provider the voter already runs on is entered again for ever when that provider is not configured |
| `SpecChangeLost.cfg` (MCSpecChange) | `RatifiedStays` | "the only legal channel is an approved SCR" to change a built spec (`spec.py:436`) | an applied amendment is committed by nobody; the next failed build or repair checks it out (`correction.py:641`) and the built contract says again what the founder changed |
| `Studio.cfg` with `INVARIANT BuiltAsShown` only (MCStudio) | `BuiltAsShown` | "confirmed via --yes on the plain-language summary" (`autopilot.py:365`) | the confirm page of an earlier document is still there after a conversation replaced it; its button builds the new words, of which nobody saw a summary |
| `StudioBackup.cfg` (MCStudio) | `HandoffKeepsTheirWords` | "Someone with a hand-written FDR who clicks the conversation link to see what it does must not lose it" (`studio.py:2403`) | only the first document a conversation ever replaces is kept |
| `StudioPlans.cfg` (MCStudio) | `BuildsThePlanOfItsWords` | "Spec → build → review every task in the plan", of a `_build_plan` that is given the run's plan (`autopilot.py:446`) | it loads `plan.yaml` again (`autopilot.py:463`), as `approve_plan` does: of two builds started at once over an edit of `FDR.md` both build the plan that was saved last |
| `AutopilotWaves.cfg` (MCAutopilotBuild) | `WavesCoverThePlan` | an empty ready set is a "cycle -- dag_check blocks these upstream" (`autopilot.py:2259`) | a resumed `--parallel` run is given only the tasks still to build; one whose dependency is already built is never ready, is dropped, and the run reports completed |
| `BenchTwoReadings.cfg` (MCLoops) | `TwoReadings` | "Two runs, not one, because at n=4 real-product cases a single run is noise" (`bench_criterion.py:17`) | a resumed run's file holds the banked rows of the run before it and is a reading of its own for `_scan`; the two fire together on one measurement. The file counts its resumed rows, nothing reads that count, and the command line suggests `--resume` after a run that was cut short |
| `BenchSpacing.cfg` (MCLoops) | `SpendIsFullySpaced` | "Ten releases in a week do not buy ten benchmark runs" (`cadence.py:58`) | the stamp is UTC's date, the age is taken against the local one; east of Greenwich an early run looks a day older, and a changed build is benched a day before the spacing is over |
| `CadenceWatch.cfg` (MCLoops) | `SeriesIsWatched` | "the same exclusion the criterion applies, ASKED OF the criterion rather than re-derived here" (`cadence.py:426`) | what is asked is only whether it was truncated: an aborted run, or one that measured nothing, is no reading for the criterion and still turns the bench `ok` |

Seen while modelling, each the premise of a property or outside what one asserts:

- *Autopilot.* A crash in the middle of a build leaves ungated files; the next run
  counts them as there before its build, and a later `git add -A` commits them, as
  it does what a refused commit leaves (`OnlyGatedCodeIsCommitted` allows both for).
  An undo takes
  the last rows of `outcomes.yaml` with it; with two undos and a re-plan between
  them a row comes back whose work is gone, and the next run skips it. A failed
  build's checkout puts back the committed `outcomes.yaml`; the run writes its rows
  again afterwards, a crash in between loses them. A third plan that returns to an
  earlier title attempts built work again. The retry pass does not look at the
  token bound.
- *Changes.* Superseding a promise leaves its text, so the next sync makes it live
  again, where a test expects it to stay superseded
  (`tests/test_a_new_requirement_is_reconciled.py:138`). A checkout also takes
  ledger rows back, so after it a number can be given twice. An approved, unspent
  request outlives the change that failed. `/undo` and `/build` check for a
  running build and then spawn, in a pool of threads; `/reset` unlinks `build.pid`.
- *Recovery.* No recovery at a server's start looks for a live process: reviews,
  deployment reviews and incidents can all be run twice at once (`overlap`, `raced`,
  `keeps`).
- *Autonomy.* Two overlapping writers of the track record lose a mark. A merge or
  deploy happens before its log line; killed in between, it is not logged. A
  merge is decided on the reviewed diff while the pull request may have moved.
- *Maintenance.* An incident triaged a second time already has a final file: if
  that run dies, no recovery looks at it.
- *Intake.* The marker is written before the incident; the list loses a row to an
  overlapping listing.
- *Panel.* The semantic merge keeps the representative's site only
  (`NoSiteIsLost` fails), although the state's docstring speaks of every site.
  Exact duplicates keep the first severity, folding drops a hint, and a refused tool
  request costs no budget.
- *Studio.* The form on the handoff page and `use mine` send no base and overwrite
  a newer document nobody saw. A stale or doubled yes accepts the next proposal.
  After one answered follow-up about an existing document the chat begins the six
  form questions, and answering one of them replaces the document. "Two rounds is
  ten questions", but the loop stops at the sixth answer. A handoff does not
  release the plan's lock, so the build that follows is refused. `/reset` removes
  the build.pid of a live build.
- *Bench and cadence.* The scheduler starts a killed bench again without `--resume`
  and pays for all of it. There is one checkpoint per case, so a mock run, or one
  on another build, takes a real run's place. The scheduler's report compares the
  scheduler's build with itself: only a report by hand can say `behind`.
- *Queue.* A killed worker's `avs` subprocess lives on as an orphan.

## 6. What is proved, and how

All theorems hold for every value of the constants that satisfies the module's
`ASSUME`, so for any number of workers, processes, tasks, plans, specs, reviews
and crashes. Each proof module first proves type correctness, `Spec => []TypeOK`
(for a review `PanelTypeCorrect`, last of its invariant);
the type invariants are not checked by a run of their own. A property is rarely
inductive as it stands; the strengthening is the argument, and was checked with
TLC before it was proved.

**JobQueueProofs.** `HoldersOwn`, `AtMostOneHolder` and `ResultsAreFinal`, until the
host is first suspended, and `QueueImplementsWorkQueue`, suspensions included, from
`QueueAssumption` (`Timeout + Slack <= MaxAge`). `HolderOwnsRow` does not say that
a running row will not go stale. The invariant adds that *the age of a claim is
the time its worker has held it*, which `Tick` keeps at most `Timeout + Slack`:
`requeue_stale` spares the live (`RequeueSparesTheYoung`). It also adds that rows
above `last` are blank, so an enqueue overwrites nothing, and, suspended or not,
that a job in hand was once enqueued (`Known`). The refinement maps each step to a
`WorkQueue` step or a stutter.

**ReviewGraphProofs.** `EscalationsAreAttended`, `ApprovalsAreEarned`. What is
posted was once in a process, before that in a checkpoint, before that in another
process. The invariant `Sound(place, state)` says of a graph state what must hold
when it is about to enter `place` (at `post`: an escalation has a decision, an
approval is earned), and holds of every process's state, every result on its way
to disk, the stored checkpoint and everything posted. It does not mention who
else runs, so overlap costs nothing. `MirrorKeepsUp`, the checkpoint is never
ahead of the audit trail, is the same argument with another predicate: the nodes
that lie before a place, given what Gate 1 decided, have left their files
(`Backed`), and files are never taken away. `MirrorIsAppendOnly`, where no two
processes overlapped, and `SideEffectsHappenOnce`, where besides none crashed,
do depend on who runs: at most one process is at work (`Alone`), it counts from
the mirror's last step (`Numbered`), and no side effect that still lies before it
has happened yet (`Calm`). That the first premise is needed `ReviewMirrorClash.cfg`
shows.

**AutopilotProofs.** `FlagFollowsWorkAlways`, for all runs; `BuiltRowsAlwaysTrue`,
where nothing is undone; `CompletedAlwaysBuilt`, for sequential runs where nothing
is undone. Resets move documents between the three copies, so the invariant
speaks of all three: each has flags (`FInv`) and rows (`RInv`) that only
`head.work` bears out, and so has every tagged commit. Flags need one fact more,
`TreeAhead`: a spec built in the index is built in the tree, or an aborted merge
would take a flag back. For completion, `PlanCovered` says that each planned task
has a row or is still waiting in exactly the place `pc` implies. The premise
`ParallelFlags \subseteq {FALSE}` is needed: it is what `AutopilotWaves.cfg` violates.
`OnlyGatedCodeIsEverCommitted` says of the same three copies which *files* they
hold (`FilesSettled`): committed work, or what some build left behind; between two builds
all hold no more, a build adds its own, and each way out of its attempts either
resets to what the index holds or adds what stays to `left`. `FailuresAreAlwaysRetried`,
for sequential runs, undone or not, counts (`AInv`): at most one row per task in
every document, one task under way, and whoever waits has attempts left in this
pass. `AttemptsAlwaysFollowDependencies` holds in waves too (`DInv`): every task
handed out settles before a task that depends on it is handed out, and the plans
on disk are plans `dag_check` accepted. For a sequential run it rests on
`TopologicalOrder`: of an accepted plan, Kahn's rounds put each dependency before
its dependents, each task into one round, and cutting the order at `max_tasks`
cuts no dependency off its task. That is a fact about what a recursive function
computes; it is proved by the least round at which it could fail
(`NaturalsInduction` and `WellFoundedInduction`, without an operator argument).

**SpecChangeProofs.** `OnlyBuiltChangesAmend`, `BuiltIsRatified`,
`ApprovalsCoverRewrites`. Checkouts, resets, undos and commits only move contracts
between tree, HEAD and tags; the lemma `ContractsTravel` says so once for every
set of contracts (`OverAll`), and the first two theorems instantiate it: with the
contracts written by a landed change (`AmendInv`), and with those whose pinned text
is theirs (`ForkInv`, which adds that a spec on its way to the build is pinned).
The third is a ledger: rewrites, approved requests still unspent and the grant a
process has in hand never add up to more than the approvals (`GrantInv`); a crash
loses what is in hand, which only lowers the sum. `PromisesKeepTheirNumbers`: every
ledger anywhere, tags included, numbers a promise once (`NumInv`), and
`sync_ledger` keeps the old rows in their places and appends only promises that had
no number, so no step but an undo can change the number of a promise.

**AutonomyProofs**, for any number of processes at work on one review.
`RecordAgreesWithFinal`: every row, in the file or in a copy somebody has loaded,
has a verdict that some scoring of its review recommended (`RowsInv`), and so have
what a process has kept, the checkpoint another may go on from, and the final file
(`ScoredInv`); where all scorings agree these are one verdict. `MarksAreKept`: while
no writer overlapped another, the copy a writer holds is the file (`MarksInv`).
`ActionsStand`: what a command carries from its evaluation to its act still
stands, since a final file changes only where a scoring of its review kept something
else (`FinalStays`), and policies are what it read (`ActInv`).
`TrustMustBeEarned`: the streak that is counted on the file is one the human said
(`StreakIsDeserved`, from `MarksInv`).

**IntakePanelProofs**, two components that share nothing. Of `Intake`:
`FinishedIsGone` (every copy of `jobs.yaml`, stale or not, is
truthful, and the world only moves in the direction that keeps it so),
`JobListIsTheLatest` (while nothing raced, each copy in flight is the file),
`OneIncidentPerAlert`. Of `Panel`: `RoundTripsStayBounded`: the paid calls are the
sum of what each counter counted (`TurnInv`), for any roster, skills and budgets.
`SitesAlwaysSurvive` and `VerdictsMatchReports`, for any findings, are about what
the leader's passes over sequences compute. Those are recursive functions, so first
that they exist (`StepsExist`), by the least length at which one could be missing;
then, along the sequence (`UpTo`), what they keep: `PickedHas` (a selection loses
nothing it was asked for), `FoldedHas` (for every finding folded a row of its title
names its file, and unless a place was given two severities some row is as bad),
`BySeverityHas`. The leader's step then establishes both properties (`LeadReports`);
a merge keeps the verdict, and leaves a row as bad as each it takes away
(`MergeRows`, `MergeReports`).

**StudioProofs**, for any number of tabs and builds, any form, any size and number
of rounds, and whatever the model reads, proposes and asks. Type correctness here
says more than shapes (`Ready`, `RunReady`): a request that is about to read
`FDR.md` finds one, because nothing removes it, a run past discovery finds a brief, and one
about to lock or to load a plan finds a plan. `StudioBuildsItsWords` (`WordsKept`):
from the moment a run has written its brief until it plans from it, the brief on
disk is of its words; from the moment it has saved or found its plan until it loads
it, the plan on disk is for its words; and a plan names one document twice, on disk
and in hand, so that reusing it is as good as making it. `mixed` takes in a file by
exactly the step that breaks this for it, and what every other step leaves to the
runs it is not a step of is said once (`OthersFind`). `StudioProposalsNeedAYes` (`ProposalsAgreed`): the
property is about two files, but words also lie in the thread and in every open
page, from where a stale form, a handoff, an extension or `use mine` brings them
back later, so the invariant covers all of them; the lemmas say what each operation
on threads adds to the accepted answers (`AcceptedGrows`), that the extraction,
three flattened sequences, adds none (`ExtractedIsHarmless`), and where the words of
a composed document come from (`ComposedFrom`). `StudioFollowUpsAreBounded`
(`RoomForFollowUps`) counts, beside the answered follow-ups, the one that is open and
the requests that may still put one; a request gets that far only while a round is
left, and division that rounds up makes that room for one (`RoundLeft`).

**UnattendedProofs**, two components that share nothing. Of `Maintenance`:
`OnlyApprovedIsEverInjected` (`BlessInv`: an approved file's
body is blessed), `DraftsAreAlwaysEarned` (`DraftInv`: what a triage is about to
draft is already earned, and two of a class that both think so have raced),
`HistoryIsAlwaysComplete` (`HistoryInv`: an incident is written to a copy that does
not hold it, and one that is past that is in the history unless its length pushed
it out). All three hold for any number of processes per incident, live ones and
recoveries beside them.

Of `Cadence` and the bench, for `CadenceSpec`, whose behaviours include the bench's own.
The assumptions say that `None` is no row, run, result, note or teller, that there
is a first build, and that the drift backstop is no shorter than the spacing. A
first part reduces each step to what it may do to a run, a file and the bank
(`RunHistory`, `FileHistory`, `BankHistory`); the rest never looks at an action of
the bench again. `ResultsNameTheirRows`: the rows a run holds are of its own key
and young enough (`Honest`), because it takes from the bank only what it asks for;
a file is a run's rows, or a copy of a file. `CriterionReadsTheSuite` adds that a
row that was cut marks its run aborted. `ResumesDoNotPayTwice` (`KeptInv`): what was
bought is in the bank, or a younger row of its key is, or a row of another key was
bought for the case, which is the exception the property makes.
`BenchSpendIsSpaced` follows one launch through its life: no stamp is given twice
(`StampInv`); the run and the files of a launch are whole, real and dated with its
day or the day before, whoever else runs (`LaunchInv`), so they are watched; hence a
morning that saw one of them and finds the bench due counts the spacing less a day
from it (`WakeInv`). That the date of UTC is at most a day off the local one is part
of the type invariant, for every `Zone`.
`NewsIsNeverDelayed` (`SaidInv`): the notes in the log, and those in each stale copy
of it that a teller is about to write back, are notes of deliveries made, and a
teller past its delivery has made it.

**Model-checked only.** Liveness (`EveryJobFinishes`, `EveryReviewSettles`,
`RunEnds`, `EveryIncidentSettles`, `EveryReviewIsDecided`), since the prover does
not do fairness and `ENABLED`. `BuiltRowsAreTrue`
after one undo: after a second it may be false, where `git reset --hard` leaves an
outcomes.yaml that git does not track; the theorem takes none, the run one. `TwoReadings`
and `SeriesIsWatched` are violated (section 5).

## 7. Not modelled

Section 2 lists whole components. Inside the modelled ones:

- *Autopilot:* `avs retry-task`, the scope fingerprint, worktrees and merges left
  behind by a crash in a lane, two runs on one workspace, a repair whose commit is
  refused (it stays staged and the next task's `git add -A` takes it).
- *Changes:* `--replace` (superseding a promise), the constitution, waivers of
  the drift gate, what a model drafts. A run plans at most one task per spec.
- *Autonomy:* the pull request moving between review and merge; external readers.
- *Maintenance:* the fix request (`fixpr.py`).
- *Intake:* signatures, CI logs, tenants, review deduplication by the forge.
- *Panel:* prompts, prices, the taint guard's decision (a choice), the fixture gate's
  scores.
- *Studio:* the key page, `/retry`, the live, try and incident pages; the provisioning
  between the approved brief and the plan. *Command line:* parsing and printing.
- *Bench and cadence:* `--axis increment`, the clean-review rate, a compounding
  window that is empty, the installation of the LaunchAgent.

The components without a module are of four kinds. Stateless text in, text out
(analyzers, linters, rendering, policies, lanes, prompts): unit tests
reach them better than a model. Arithmetic over floats (evidence, experiments,
prices): TLC has none. Adapters to other programs (providers, forge, sandbox,
MCP): wherever they are used, what they answer is a nondeterministic choice. One
process with a human gate per step and no second writer (product loop, adoption,
marketing, learning loop): nothing interleaves, and a crash leaves the last file;
the stage engine and the MCP transport would come next.

## 8. Plan

1. *Repair loop in detail:* a refused repair commit and what the next task's
   commit takes along; worktrees left by a crash in a lane.
2. *Studio over AutopilotBuild:* undo, reset and stop under a running build, two
   runs on one workspace.
3. *MCP transport:* a late answer to an earlier request. *Stage engine:* no stage
   without its gate.
4. *Proofs:* every safety property the runs check has its theorem; each step of
   this plan brings its own.

## 9. Running it

```
tlc -workers 2 -config JobQueue.cfg MCJobQueue.tla         # one run; see PROJECT.json
tlc -workers 2 -config SpecChangeLost.cfg MCSpecChange.tla # one of section 5's table
tlapm SpecChangeProofs.tla                                 # one proof module
```

Every proof module takes a few minutes at most.

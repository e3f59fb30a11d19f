------------------------------ MODULE ProductBench ------------------------------
(***************************************************************************)
(* The product bench (product_bench.py) and the kill criterion that reads  *)
(* its results (bench_criterion.py).  A run asks the autopilot for one     *)
(* product per case, hours and money each, banks every case it measured    *)
(* as a checkpoint, and writes one result file.  Runs are processes: they  *)
(* are killed, they overlap when the pid file lets them, and `--resume`    *)
(* reads what earlier ones banked.                                         *)
(***************************************************************************)
EXTENDS Integers, Sequences, FiniteSets, SequencesExt

CONSTANTS
  Cases,       \* the suite: how many cases, build axis
  Scores,      \* what a case may score: it works, its probes fail, it built nothing
  Reals, Resumes, \* whether a run may ask a real provider, and reuse checkpoints
  Picks,       \* the cases --limit and --only may leave to be asked
  Runs, NoRun, \* processes; no bench.pid
  None,        \* no checkpoint, no process
  Sames,       \* _REPEAT_ABORT_THRESHOLD
  KeepDays,    \* _CHECKPOINT_MAX_AGE_DAYS
  BuildFloor, ProbeFloor,  \* in percent
  ToFire,      \* CONSECUTIVE_RUNS_TO_FIRE
  Faults,      \* what may go wrong
  Zone,        \* where midnight falls: before UTC's, after it, or with it
  MaxDay, MaxBuild, MaxStarts, MaxFaults

Suite == 1 .. Cases

Keys == [build : 1 .. MaxBuild, suite : Nat, real : BOOLEAN]
Dates == 0 .. MaxDay + 1   \* of UTC, which may be a day ahead

Rows == [kind : {"measured"}, score : Scores, on : Dates, by : 1 .. MaxStarts, key : Keys]
        \cup [kind : {"unasked", "cut", "crashed"}]
Processes ==
  [at : {"lock", "cases", "save"}, who : {"operator", "scheduler"}, key : Keys,
   picks : SUBSET Suite, resume : BOOLEAN, stamp : 1 .. MaxStarts, since : Dates,
   rows : Seq(Rows), recent : Seq({"account", "same", "own"} \X Nat), aborted : BOOLEAN]
Results ==
  [stamp : 1 .. MaxStarts, who : {"operator", "scheduler"}, on : Dates, key : Keys,
   rows : Seq(Rows), aborted : BOOLEAN, sliced : BOOLEAN, tracked : BOOLEAN]

ASSUME BenchAssumption ==
  /\ None \notin Rows /\ None \notin Processes /\ None \notin Results
  /\ Cases \in Nat \ {0} /\ Picks \subseteq SUBSET Suite
  /\ Scores \subseteq {"works", "broken", "nothing"} /\ NoRun \notin Runs
  /\ Reals \subseteq BOOLEAN /\ Resumes \subseteq BOOLEAN
  /\ Zone \in {"east", "west", "utc"}
  /\ {Sames, KeepDays, ToFire, MaxBuild} \subseteq Nat \ {0}
  /\ {MaxDay, MaxStarts, MaxFaults} \subseteq Nat
  /\ {BuildFloor, ProbeFloor} \subseteq 0 .. 100

VARIABLES
  day,      \* the local date
  utc,      \* the date in UTC, which stamps results and checkpoints
  build,    \* the avs build each of them runs: the operator, the scheduler
  suite,    \* the revision of the case files
  bank,     \* checkpoints: the row of a case and the key it was measured under
  lock,     \* bench.pid
  run,      \* what each process does
  files,    \* result files: in .mas/, and whether in the tracked directory too
  starts, faults,
  \* What happened, never read to decide anything:
  bought    \* every measurement that was ever banked

vars == <<day, utc, build, suite, bank, lock, run, files, starts, faults, bought>>

\* case_key, apart from the name
Key(build_, suite_, real) == [build |-> build_, suite |-> suite_, real |-> real]

\* A row a run measured on a day under its key, or one that says why it was not.
Measured(score, r) ==
  [kind |-> "measured", score |-> score, key |-> run[r].key, on |-> utc, by |-> run[r].stamp]
Unmeasured(kind) == [kind |-> kind]

\* What an exception says: the account is dead, what the last one said, or
\* something of this case's own.
Signature(i) == {<<"account", 0>>, <<"same", 0>>, <<"own", i>>}

Alive(r) == r \in Runs /\ run[r] # None

\* Checkpoints, results and runs keep their shapes, and the two dates are a day
\* apart at most.
TypeOK ==
  /\ day \in 0 .. MaxDay /\ utc \in Dates /\ utc \in day - 1 .. day + 1
  /\ build \in [{"operator", "scheduler"} -> 1 .. MaxBuild]
  /\ suite \in Nat /\ starts \in 0 .. MaxStarts /\ faults \in 0 .. MaxFaults
  /\ bank \in [Suite -> Rows \cup {None}] /\ bought \subseteq [case : Suite, row : Rows]
  /\ lock \in Runs \cup {NoRun} /\ files \subseteq Results
  /\ run \in [Runs -> Processes \cup {None}]
  /\ \A r \in Runs : Alive(r) => Len(run[r].rows) <= Cases

Init ==
  /\ day = 0 /\ utc = 0 /\ build = [w \in {"operator", "scheduler"} |-> 1] /\ suite = 0
  /\ bank = [i \in Suite |-> None] /\ lock = NoRun
  /\ run = [r \in Runs |-> None] /\ files = {}
  /\ starts = 0 /\ faults = 0 /\ bought = {}

-----------------------------------------------------------------------------
(* One run.                                                                *)

Fault(what) == what \in Faults /\ faults < MaxFaults /\ faults' = faults + 1
Set(r, fields) == run' = [run EXCEPT ![r] = [f \in DOMAIN @ |->
                           IF f \in DOMAIN fields THEN fields[f] ELSE @[f]]]

\* acquire_bench_lock refuses beside a live run; a pid file whose process is
\* gone is taken over.
Refused(r) == lock \notin {NoRun, r} /\ Alive(lock)

\* `picks` are the cases --limit or --only leaves to be asked.
Starts(r, who, real, picks, resume) ==
  /\ ~ Alive(r)
  /\ ~ Refused(r)
  /\ starts < MaxStarts /\ starts' = starts + 1
  /\ run' = [run EXCEPT ![r] =
       [at |-> "lock", who |-> who, key |-> Key(build[who], suite, real), picks |-> picks,
        resume |-> resume, stamp |-> starts', since |-> utc, rows |-> <<>>, recent |-> <<>>,
        aborted |-> FALSE]]
  /\ IF \E s \in Runs : Alive(s) /\ run[s].at = "lock"
     THEN Fault("race") ELSE UNCHANGED faults
  /\ UNCHANGED <<day, utc, build, suite, bank, lock, files, bought>>

OperatorStarts(r) ==
  \E real \in Reals, resume \in Resumes, picks \in Picks :
    Starts(r, "operator", real, picks, resume)

TakeLock(r) ==
  /\ Alive(r) /\ run[r].at = "lock"
  /\ lock' = r
  /\ Set(r, [at |-> "cases"])
  /\ UNCHANGED <<day, utc, build, suite, bank, files, starts, faults, bought>>

\* The whole days since a checkpoint: the dates do not tell the hour of either.
Ages(row) == {utc - row.on, utc - row.on - 1} \cap Nat

\* Mutated: the key is the case alone.
BankedAnyBuild(r, i) == bank[i] # None /\ \E age \in Ages(bank[i]) : age < KeepDays

\* read_checkpoint: it is of this key, and young enough.
Banked(r, i) ==
  bank[i] # None /\ bank[i].key = run[r].key /\ \E age \in Ages(bank[i]) : age < KeepDays

\* There is none, or it is not, or it may be a day too old by now.
Unbanked(r, i) ==
  bank[i] # None /\ bank[i].key = run[r].key => \E age \in Ages(bank[i]) : age >= KeepDays

Now(r) == Len(run[r].rows) + 1
InCases(r) == Alive(r) /\ run[r].at = "cases" /\ Now(r) <= Cases
Asks(r) == Now(r) \in run[r].picks /\ ~ run[r].aborted
WithRow(r, row) == Append(run[r].rows, row)

\* A case that is not run: nobody asked, the run was cut short, or it is banked.
SkipCase(r) ==
  /\ InCases(r)
  /\ \/ /\ ~ Asks(r)
        /\ Set(r, [rows |-> WithRow(r, Unmeasured(IF Now(r) \in run[r].picks
                                                   THEN "cut" ELSE "unasked"))])
     \/ /\ Asks(r) /\ run[r].resume /\ Banked(r, Now(r))
        /\ Set(r, [rows |-> WithRow(r, bank[Now(r)])])
  /\ UNCHANGED <<day, utc, build, suite, bank, lock, files, starts, faults, bought>>

RunsCase(r) == InCases(r) /\ Asks(r) /\ (run[r].resume => Unbanked(r, Now(r)))

\* Mutated: the cases are banked when the run has ended.
BankAtTheEnd(r, row) ==
  /\ bank' = IF Now(r) = Cases THEN [bank EXCEPT ![Now(r)] = row] ELSE bank
  /\ bought' = bought \cup {[case |-> Now(r), row |-> row]}

\* write_checkpoint, before the next case starts: one file per case, by name.
Bank(r, row) ==
  /\ bank' = [bank EXCEPT ![Now(r)] = row]
  /\ bought' = bought \cup {[case |-> Now(r), row |-> row]}

\* A bank that fails does not lose the run.
MeasureCase(r) ==
  /\ RunsCase(r)
  /\ \E score \in Scores : LET row == Measured(score, r) IN
       /\ Set(r, [rows |-> WithRow(r, row), recent |-> <<>>])
       /\ \/ Bank(r, row) /\ UNCHANGED faults
          \/ Fault("disk") /\ UNCHANGED <<bank, bought>>
  /\ UNCHANGED <<day, utc, build, suite, lock, files, starts>>

\* environment_failure, or the last few died alike
Hopeless(recent) ==
  \/ Last(recent)[1] = "account"
  \/ Len(recent) >= Sames
     /\ \A i \in Len(recent) - Sames + 1 .. Len(recent) : recent[i] = Last(recent)

CaseCrashes(r) ==
  /\ RunsCase(r)
  /\ Fault("case")
  /\ \E said \in Signature(Now(r)) :
       LET recent == Append(run[r].recent, said) IN
       Set(r, [rows |-> WithRow(r, Unmeasured("crashed")), recent |-> recent,
               aborted |-> Hopeless(recent)])
  /\ UNCHANGED <<day, utc, build, suite, bank, lock, files, starts, bought>>

\* release_bench_lock leaves another's pid file alone.
ReleaseLock(r) ==
  /\ Alive(r) /\ run[r].at = "cases" /\ Now(r) > Cases
  /\ lock' = IF lock = r THEN NoRun ELSE lock
  /\ Set(r, [at |-> "save"])
  /\ UNCHANGED <<day, utc, build, suite, bank, files, starts, faults, bought>>

Truncated(rows) == \E i \in DOMAIN rows : rows[i].kind = "unasked"

\* save_summary: into .mas/, and into the tracked directory when it is a reading
\* of the suite on a real provider.
Save(r) ==
  /\ Alive(r) /\ run[r].at = "save"
  /\ files' = files \cup {[stamp |-> run[r].stamp, who |-> run[r].who, on |-> run[r].since, key |-> run[r].key,
                           rows |-> run[r].rows, aborted |-> run[r].aborted,
                           sliced |-> Truncated(run[r].rows),
                           tracked |-> run[r].key.real /\ ~ Truncated(run[r].rows)]}
  /\ run' = [run EXCEPT ![r] = None]
  /\ UNCHANGED <<day, utc, build, suite, bank, lock, starts, faults, bought>>

-----------------------------------------------------------------------------
(* The world.                                                              *)

Dies(r) ==
  /\ Alive(r)
  /\ Fault("kill")
  /\ run' = [run EXCEPT ![r] = None]
  /\ UNCHANGED <<day, utc, build, suite, bank, lock, files, starts, bought>>

\* A result is copied into the tracked directory by hand.
CopyByHand ==
  /\ Fault("copy")
  /\ \E f \in files : files' = (files \ {f}) \cup {[f EXCEPT !.tracked = TRUE]}
  /\ UNCHANGED <<day, utc, build, suite, bank, lock, run, starts, bought>>

EditCases ==
  /\ Fault("edit")
  /\ suite' = suite + 1
  /\ UNCHANGED <<day, utc, build, bank, lock, run, files, starts, bought>>

\* A release reaches the operator; the scheduler's install is upgraded by hand.
Release ==
  /\ build["operator"] < MaxBuild
  /\ build' = [build EXCEPT !["operator"] = @ + 1]
  /\ UNCHANGED <<day, utc, suite, bank, lock, run, files, starts, faults, bought>>

\* Midnight where the operator and the scheduler are.
Tick ==
  /\ day < MaxDay
  /\ CASE Zone = "utc"  -> utc' = day + 1
       [] Zone = "east" -> day = utc /\ UNCHANGED utc
       [] Zone = "west" -> day < utc /\ UNCHANGED utc
  /\ day' = day + 1
  /\ UNCHANGED <<build, suite, bank, lock, run, files, starts, faults, bought>>

\* Midnight of UTC, on the same local date.
UtcTick ==
  /\ IF Zone = "east" THEN utc < day ELSE Zone = "west" /\ utc = day
  /\ utc' = utc + 1
  /\ UNCHANGED <<day, build, suite, bank, lock, run, files, starts, faults, bought>>

BenchStep(r) ==
  \/ TakeLock(r) \/ SkipCase(r) \/ MeasureCase(r) \/ CaseCrashes(r)
  \/ ReleaseLock(r) \/ Save(r) \/ Dies(r)

Next ==
  \/ \E r \in Runs : OperatorStarts(r) \/ BenchStep(r)
  \/ CopyByHand \/ EditCases \/ Release \/ Tick \/ UtcTick

Spec == Init /\ [][Next]_vars

-----------------------------------------------------------------------------
(* The kill criterion.                                                     *)

Answered(f) == {i \in DOMAIN f.rows : f.rows[i].kind = "measured"}
Probed(f) == {i \in Answered(f) : f.rows[i].score # "nothing"}
Built(f) == Probed(f)
Passed(f) == {i \in Probed(f) : f.rows[i].score = "works"}

\* A rate over no cases is no rate.
Under(some, all, floor) == all # {} /\ Cardinality(some) * 100 < floor * Cardinality(all)

BelowFloor(f) ==
  Under(Built(f), Answered(f), BuildFloor) \/ Under(Passed(f), Probed(f), ProbeFloor)

\* Mutated: a result is a result.
CountsAnyway(f) == f.tracked /\ Answered(f) # {}

\* _scan: which of the tracked results are readings of the suite.
Counts(f) == f.tracked /\ ~ f.aborted /\ f.key.real /\ ~ f.sliced /\ Answered(f) # {}

Series == {f \in files : Counts(f)}

\* How many readings in a row, up to the newest, are below a floor.
Firing == {f \in Series : \A g \in Series : g.stamp >= f.stamp => BelowFloor(g)}
Streak == Cardinality(Firing)

Fires == Streak >= ToFire

-----------------------------------------------------------------------------
(* Properties.                                                             *)

\* Every number in a result was measured on the build, the provider and the case
\* file the result names, not earlier than a resume may reach back, however many
\* runs, kills and builds shared the checkpoints ("what a resume may NOT do is
\* quietly mix builds").
RowsAreTheResults ==
  \A f \in files : \A i \in Answered(f) :
    f.rows[i].key = f.key /\ f.on - f.rows[i].on <= KeepDays

\* The criterion fires only on runs that asked the real system the whole suite
\* and were not cut short, whichever files stand in the directory: each case of
\* both was built and probed, or failed for a reason of its own.
FiresOnReadings ==
  Fires => \A f \in Firing :
      /\ f.key.real
      /\ \A i \in DOMAIN f.rows : f.rows[i].kind \in {"measured", "crashed"}
      /\ Cardinality({i \in DOMAIN f.rows : f.rows[i].kind = "measured"}) > 0

\* The criterion fires on readings taken apart: no measurement stands in two of
\* the results that fire it ("Two runs, not one, because at n=4 real-product
\* cases a single run is noise").
TwoReadings ==
  Fires => \A f, g \in Firing : f # g =>
    \A i \in Answered(f) \cap Answered(g) : f.rows[i] # g.rows[i]

\* A case that was measured and banked is not paid for again by a resume on the
\* same build, case file and provider while the checkpoint is young, whatever
\* killed the run in between; unless another key's row took its file.
ResumePaysOnce ==
  [][\A r \in Runs :
       RunsCase(r) /\ run[r].resume /\ run'[r] # None /\ run'[r].rows # run[r].rows
       => \A b \in bought :
            /\ b.case = Now(r) /\ b.row.key = run[r].key /\ utc - b.row.on < KeepDays
            => \E c \in bought : c.case = b.case /\ c.row.key # b.row.key]_vars

=============================================================================

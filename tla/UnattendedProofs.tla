-------------------------- MODULE UnattendedProofs --------------------------
(***************************************************************************)
(* What TLAPS proves of the two parts that work with nobody watching: the  *)
(* daily scheduler over the product bench, and incident maintenance.  They *)
(* share nothing.                                                          *)
(*                                                                         *)
(* Of the first, for any suite, number of runs, releases, kills and days.  *)
(* The theorems are about CadenceSpec, whose behaviours include the        *)
(* bench's own: a scheduler that is never woken leaves the bench to its    *)
(* operator.                                                               *)
(*                                                                         *)
(* Of the second, for any number of incidents, classes, skill names, runs  *)
(* and crashes, and any recurrence threshold.  The skill files and the     *)
(* history are shared and written without a lock; what holds of them       *)
(* whoever overlaps is proved without a premise, what needs the writers    *)
(* apart says so (raced).                                                  *)
(***************************************************************************)
EXTENDS Maintenance, Cadence, TLAPS, FiniteSetTheorems, SequenceTheorems

Who == {"operator", "scheduler"}
Kinds == {"cadence", "bench"}
Say == [kind : Kinds, alert : SUBSET Facts, at : 0 .. MaxDay]

-----------------------------------------------------------------------------
(* What a step of the whole may do to the bench: one of the bench's own    *)
(* moves, a run the scheduler starts, an upgrade, or a fault elsewhere.    *)

things == <<day, utc, build, suite, bank, lock, run, files, starts, bought>>

Elsewhere == UNCHANGED things /\ (faults' = faults \/ (faults < MaxFaults /\ faults' = faults + 1))

BenchMoves ==
  \/ \E r \in Runs, who \in Who, real \in BOOLEAN, picks \in SUBSET Suite, resume \in BOOLEAN :
       Starts(r, who, real, picks, resume)
  \/ \E r \in Runs : BenchStep(r)
  \/ CopyByHand \/ EditCases \/ Release \/ Tick \/ UtcTick \/ Upgrade
  \/ Elsewhere

LEMMA StepsAreMoves == [CadenceNext]_allVars => BenchMoves
<1> SUFFICES ASSUME [CadenceNext]_allVars PROVE BenchMoves
  OBVIOUS
<1>1. CASE Next
  <2>1. ASSUME NEW r \in Runs, OperatorStarts(r) PROVE BenchMoves
    BY <2>1, BenchAssumption DEF OperatorStarts, BenchMoves, Who
  <2> QED
    BY <1>1, <2>1 DEF Next, BenchMoves
<1>2. CASE RunBench
  BY <1>2 DEF RunBench, BenchMoves, Elsewhere, things, vars, Who
<1>3. CASE BenchTimesOut
  BY <1>3 DEF BenchTimesOut, BenchMoves, BenchStep, MyBench
<1>4. CASE RunWeekly \/ BenchRefused \/ \E t \in Tellers : Deliver(t) \/ TellerDies(t)
  BY <1>4 DEF RunWeekly, BenchRefused, Deliver, TellerDies, BenchMoves, Elsewhere, things, Fault
<1>5. CASE Wakes \/ BenchReturns \/ OperatorReports \/ BenchPosts
           \/ \E t \in Tellers : Report(t) \/ LoadSent(t) \/ SaveSent(t)
  BY <1>5 DEF Wakes, BenchReturns, OperatorReports, BenchPosts, Report, LoadSent, SaveSent,
              BenchMoves, Elsewhere, things, vars
<1>6. CASE UNCHANGED allVars
  BY <1>6 DEF allVars, BenchMoves, Elsewhere, things
<1> QED
  BY <1>1, <1>2, <1>3, <1>4, <1>5, <1>6 DEF CadenceNext, BenchMoves

-----------------------------------------------------------------------------
(* Types.                                                                  *)

\* What Set makes of a process, and the fields no step of a run changes.
Upd(p, fields) == [f \in DOMAIN p |-> IF f \in DOMAIN fields THEN fields[f] ELSE p[f]]
Fixed(p) == <<p.who, p.key, p.picks, p.resume, p.stamp, p.since>>
Sayings == Seq({"account", "same", "own"} \X Nat)

LEMMA UpdAt ==
  ASSUME NEW p \in Processes, NEW a \in {"lock", "cases", "save"}
  PROVE  LET q == Upd(p, [at |-> a])
         IN  /\ q \in Processes /\ Fixed(q) = Fixed(p) /\ q.at = a
             /\ q.rows = p.rows /\ q.aborted = p.aborted
BY DEF Processes, Upd, Fixed

LEMMA UpdRows ==
  ASSUME NEW p \in Processes, NEW rows \in Seq(Rows)
  PROVE  LET q == Upd(p, [rows |-> rows])
         IN  /\ q \in Processes /\ Fixed(q) = Fixed(p) /\ q.at = p.at
             /\ q.rows = rows /\ q.aborted = p.aborted
BY DEF Processes, Upd, Fixed

LEMMA UpdMeasured ==
  ASSUME NEW p \in Processes, NEW rows \in Seq(Rows)
  PROVE  LET q == Upd(p, [rows |-> rows, recent |-> <<>>])
         IN  /\ q \in Processes /\ Fixed(q) = Fixed(p) /\ q.at = p.at
             /\ q.rows = rows /\ q.aborted = p.aborted
<1> DEFINE none == <<>>
           q == Upd(p, [rows |-> rows, recent |-> none])
<1>1. none \in Sayings
  BY DEF Sayings
<1> HIDE DEF none
<1>2. /\ q \in Processes /\ Fixed(q) = Fixed(p) /\ q.at = p.at
      /\ q.rows = rows /\ q.aborted = p.aborted
  BY <1>1 DEF Processes, Upd, Fixed, Sayings
<1> QED
  BY <1>2 DEF none

LEMMA UpdCrashed ==
  ASSUME NEW p \in Processes, NEW rows \in Seq(Rows), NEW recent \in Sayings, NEW stop \in BOOLEAN
  PROVE  LET q == Upd(p, [rows |-> rows, recent |-> recent, aborted |-> stop])
         IN  /\ q \in Processes /\ Fixed(q) = Fixed(p) /\ q.at = p.at
             /\ q.rows = rows /\ q.aborted = stop
BY DEF Processes, Upd, Fixed, Sayings

LEMMA RowTypes ==
  ASSUME TypeOK, NEW r, Alive(r), NEW score \in Scores, NEW kind \in {"unasked", "cut", "crashed"}
  PROVE  Measured(score, r) \in Rows /\ Unmeasured(kind) \in Rows
<1>1. run[r] \in Processes /\ utc \in Dates
  BY DEF TypeOK, Alive
<1> QED
  BY <1>1 DEF Measured, Unmeasured, Rows, Processes

LEMMA WithRowType ==
  ASSUME TypeOK, NEW r, Alive(r), InCases(r), NEW row \in Rows
  PROVE  /\ WithRow(r, row) \in Seq(Rows) /\ Len(WithRow(r, row)) = Len(run[r].rows) + 1
         /\ Len(WithRow(r, row)) <= Cases
         /\ \A i \in DOMAIN WithRow(r, row) :
              \/ i \in DOMAIN run[r].rows /\ WithRow(r, row)[i] = run[r].rows[i]
              \/ i = Now(r) /\ WithRow(r, row)[i] = row
<1>1. run[r].rows \in Seq(Rows)
  BY DEF TypeOK, Alive, Processes
<1>2. Len(run[r].rows) + 1 <= Cases /\ Len(run[r].rows) \in Nat /\ Cases \in Nat
  BY <1>1, BenchAssumption DEF InCases, Now
<1> QED
  BY <1>1, <1>2 DEF WithRow, Now

LEMMA NowInSuite ==
  ASSUME TypeOK, NEW r, InCases(r)
  PROVE  Alive(r) /\ Now(r) \in Suite /\ run[r] \in Processes /\ r \in Runs
<1>1. run[r] \in Processes /\ run[r].rows \in Seq(Rows) /\ r \in Runs /\ Alive(r)
  BY DEF TypeOK, InCases, Alive, Processes
<1> QED
  BY <1>1, BenchAssumption DEF InCases, Now, Suite

\* A process that is put in place of another.
LEMMA RunTyped ==
  ASSUME TypeOK, NEW r \in Runs, NEW p \in Processes \cup {None},
         run' = [run EXCEPT ![r] = p], p # None => Len(p.rows) <= Cases
  PROVE  /\ run' \in [Runs -> Processes \cup {None}]
         /\ \A s \in Runs : run'[s] # None => Len(run'[s].rows) <= Cases
BY DEF TypeOK, Alive

LEMMA StepTyped ==
  ASSUME TypeOK, NEW r \in Runs, BenchStep(r) PROVE TypeOK'
<1> USE BenchAssumption
<1>0. /\ run \in [Runs -> Processes \cup {None}] /\ bank \in [Suite -> Rows \cup {None}]
      /\ bought \subseteq [case : Suite, row : Rows] /\ files \subseteq Results
      /\ faults \in 0 .. MaxFaults
  BY DEF TypeOK
<1>1. CASE TakeLock(r)
  <2>1. run[r] \in Processes /\ Len(run[r].rows) <= Cases
    BY <1>0, <1>1 DEF TakeLock, Alive, TypeOK
  <2> DEFINE p == Upd(run[r], [at |-> "cases"])
  <2>2. p \in Processes /\ p.rows = run[r].rows
    BY <2>1, UpdAt
  <2>3. run' = [run EXCEPT ![r] = p]
    BY <1>1 DEF TakeLock, Set, Upd
  <2> HIDE DEF p
  <2> QED
    BY <1>1, <2>1, <2>2, <2>3, RunTyped DEF TakeLock, TypeOK, Alive
<1>2. ASSUME NEW row \in Rows, InCases(r), Set(r, [rows |-> WithRow(r, row)])
      PROVE  /\ run' \in [Runs -> Processes \cup {None}]
             /\ \A s \in Runs : run'[s] # None => Len(run'[s].rows) <= Cases
  <2>1. run[r] \in Processes /\ Alive(r)
    BY <1>2, NowInSuite
  <2> DEFINE q == WithRow(r, row)
             p == Upd(run[r], [rows |-> q])
  <2>2. q \in Seq(Rows) /\ Len(q) <= Cases
    BY <1>2, <2>1, WithRowType
  <2>3. run' = [run EXCEPT ![r] = p]
    BY <1>2 DEF Set, Upd
  <2> HIDE DEF q
  <2>4. p \in Processes /\ p.rows = q
    BY <2>1, <2>2, UpdRows
  <2> HIDE DEF p
  <2> QED
    BY <2>2, <2>3, <2>4, RunTyped
<1>3. CASE SkipCase(r)
  <2>1. InCases(r) /\ Now(r) \in Suite /\ Alive(r)
    BY <1>3, NowInSuite DEF SkipCase
  <2>2. \E row \in Rows : Set(r, [rows |-> WithRow(r, row)])
    <3>1. CASE Set(r, [rows |-> WithRow(r, Unmeasured(IF Now(r) \in run[r].picks
                                                        THEN "cut" ELSE "unasked"))])
      <4>1. Unmeasured(IF Now(r) \in run[r].picks THEN "cut" ELSE "unasked") \in Rows
        BY DEF Unmeasured, Rows
      <4> QED
        BY <3>1, <4>1
    <3>2. CASE Banked(r, Now(r)) /\ Set(r, [rows |-> WithRow(r, bank[Now(r)])])
      <4>1. bank[Now(r)] \in Rows
        BY <1>0, <2>1, <3>2 DEF Banked
      <4> QED
        BY <3>2, <4>1
    <3> QED
      BY <1>3, <3>1, <3>2 DEF SkipCase
  <2> QED
    BY <1>2, <1>3, <2>1, <2>2 DEF SkipCase, TypeOK, Alive
<1>4. CASE MeasureCase(r)
  <2>1. InCases(r) /\ Now(r) \in Suite /\ Alive(r) /\ run[r] \in Processes
    BY <1>4, NowInSuite DEF MeasureCase, RunsCase
  <2>2. PICK score \in Scores :
          /\ Set(r, [rows |-> WithRow(r, Measured(score, r)), recent |-> <<>>])
          /\ \/ Bank(r, Measured(score, r)) /\ UNCHANGED faults
             \/ Fault("disk") /\ UNCHANGED <<bank, bought>>
    BY <1>4 DEF MeasureCase
  <2> DEFINE row == Measured(score, r)
             q == WithRow(r, row)
             p == Upd(run[r], [rows |-> q, recent |-> <<>>])
  <2>3. row \in Rows
    BY <2>1, RowTypes
  <2> HIDE DEF row
  <2>4. q \in Seq(Rows) /\ Len(q) <= Cases
    BY <2>1, <2>3, WithRowType
  <2>5. run' = [run EXCEPT ![r] = p]
    BY <2>2 DEF Set, Upd, row
  <2>6. /\ bank' \in [Suite -> Rows \cup {None}] /\ bought' \subseteq [case : Suite, row : Rows]
        /\ faults' \in 0 .. MaxFaults
    BY <1>0, <2>1, <2>2, <2>3 DEF Bank, Fault, row
  <2> HIDE DEF q
  <2>7. p \in Processes /\ p.rows = q
    BY <2>1, <2>4, UpdMeasured
  <2> HIDE DEF p
  <2>8. /\ run' \in [Runs -> Processes \cup {None}]
        /\ \A s \in Runs : run'[s] # None => Len(run'[s].rows) <= Cases
    BY <2>4, <2>5, <2>7, RunTyped
  <2> QED
    BY <1>4, <2>6, <2>8 DEF MeasureCase, TypeOK, Alive
<1>5. CASE CaseCrashes(r)
  <2>1. InCases(r) /\ Now(r) \in Suite /\ Alive(r) /\ run[r] \in Processes
    BY <1>5, NowInSuite DEF CaseCrashes, RunsCase
  <2>2. PICK said_ \in Signature(Now(r)) :
          LET recent == Append(run[r].recent, said_) IN
          Set(r, [rows |-> WithRow(r, Unmeasured("crashed")), recent |-> recent,
                  aborted |-> Hopeless(recent)])
    BY <1>5 DEF CaseCrashes
  <2> DEFINE row == Unmeasured("crashed")
             q == WithRow(r, row)
             recent == Append(run[r].recent, said_)
             stop == Hopeless(recent)
             p == Upd(run[r], [rows |-> q, recent |-> recent, aborted |-> stop])
  <2>3. row \in Rows
    BY DEF Unmeasured, Rows
  <2>4. q \in Seq(Rows) /\ Len(q) <= Cases
    <3> HIDE DEF row
    <3> QED
      BY <2>1, <2>3, WithRowType
  <2>5. recent \in Sayings
    <3>1. said_ \in {"account", "same", "own"} \X Nat
      BY <2>1 DEF Signature, Suite
    <3> QED
      BY <2>1, <3>1 DEF Processes, Sayings
  <2>6. run' = [run EXCEPT ![r] = p]
    BY <2>2 DEF Set, Upd
  <2>7. stop \in BOOLEAN
    BY DEF Hopeless
  <2> HIDE DEF q, recent, stop
  <2>8. p \in Processes /\ p.rows = q
    BY <2>1, <2>4, <2>5, <2>7, UpdCrashed
  <2> HIDE DEF p
  <2>9. /\ run' \in [Runs -> Processes \cup {None}]
        /\ \A s \in Runs : run'[s] # None => Len(run'[s].rows) <= Cases
    BY <2>4, <2>6, <2>8, RunTyped
  <2> QED
    BY <1>5, <2>9 DEF CaseCrashes, TypeOK, Alive, Fault
<1>6. CASE ReleaseLock(r)
  <2>1. run[r] \in Processes /\ Len(run[r].rows) <= Cases
    BY <1>0, <1>6 DEF ReleaseLock, Alive, TypeOK
  <2> DEFINE p == Upd(run[r], [at |-> "save"])
  <2>2. p \in Processes /\ p.rows = run[r].rows
    BY <2>1, UpdAt
  <2>3. run' = [run EXCEPT ![r] = p]
    BY <1>6 DEF ReleaseLock, Set, Upd
  <2> HIDE DEF p
  <2> QED
    BY <1>6, <2>1, <2>2, <2>3, RunTyped DEF ReleaseLock, TypeOK, Alive
<1>7. CASE Save(r)
  <2>1. run[r] \in Processes
    BY <1>0, <1>7 DEF Save, Alive
  <2>2. [stamp |-> run[r].stamp, who |-> run[r].who, on |-> run[r].since, key |-> run[r].key,
         rows |-> run[r].rows, aborted |-> run[r].aborted, sliced |-> Truncated(run[r].rows),
         tracked |-> run[r].key.real /\ ~ Truncated(run[r].rows)] \in Results
    BY <2>1 DEF Processes, Results, Truncated
  <2>3. run' = [run EXCEPT ![r] = None] /\ files' \subseteq Results
    BY <1>0, <1>7, <2>2 DEF Save
  <2> QED
    BY <1>7, <2>3 DEF Save, TypeOK, Alive
<1>8. CASE Dies(r)
  BY <1>8 DEF Dies, Fault, TypeOK, Alive
<1> QED
  BY <1>1, <1>3, <1>4, <1>5, <1>6, <1>7, <1>8 DEF BenchStep

LEMMA StartTyped ==
  ASSUME TypeOK, NEW r \in Runs, NEW who \in Who, NEW real \in BOOLEAN,
         NEW picks \in SUBSET Suite, NEW resume \in BOOLEAN, Starts(r, who, real, picks, resume)
  PROVE  TypeOK'
<1> USE BenchAssumption
<1> DEFINE p == [at |-> "lock", who |-> who, key |-> Key(build[who], suite, real),
                 picks |-> picks, resume |-> resume, stamp |-> starts', since |-> utc,
                 rows |-> <<>>, recent |-> <<>>, aborted |-> FALSE]
<1>1. Key(build[who], suite, real) \in Keys
  BY DEF TypeOK, Key, Keys, Who
<1>2. starts' \in 1 .. MaxStarts /\ utc \in Dates
  BY DEF TypeOK, Starts
<1>3. p \in Processes /\ p.rows = <<>>
  BY <1>1, <1>2 DEF Processes, Who
<1>4. run' = [run EXCEPT ![r] = p]
  BY DEF Starts
<1> HIDE DEF p
<1>5. Len(p.rows) <= Cases
  BY <1>3
<1>6. /\ run' \in [Runs -> Processes \cup {None}]
      /\ \A s \in Runs : run'[s] # None => Len(run'[s].rows) <= Cases
  BY <1>3, <1>4, <1>5, RunTyped
<1> QED
  BY <1>2, <1>6 DEF Starts, TypeOK, Alive, Fault

LEMMA CopyOf ==
  ASSUME NEW f \in Results
  PROVE  LET g == [f EXCEPT !.tracked = TRUE]
         IN  /\ g \in Results /\ g.stamp = f.stamp /\ g.on = f.on /\ g.key = f.key
             /\ g.rows = f.rows /\ g.aborted = f.aborted /\ g.sliced = f.sliced
BY DEF Results

\* The local date moves on, and the other stays within a day of it.
LEMMA TickMoves ==
  ASSUME Tick, day \in 0 .. MaxDay, utc \in Dates, utc \in day - 1 .. day + 1
  PROVE  /\ day' \in 0 .. MaxDay /\ utc' \in Dates /\ utc' \in day' - 1 .. day' + 1
         /\ day' = day + 1 /\ utc <= utc'
<1>1. MaxDay \in Nat /\ day \in Nat /\ utc \in Nat /\ day < MaxDay /\ day' = day + 1
  BY BenchAssumption DEF Tick, Dates
<1>2. utc' = day + 1 \/ (utc' = utc /\ (day = utc \/ day < utc))
  BY BenchAssumption DEF Tick
<1>3. day - 1 <= utc /\ utc <= day + 1 /\ utc <= MaxDay + 1
  BY <1>1 DEF Dates
<1> QED
  BY <1>1, <1>2, <1>3 DEF Dates

LEMMA MoveTyped == TypeOK /\ BenchMoves => TypeOK'
<1> SUFFICES ASSUME TypeOK, BenchMoves PROVE TypeOK'
  OBVIOUS
<1> USE BenchAssumption
<1>0. /\ run \in [Runs -> Processes \cup {None}] /\ bank \in [Suite -> Rows \cup {None}]
      /\ bought \subseteq [case : Suite, row : Rows] /\ files \subseteq Results
      /\ lock \in Runs \cup {NoRun}
      /\ \A r \in Runs : run[r] # None => Len(run[r].rows) <= Cases
  BY DEF TypeOK, Alive
<1>1. /\ day \in 0 .. MaxDay /\ utc \in Dates /\ utc \in day - 1 .. day + 1 /\ build \in [Who -> 1 .. MaxBuild] /\ suite \in Nat
      /\ starts \in 0 .. MaxStarts /\ faults \in 0 .. MaxFaults
  BY DEF TypeOK, Who
<1>2. ASSUME /\ day' \in 0 .. MaxDay /\ utc' \in Dates /\ utc' \in day' - 1 .. day' + 1
             /\ build' \in [Who -> 1 .. MaxBuild] /\ suite' \in Nat
             /\ faults' \in 0 .. MaxFaults /\ files' \subseteq Results
             /\ UNCHANGED <<bank, lock, run, starts, bought>>
      PROVE  TypeOK'
  BY <1>0, <1>1, <1>2 DEF TypeOK, Alive, Who
<1>3. CASE CopyByHand
  <2>1. PICK f \in files : files' = (files \ {f}) \cup {[f EXCEPT !.tracked = TRUE]}
    BY <1>3 DEF CopyByHand
  <2>2. [f EXCEPT !.tracked = TRUE] \in Results
    BY <1>0, CopyOf
  <2>3. files' \subseteq Results
    BY <1>0, <2>1, <2>2
  <2> QED
    BY <1>1, <1>2, <1>3, <2>3 DEF CopyByHand, Fault
<1>4. CASE EditCases
  BY <1>0, <1>1, <1>2, <1>4 DEF EditCases, Fault
<1>5. CASE Release
  BY <1>0, <1>1, <1>2, <1>5 DEF Release, Who
<1>6. CASE Tick
  <2>1. day' \in 0 .. MaxDay /\ utc' \in Dates /\ utc' \in day' - 1 .. day' + 1
    BY <1>1, <1>6, TickMoves
  <2> QED
    BY <1>0, <1>1, <1>2, <1>6, <2>1 DEF Tick
<1>7. CASE Upgrade
  BY <1>0, <1>1, <1>2, <1>7 DEF Upgrade, Who
<1>8. CASE Elsewhere
  BY <1>0, <1>1, <1>2, <1>8 DEF Elsewhere, things
<1>9. CASE UtcTick
  <2>1. utc' \in Dates /\ utc' \in day - 1 .. day + 1
    BY <1>1, <1>9 DEF UtcTick, Dates
  <2> QED
    BY <1>0, <1>1, <1>2, <1>9, <2>1 DEF UtcTick
<1> QED
  BY <1>3, <1>4, <1>5, <1>6, <1>7, <1>8, <1>9, StepTyped, StartTyped DEF BenchMoves

LEMMA AlwaysBenchTyped == CadenceSpec => []TypeOK
<1>1. CadenceInit => TypeOK
  <2> SUFFICES ASSUME CadenceInit PROVE TypeOK
    OBVIOUS
  <2>1. Init
    BY DEF CadenceInit
  <2> QED
    BY <2>1, BenchAssumption DEF Init, TypeOK, Alive, Dates
<1> QED
  BY <1>1, StepsAreMoves, MoveTyped, PTL DEF CadenceSpec

-----------------------------------------------------------------------------
(* Where processes, results and checkpoints come from, step by step.       *)

\* The rows a run may add to those it has, and whether it is cut short.
NewRow(s, row, stop) ==
  \/ row.kind = "unasked" /\ Now(s) \notin run[s].picks /\ stop = run[s].aborted
  \/ row.kind = "cut" /\ run[s].aborted /\ stop = run[s].aborted
  \/ Banked(s, Now(s)) /\ row = bank[Now(s)] /\ stop = run[s].aborted
  \/ /\ row.kind = "measured" /\ row.key = run[s].key /\ row.on = utc
     /\ stop = run[s].aborted
  \/ row.kind = "crashed" /\ ~ run[s].aborted

Adds(s, q) ==
  /\ InCases(s) /\ q \in Processes /\ Fixed(q) = Fixed(run[s])
  /\ \E row \in Rows : q.rows = WithRow(s, row) /\ NewRow(s, row, q.aborted)

LEMMA SkipAdds ==
  ASSUME TypeOK, NEW r \in Runs, SkipCase(r)
  PROVE  Adds(r, run'[r]) /\ \A s \in Runs : s # r => run'[s] = run[s]
<1>1. InCases(r) /\ Now(r) \in Suite /\ Alive(r) /\ run[r] \in Processes
  BY NowInSuite DEF SkipCase
<1>2. ASSUME NEW row \in Rows, Set(r, [rows |-> WithRow(r, row)]), NewRow(r, row, run[r].aborted)
      PROVE  Adds(r, run'[r]) /\ \A s \in Runs : s # r => run'[s] = run[s]
  <2> DEFINE q == WithRow(r, row)
             p == Upd(run[r], [rows |-> q])
  <2>1. run' = [run EXCEPT ![r] = p]
    BY <1>2 DEF Set, Upd
  <2>2. q \in Seq(Rows)
    BY <1>1, WithRowType
  <2> HIDE DEF q
  <2>3. p \in Processes /\ Fixed(p) = Fixed(run[r]) /\ p.rows = q /\ p.aborted = run[r].aborted
    BY <1>1, <2>2, UpdRows
  <2>4. run'[r] = p /\ \A s \in Runs : s # r => run'[s] = run[s]
    BY <2>1 DEF TypeOK
  <2> HIDE DEF p
  <2> QED
    BY <1>1, <1>2, <2>3, <2>4 DEF Adds, q
<1>3. CASE /\ ~ Asks(r)
           /\ Set(r, [rows |-> WithRow(r, Unmeasured(IF Now(r) \in run[r].picks
                                                       THEN "cut" ELSE "unasked"))])
  <2> DEFINE row == Unmeasured(IF Now(r) \in run[r].picks THEN "cut" ELSE "unasked")
  <2>1. row \in Rows
    BY DEF Unmeasured, Rows
  <2>2. NewRow(r, row, run[r].aborted)
    BY <1>3 DEF NewRow, Unmeasured, Asks
  <2> HIDE DEF row
  <2>3. Set(r, [rows |-> WithRow(r, row)])
    BY <1>3 DEF row
  <2> QED
    BY <1>2, <2>1, <2>2, <2>3
<1>4. CASE Banked(r, Now(r)) /\ Set(r, [rows |-> WithRow(r, bank[Now(r)])])
  <2>1. bank[Now(r)] \in Rows
    BY <1>1, <1>4 DEF Banked, TypeOK
  <2> QED
    BY <1>2, <1>4, <2>1 DEF NewRow
<1> QED
  BY <1>3, <1>4 DEF SkipCase

LEMMA MeasureAdds ==
  ASSUME TypeOK, NEW r \in Runs, MeasureCase(r)
  PROVE  /\ Adds(r, run'[r]) /\ \A s \in Runs : s # r => run'[s] = run[s]
         /\ \E row \in Rows : /\ row.kind = "measured" /\ row.on = utc
                              /\ Bank(r, row) \/ UNCHANGED <<bank, bought>>
<1>1. InCases(r) /\ Now(r) \in Suite /\ Alive(r) /\ run[r] \in Processes
  BY NowInSuite DEF MeasureCase, RunsCase
<1>2. PICK score \in Scores :
        /\ Set(r, [rows |-> WithRow(r, Measured(score, r)), recent |-> <<>>])
        /\ \/ Bank(r, Measured(score, r)) /\ UNCHANGED faults
           \/ Fault("disk") /\ UNCHANGED <<bank, bought>>
  BY DEF MeasureCase
<1> DEFINE row == Measured(score, r)
           q == WithRow(r, row)
           p == Upd(run[r], [rows |-> q, recent |-> <<>>])
<1>3. row \in Rows /\ row.kind = "measured" /\ row.key = run[r].key /\ row.on = utc
  BY <1>1, RowTypes DEF Measured
<1>4. run' = [run EXCEPT ![r] = p]
  BY <1>2 DEF Set, Upd
<1>5. Bank(r, row) \/ UNCHANGED <<bank, bought>>
  BY <1>2
<1> HIDE DEF row
<1>6. q \in Seq(Rows)
  BY <1>1, <1>3, WithRowType
<1> HIDE DEF q
<1>7. p \in Processes /\ Fixed(p) = Fixed(run[r]) /\ p.rows = q /\ p.aborted = run[r].aborted
  BY <1>1, <1>6, UpdMeasured
<1>8. run'[r] = p /\ \A s \in Runs : s # r => run'[s] = run[s]
  BY <1>4 DEF TypeOK
<1> HIDE DEF p
<1>9. Adds(r, run'[r])
  BY <1>1, <1>3, <1>7, <1>8 DEF Adds, NewRow, q
<1> QED
  BY <1>3, <1>5, <1>8, <1>9

LEMMA CrashAdds ==
  ASSUME TypeOK, NEW r \in Runs, CaseCrashes(r)
  PROVE  Adds(r, run'[r]) /\ \A s \in Runs : s # r => run'[s] = run[s]
<1>1. InCases(r) /\ Now(r) \in Suite /\ Alive(r) /\ run[r] \in Processes /\ ~ run[r].aborted
  BY NowInSuite DEF CaseCrashes, RunsCase, Asks
<1>2. PICK said_ \in Signature(Now(r)) :
        LET recent == Append(run[r].recent, said_) IN
        Set(r, [rows |-> WithRow(r, Unmeasured("crashed")), recent |-> recent,
                aborted |-> Hopeless(recent)])
  BY DEF CaseCrashes
<1> DEFINE row == Unmeasured("crashed")
           q == WithRow(r, row)
           recent == Append(run[r].recent, said_)
           stop == Hopeless(recent)
           p == Upd(run[r], [rows |-> q, recent |-> recent, aborted |-> stop])
<1>3. row \in Rows /\ row.kind = "crashed"
  BY DEF Unmeasured, Rows
<1>4. recent \in Sayings
  <2>1. said_ \in {"account", "same", "own"} \X Nat
    BY <1>1 DEF Signature, Suite
  <2> QED
    BY <1>1, <2>1 DEF Processes, Sayings
<1>5. run' = [run EXCEPT ![r] = p]
  BY <1>2 DEF Set, Upd
<1>6. stop \in BOOLEAN
  BY DEF Hopeless
<1> HIDE DEF row, recent, stop
<1>7. q \in Seq(Rows)
  BY <1>1, <1>3, WithRowType
<1> HIDE DEF q
<1>8. p \in Processes /\ Fixed(p) = Fixed(run[r]) /\ p.rows = q
  BY <1>1, <1>4, <1>6, <1>7, UpdCrashed
<1>9. run'[r] = p /\ \A s \in Runs : s # r => run'[s] = run[s]
  BY <1>5 DEF TypeOK
<1> HIDE DEF p
<1> QED
  BY <1>1, <1>3, <1>8, <1>9 DEF Adds, NewRow, q

\* A process just started.
Fresh(q) ==
  /\ q \in Processes /\ q.rows = <<>> /\ ~ q.aborted
  /\ q.stamp = starts + 1 /\ q.since = utc

\* A process that moved on without a row.
Moved(p, q) ==
  q \in Processes /\ Fixed(q) = Fixed(p) /\ q.rows = p.rows /\ q.aborted = p.aborted

LEMMA AtMoves ==
  ASSUME TypeOK, NEW r \in Runs, Alive(r), NEW a \in {"lock", "cases", "save"}, Set(r, [at |-> a])
  PROVE  Moved(run[r], run'[r]) /\ \A s \in Runs : s # r => run'[s] = run[s]
<1> DEFINE p == Upd(run[r], [at |-> a])
<1>1. run' = [run EXCEPT ![r] = p]
  BY DEF Set, Upd
<1>2. run[r] \in Processes
  BY DEF TypeOK, Alive
<1>3. p \in Processes /\ Fixed(p) = Fixed(run[r]) /\ p.rows = run[r].rows
      /\ p.aborted = run[r].aborted
  BY <1>2, UpdAt
<1> HIDE DEF p
<1> QED
  BY <1>1, <1>3 DEF TypeOK, Moved

LEMMA StartIsFresh ==
  ASSUME TypeOK, NEW r \in Runs, NEW who \in Who, NEW real \in BOOLEAN,
         NEW picks \in SUBSET Suite, NEW resume \in BOOLEAN, Starts(r, who, real, picks, resume)
  PROVE  /\ Fresh(run'[r]) /\ \A s \in Runs : s # r => run'[s] = run[s]
         /\ run'[r].key.real = real /\ run'[r].picks = picks
<1> USE BenchAssumption
<1> DEFINE p == [at |-> "lock", who |-> who, key |-> Key(build[who], suite, real),
                 picks |-> picks, resume |-> resume, stamp |-> starts', since |-> utc,
                 rows |-> <<>>, recent |-> <<>>, aborted |-> FALSE]
<1>1. Key(build[who], suite, real) \in Keys /\ Key(build[who], suite, real).real = real
  BY DEF TypeOK, Key, Keys, Who
<1>2. starts' \in 1 .. MaxStarts /\ utc \in Dates /\ starts' = starts + 1
  BY DEF TypeOK, Starts
<1>3. p \in Processes
  BY <1>1, <1>2 DEF Processes, Who
<1>4. run' = [run EXCEPT ![r] = p]
  BY DEF Starts
<1>5. Fresh(p) /\ p.key.real = real /\ p.picks = picks
  BY <1>1, <1>2, <1>3 DEF Fresh
<1> HIDE DEF p
<1> QED
  BY <1>4, <1>5 DEF TypeOK

LEMMA RunHistory ==
  ASSUME TypeOK, BenchMoves, NEW s \in Runs, run'[s] # None
  PROVE  \/ Fresh(run'[s]) /\ starts' = starts + 1
         \/ run[s] # None /\ Moved(run[s], run'[s])
         \/ run[s] # None /\ Adds(s, run'[s])
<1>0. run \in [Runs -> Processes \cup {None}]
  BY DEF TypeOK
<1>1. run'[s] = run[s] => run[s] # None /\ Moved(run[s], run'[s])
  BY <1>0 DEF Moved
<1>2. ASSUME NEW r \in Runs, BenchStep(r)
      PROVE  run'[s] = run[s] \/ (run[s] # None /\ (Moved(run[s], run'[s]) \/ Adds(s, run'[s])))
  <2>1. CASE TakeLock(r)
    BY <2>1, AtMoves DEF TakeLock, Alive
  <2>2. CASE ReleaseLock(r)
    BY <2>2, AtMoves DEF ReleaseLock, Alive
  <2>3. CASE SkipCase(r)
    BY <2>3, SkipAdds DEF SkipCase, InCases, Alive
  <2>4. CASE MeasureCase(r)
    BY <2>4, MeasureAdds DEF MeasureCase, RunsCase, InCases, Alive
  <2>5. CASE CaseCrashes(r)
    BY <2>5, CrashAdds DEF CaseCrashes, RunsCase, InCases, Alive
  <2>6. CASE Save(r) \/ Dies(r)
    BY <1>0, <2>6 DEF Save, Dies
  <2> QED
    BY <1>2, <2>1, <2>2, <2>3, <2>4, <2>5, <2>6 DEF BenchStep
<1>3. ASSUME NEW r \in Runs, NEW who \in Who, NEW real \in BOOLEAN,
             NEW picks \in SUBSET Suite, NEW resume \in BOOLEAN,
             Starts(r, who, real, picks, resume)
      PROVE  run'[s] = run[s] \/ (Fresh(run'[s]) /\ starts' = starts + 1)
  BY <1>3, StartIsFresh DEF Starts
<1>4. CASE CopyByHand \/ EditCases \/ Release \/ Tick \/ UtcTick \/ Upgrade \/ Elsewhere
  BY <1>1, <1>4 DEF CopyByHand, EditCases, Release, Tick, UtcTick, Upgrade, Elsewhere, things
<1> QED
  BY <1>1, <1>2, <1>3, <1>4 DEF BenchMoves

\* A result is one that was there, or what a run that is through says of itself.
Reports(f, p) ==
  /\ f.stamp = p.stamp /\ f.on = p.since /\ f.key = p.key /\ f.rows = p.rows
  /\ f.aborted = p.aborted /\ f.sliced = Truncated(p.rows)

SameReading(f, g) ==
  /\ f.stamp = g.stamp /\ f.on = g.on /\ f.key = g.key /\ f.rows = g.rows
  /\ f.aborted = g.aborted /\ f.sliced = g.sliced

LEMMA FileHistory ==
  ASSUME TypeOK, BenchMoves, NEW f \in files'
  PROVE  \/ \E g \in files : SameReading(f, g)
         \/ \E r \in Runs : run[r] # None /\ Reports(f, run[r])
<1>1. f \in files => SameReading(f, f)
  BY DEF SameReading
<1>2. ASSUME NEW r \in Runs, Save(r) PROVE f \in files \/ (run[r] # None /\ Reports(f, run[r]))
  BY <1>2 DEF Save, Alive, Reports
<1>3. CASE CopyByHand
  <2>1. PICK g \in files : files' = (files \ {g}) \cup {[g EXCEPT !.tracked = TRUE]}
    BY <1>3 DEF CopyByHand
  <2>2. SameReading([g EXCEPT !.tracked = TRUE], g)
    BY CopyOf DEF TypeOK, SameReading
  <2> QED
    BY <1>1, <2>1, <2>2
<1>4. ASSUME NEW r \in Runs, BenchStep(r), ~ Save(r) PROVE files' = files
  BY <1>4 DEF BenchStep, TakeLock, SkipCase, MeasureCase, CaseCrashes, ReleaseLock, Dies
<1>5. ASSUME NEW r \in Runs, NEW who \in Who, NEW real \in BOOLEAN,
             NEW picks \in SUBSET Suite, NEW resume \in BOOLEAN,
             Starts(r, who, real, picks, resume)
      PROVE  files' = files
  BY <1>5 DEF Starts
<1>6. CASE EditCases \/ Release \/ Tick \/ UtcTick \/ Upgrade \/ Elsewhere
  BY <1>1, <1>6 DEF EditCases, Release, Tick, UtcTick, Upgrade, Elsewhere, things
<1> QED
  BY <1>1, <1>2, <1>3, <1>4, <1>5, <1>6 DEF BenchMoves

\* What is banked is banked for the case, over what was there, and is of the day.
LEMMA BankHistory ==
  ASSUME TypeOK, BenchMoves
  PROVE  \/ UNCHANGED <<bank, bought>>
         \/ \E i \in Suite, row \in Rows :
              /\ row.kind = "measured" /\ row.on = utc
              /\ bank' = [bank EXCEPT ![i] = row]
              /\ bought' = bought \cup {[case |-> i, row |-> row]}
<1>1. ASSUME NEW r \in Runs, MeasureCase(r)
      PROVE  \/ UNCHANGED <<bank, bought>>
             \/ \E i \in Suite, row \in Rows :
                  /\ row.kind = "measured" /\ row.on = utc
                  /\ bank' = [bank EXCEPT ![i] = row]
                  /\ bought' = bought \cup {[case |-> i, row |-> row]}
  <2>1. Now(r) \in Suite
    BY <1>1, NowInSuite DEF MeasureCase, RunsCase
  <2> QED
    BY <1>1, <2>1, MeasureAdds DEF Bank
<1>2. ASSUME NEW r \in Runs, BenchStep(r), ~ MeasureCase(r) PROVE UNCHANGED <<bank, bought>>
  BY <1>2 DEF BenchStep, TakeLock, SkipCase, Save, CaseCrashes, ReleaseLock, Dies
<1>3. ASSUME NEW r \in Runs, NEW who \in Who, NEW real \in BOOLEAN,
             NEW picks \in SUBSET Suite, NEW resume \in BOOLEAN,
             Starts(r, who, real, picks, resume)
      PROVE  UNCHANGED <<bank, bought>>
  BY <1>3 DEF Starts
<1>4. CASE CopyByHand \/ EditCases \/ Release \/ Tick \/ UtcTick \/ Upgrade \/ Elsewhere
  BY <1>4 DEF CopyByHand, EditCases, Release, Tick, UtcTick, Upgrade, Elsewhere, things
<1> QED
  BY <1>1, <1>2, <1>3, <1>4 DEF BenchMoves

LEMMA TimeGoesOn ==
  ASSUME TypeOK, BenchMoves
  PROVE  /\ day \in Nat /\ day' \in Nat /\ day <= day'
         /\ utc \in Nat /\ utc' \in Nat /\ utc <= utc'
         /\ starts \in Nat /\ starts' \in Nat /\ starts <= starts'
<1>0. day \in Nat /\ starts \in Nat /\ utc \in Nat /\ utc \in day - 1 .. day + 1
  BY BenchAssumption DEF TypeOK, Dates
<1>1. ASSUME NEW r \in Runs, BenchStep(r) PROVE UNCHANGED <<day, utc, starts>>
  BY <1>1 DEF BenchStep, TakeLock, SkipCase, MeasureCase, Save, CaseCrashes, ReleaseLock, Dies
<1>2. ASSUME NEW r \in Runs, NEW who \in Who, NEW real \in BOOLEAN,
             NEW picks \in SUBSET Suite, NEW resume \in BOOLEAN,
             Starts(r, who, real, picks, resume)
      PROVE  day' = day /\ utc' = utc /\ starts' = starts + 1
  BY <1>2 DEF Starts
<1>3. CASE CopyByHand \/ EditCases \/ Release \/ Upgrade \/ Elsewhere
  BY <1>0, <1>3 DEF CopyByHand, EditCases, Release, Upgrade, Elsewhere, things
<1>4. CASE Tick \/ UtcTick
  <2>1. UNCHANGED starts
    BY <1>4 DEF Tick, UtcTick
  <2>2. CASE Tick
    BY <1>0, <2>1, <2>2, TickMoves DEF TypeOK
  <2>3. CASE UtcTick
    BY <1>0, <2>1, <2>3 DEF UtcTick
  <2> QED
    BY <1>4, <2>2, <2>3
<1> QED
  BY <1>0, <1>1, <1>2, <1>3, <1>4 DEF BenchMoves

-----------------------------------------------------------------------------
(* Rows.  A measured row is of its run's key and not older than a resume   *)
(* may reach back; a run with a case cut out of it was aborted; what is    *)
(* banked was measured, on a day that has been.                            *)

Honest(rows, key, on, aborted) ==
  /\ \A i \in DOMAIN rows : rows[i].kind = "measured" =>
       rows[i].key = key /\ on - rows[i].on <= KeepDays
  /\ \A i \in DOMAIN rows : rows[i].kind = "cut" => aborted

BankInv ==
  /\ \A i \in Suite : bank[i] # None => bank[i].kind = "measured" /\ bank[i].on <= utc
  /\ \A b \in bought : b.row.kind = "measured" /\ b.row.on <= utc

RowsInv ==
  /\ \A r \in Runs : run[r] # None =>
       /\ run[r].since <= utc
       /\ Honest(run[r].rows, run[r].key, run[r].since, run[r].aborted)
  /\ \A f \in files : /\ Honest(f.rows, f.key, f.on, f.aborted)
                       /\ f.sliced = Truncated(f.rows)

LEMMA MeasuredOn == \A row \in Rows : row.kind = "measured" => row.on \in Nat /\ row.key \in Keys
BY BenchAssumption DEF Rows, Dates

LEMMA BankMoves == TypeOK /\ BankInv /\ BenchMoves => BankInv'
<1> SUFFICES ASSUME TypeOK, BankInv, BenchMoves PROVE BankInv'
  OBVIOUS
<1>0. /\ bank \in [Suite -> Rows \cup {None}] /\ bought \subseteq [case : Suite, row : Rows]
      /\ utc \in Nat /\ utc' \in Nat /\ utc <= utc'
  BY TimeGoesOn DEF TypeOK
<1>1. \A i \in Suite : bank[i] # None => bank[i].on \in Nat
  BY <1>0, MeasuredOn DEF BankInv
<1>2. \A b \in bought : b.row.on \in Nat
  BY <1>0, MeasuredOn DEF BankInv
<1>3. CASE UNCHANGED <<bank, bought>>
  BY <1>0, <1>1, <1>2, <1>3 DEF BankInv
<1>4. ASSUME NEW i \in Suite, NEW row \in Rows, row.kind = "measured", row.on = utc,
             bank' = [bank EXCEPT ![i] = row],
             bought' = bought \cup {[case |-> i, row |-> row]}
      PROVE  BankInv'
  <2>1. ASSUME NEW j \in Suite, bank'[j] # None
        PROVE  bank'[j].kind = "measured" /\ bank'[j].on <= utc'
    <3>1. bank'[j] = row \/ bank'[j] = bank[j]
      BY <1>0, <1>4
    <3> QED
      BY <1>0, <1>1, <1>4, <2>1, <3>1 DEF BankInv
  <2>2. ASSUME NEW b \in bought' PROVE b.row.kind = "measured" /\ b.row.on <= utc'
    <3>1. b \in bought \/ b.row = row
      BY <1>4, <2>2
    <3> QED
      BY <1>0, <1>2, <1>4, <3>1 DEF BankInv
  <2> QED
    BY <2>1, <2>2 DEF BankInv
<1> QED
  BY <1>3, <1>4, BankHistory

\* The row a run adds is honest about the run.
LEMMA RowIsHonest ==
  ASSUME TypeOK, BankInv, RowsInv, NEW s \in Runs, run[s] # None, NEW q, Adds(s, q)
  PROVE  Honest(q.rows, q.key, q.since, q.aborted)
<1>1. /\ InCases(s) /\ Alive(s) /\ Now(s) \in Suite /\ run[s] \in Processes
      /\ q \in Processes /\ q.key = run[s].key /\ q.since = run[s].since
      /\ run[s].since <= utc
      /\ Honest(run[s].rows, run[s].key, run[s].since, run[s].aborted)
  BY NowInSuite DEF Adds, Fixed, RowsInv
<1>2. PICK row \in Rows : q.rows = WithRow(s, row) /\ NewRow(s, row, q.aborted)
  BY DEF Adds
<1>3. run[s].since \in Nat /\ utc \in Nat /\ KeepDays \in Nat \ {0}
  BY <1>1, BenchAssumption DEF TypeOK, Processes, Dates
<1>4. row.kind = "measured" => row.key = q.key /\ q.since - row.on <= KeepDays
  <2>1. CASE Banked(s, Now(s)) /\ row = bank[Now(s)]
    <3>1. row.key = run[s].key /\ row.on \in Nat
      BY <1>1, <2>1, MeasuredOn DEF Banked, BankInv
    <3>2. utc - row.on <= KeepDays
      BY <1>3, <2>1, <3>1 DEF Banked, Ages
    <3> QED
      BY <1>1, <1>3, <3>1, <3>2
  <2>2. CASE row.key = run[s].key /\ row.on = utc
    BY <1>1, <1>3, <2>2
  <2> QED
    BY <1>2, <2>1, <2>2 DEF NewRow
<1>5. (row.kind = "cut" => q.aborted) /\ (run[s].aborted => q.aborted)
  <2>1. CASE Banked(s, Now(s)) /\ row = bank[Now(s)] /\ q.aborted = run[s].aborted
    BY <1>1, <2>1 DEF Banked, BankInv
  <2> QED
    BY <1>2, <2>1 DEF NewRow
<1>6. \A i \in DOMAIN q.rows :
        (i \in DOMAIN run[s].rows /\ q.rows[i] = run[s].rows[i]) \/ q.rows[i] = row
  BY <1>1, <1>2, WithRowType
<1> QED
  BY <1>1, <1>4, <1>5, <1>6 DEF Honest

LEMMA RowsMove == TypeOK /\ BankInv /\ RowsInv /\ BenchMoves => RowsInv'
<1> SUFFICES ASSUME TypeOK, BankInv, RowsInv, BenchMoves PROVE RowsInv'
  OBVIOUS
<1>0. utc \in Nat /\ utc' \in Nat /\ utc <= utc'
  BY TimeGoesOn
<1>1. ASSUME NEW s \in Runs, run'[s] # None
      PROVE  /\ run'[s].since <= utc'
             /\ Honest(run'[s].rows, run'[s].key, run'[s].since, run'[s].aborted)
  <2>1. CASE Fresh(run'[s])
    BY <1>0, <2>1 DEF Fresh, Honest
  <2>2. CASE run[s] # None /\ Moved(run[s], run'[s])
    <3>1. run[s].since \in Nat
      BY BenchAssumption, <2>2 DEF TypeOK, Processes, Dates
    <3> QED
      BY <1>0, <2>2, <3>1 DEF Moved, Fixed, RowsInv
  <2>3. CASE run[s] # None /\ Adds(s, run'[s])
    <3>1. run[s].since \in Nat /\ run'[s].since = run[s].since
      BY BenchAssumption, <2>3 DEF TypeOK, Processes, Dates, Adds, Fixed
    <3>2. run'[s].since <= utc'
      BY <1>0, <2>3, <3>1 DEF RowsInv
    <3> QED
      BY <2>3, <3>2, RowIsHonest
  <2> QED
    BY <1>1, <2>1, <2>2, <2>3, RunHistory
<1>2. ASSUME NEW f \in files'
      PROVE  Honest(f.rows, f.key, f.on, f.aborted) /\ f.sliced = Truncated(f.rows)
  BY <1>2, FileHistory DEF SameReading, Reports, RowsInv
<1> QED
  BY <1>1, <1>2 DEF RowsInv

LEMMA AlwaysHonest == CadenceSpec => [](TypeOK /\ BankInv /\ RowsInv)
<1>1. CadenceInit => BankInv /\ RowsInv
  BY DEF CadenceInit, Init, BankInv, RowsInv
<1> QED
  BY <1>1, AlwaysBenchTyped, StepsAreMoves, BankMoves, RowsMove, PTL DEF CadenceSpec

\* Every number in a result is of the build, provider and case file it names.
THEOREM ResultsNameTheirRows == CadenceSpec => []RowsAreTheResults
<1>1. RowsInv => RowsAreTheResults
  BY DEF RowsInv, Honest, RowsAreTheResults, Answered
<1> QED
  BY <1>1, AlwaysHonest, PTL

\* The kill criterion fires on whole readings of the real system.
THEOREM CriterionReadsTheSuite == CadenceSpec => []FiresOnReadings
<1>1. TypeOK /\ RowsInv => FiresOnReadings
  <2> SUFFICES ASSUME TypeOK, RowsInv, NEW f \in Firing
               PROVE  /\ f.key.real
                      /\ \A i \in DOMAIN f.rows : f.rows[i].kind \in {"measured", "crashed"}
                      /\ Cardinality({i \in DOMAIN f.rows : f.rows[i].kind = "measured"}) > 0
    BY DEF FiresOnReadings
  <2>1. f \in files /\ f \in Results /\ Counts(f)
    BY DEF Firing, Series, TypeOK
  <2>2. f.rows \in Seq(Rows) /\ DOMAIN f.rows = 1..Len(f.rows) /\ Len(f.rows) \in Nat
    BY <2>1 DEF Results
  <2>3. ~ f.aborted /\ ~ Truncated(f.rows)
    BY <2>1 DEF Counts, RowsInv
  <2>4. \A i \in DOMAIN f.rows : f.rows[i].kind \in {"measured", "crashed"}
    <3> SUFFICES ASSUME NEW i \in DOMAIN f.rows
                 PROVE  f.rows[i].kind \in {"measured", "crashed"}
      OBVIOUS
    <3>1. f.rows[i] \in Rows
      BY <2>2
    <3>2. f.rows[i].kind \in {"measured", "unasked", "cut", "crashed"}
      BY <3>1 DEF Rows
    <3>3. f.rows[i].kind # "unasked" /\ f.rows[i].kind # "cut"
      BY <2>1, <2>3 DEF Truncated, RowsInv, Honest
    <3> QED
      BY <3>2, <3>3
  <2>5. Cardinality(Answered(f)) > 0
    <3>1. IsFiniteSet(Answered(f)) /\ Answered(f) # {}
      <4>1. IsFiniteSet(1..Len(f.rows))
        BY <2>2, FS_Interval
      <4> QED
        BY <2>1, <2>2, <4>1, FS_Subset DEF Answered, Counts
    <3> QED
      BY <3>1, FS_EmptySet, FS_CardinalityType
  <2> QED
    BY <2>1, <2>4, <2>5 DEF Counts, Answered
<1> QED
  BY <1>1, AlwaysHonest, PTL

-----------------------------------------------------------------------------
(* Checkpoints.  What was bought is in the bank, or a later row of the     *)
(* same key is, unless a row of another key was banked for the case.       *)

KeptInv ==
  \A b \in bought :
    \/ /\ bank[b.case] # None /\ bank[b.case].key = b.row.key
       /\ bank[b.case].on >= b.row.on
    \/ \E c \in bought : c.case = b.case /\ c.row.key # b.row.key

LEMMA KeptMoves == TypeOK /\ BankInv /\ KeptInv /\ BenchMoves => KeptInv'
<1> SUFFICES ASSUME TypeOK, BankInv, KeptInv, BenchMoves PROVE KeptInv'
  OBVIOUS
<1>0. /\ bank \in [Suite -> Rows \cup {None}] /\ bought \subseteq [case : Suite, row : Rows]
      /\ utc \in Nat /\ None \notin Rows
  BY BenchAssumption DEF TypeOK, Dates
<1>1. CASE UNCHANGED <<bank, bought>>
  BY <1>1 DEF KeptInv
<1>2. ASSUME NEW i \in Suite, NEW row \in Rows, row.kind = "measured", row.on = utc,
             bank' = [bank EXCEPT ![i] = row],
             bought' = bought \cup {[case |-> i, row |-> row]}
      PROVE  KeptInv'
  <2> SUFFICES ASSUME NEW b \in bought'
               PROVE  \/ /\ bank'[b.case] # None /\ bank'[b.case].key = b.row.key
                         /\ bank'[b.case].on >= b.row.on
                      \/ \E c \in bought' : c.case = b.case /\ c.row.key # b.row.key
    BY DEF KeptInv
  <2> DEFINE new == [case |-> i, row |-> row]
  <2>1. bank'[i] = row /\ row # None /\ new \in bought' /\ new.case = i /\ new.row = row
        /\ bought \subseteq bought'
    BY <1>0, <1>2
  <2>2. CASE b = new
    BY <1>0, <1>2, <2>1, <2>2
  <2>3. CASE b \in bought /\ b.case = i
    <3>1. b.row.on \in Nat /\ b.row.on <= utc
      BY <1>0, <2>3, MeasuredOn DEF BankInv
    <3>2. CASE b.row.key = row.key
      BY <1>0, <1>2, <2>1, <2>3, <3>1, <3>2
    <3>3. CASE b.row.key # row.key
      BY <2>1, <2>3, <3>3
    <3> QED
      BY <3>2, <3>3
  <2>4. CASE b \in bought /\ b.case # i
    <3>1. b.case \in Suite /\ bank'[b.case] = bank[b.case]
      BY <1>0, <1>2, <2>4
    <3> QED
      BY <2>1, <2>4, <3>1 DEF KeptInv
  <2> QED
    BY <1>2, <2>2, <2>3, <2>4
<1> QED
  BY <1>1, <1>2, BankHistory

\* A case that was measured and banked is not paid for again by a resume.
THEOREM ResumesDoNotPayTwice == CadenceSpec => ResumePaysOnce
<1>1. CadenceInit => KeptInv
  BY DEF CadenceInit, Init, KeptInv
<1>2. CadenceSpec => []KeptInv
  BY <1>1, AlwaysHonest, StepsAreMoves, KeptMoves, PTL DEF CadenceSpec
<1>3. TypeOK /\ BankInv /\ KeptInv =>
        \A r \in Runs :
          RunsCase(r) /\ run[r].resume
          => \A b \in bought :
               /\ b.case = Now(r) /\ b.row.key = run[r].key /\ utc - b.row.on < KeepDays
               => \E c \in bought : c.case = b.case /\ c.row.key # b.row.key
  <2> SUFFICES ASSUME TypeOK, BankInv, KeptInv, NEW r \in Runs, RunsCase(r), run[r].resume,
                      NEW b \in bought, b.case = Now(r), b.row.key = run[r].key,
                      utc - b.row.on < KeepDays,
                      bank[b.case] # None, bank[b.case].key = b.row.key,
                      bank[b.case].on >= b.row.on
               PROVE  FALSE
    BY DEF KeptInv
  <2>1. Unbanked(r, Now(r))
    BY DEF RunsCase
  <2>2. Now(r) \in Suite /\ bank[Now(r)] \in Rows /\ b.row \in Rows
    BY NowInSuite DEF RunsCase, TypeOK
  <2>3. b.row.on \in Nat /\ bank[Now(r)].on \in Nat /\ utc \in Nat /\ KeepDays \in Nat
    BY <2>2, MeasuredOn, BenchAssumption DEF BankInv, TypeOK, Dates
  <2> QED
    BY <2>1, <2>3 DEF Unbanked, Ages
<1>4. TypeOK /\ BankInv /\ KeptInv /\ [CadenceNext]_allVars =>
        [\A r \in Runs :
           RunsCase(r) /\ run[r].resume /\ run'[r] # None /\ run'[r].rows # run[r].rows
           => \A b \in bought :
                /\ b.case = Now(r) /\ b.row.key = run[r].key /\ utc - b.row.on < KeepDays
                => \E c \in bought : c.case = b.case /\ c.row.key # b.row.key]_vars
  BY <1>3
<1> QED
  BY <1>2, <1>4, AlwaysHonest, PTL DEF CadenceSpec, ResumePaysOnce

-----------------------------------------------------------------------------
(* Types of the scheduler and the alerts.  A bench with --notify only ever *)
(* delivers; it has no report of its own to make.                          *)

Held(m) == <<m.today, m.due, m.seen, m.stamp, m.alert, m.log>>
Later == {"deliver", "load", "save"}
Places == {"weekly", "bench", "wait", "report"} \cup Later

Typed ==
  /\ TypeOK /\ CadenceTypeOK
  /\ morning["bench"] # None => morning["bench"].at \in Later

LEMMA MorningAt ==
  ASSUME NEW m \in Mornings, NEW a \in Places
  PROVE  LET q == Upd(m, [at |-> a])
         IN  q \in Mornings /\ q.at = a /\ Held(q) = Held(m)
BY DEF Mornings, Upd, Held, Places, Later

LEMMA MorningFails ==
  ASSUME NEW m \in Mornings, NEW a \in Places, NEW failed \in SUBSET {"weekly", "bench"}
  PROVE  LET q == Upd(m, [at |-> a, failed |-> failed])
         IN  q \in Mornings /\ q.at = a /\ Held(q) = Held(m)
BY DEF Mornings, Upd, Held, Places, Later

LEMMA MorningWaits ==
  ASSUME NEW m \in Mornings, NEW stamp \in 0 .. MaxStarts
  PROVE  LET q == Upd(m, [at |-> "wait", stamp |-> stamp]) IN q \in Mornings /\ q.at = "wait"
BY DEF Mornings, Upd

LEMMA MorningSpeaks ==
  ASSUME NEW m \in Mornings, NEW alert \in SUBSET Facts, NEW today \in 0 .. MaxDay
  PROVE  LET q == Upd(m, [at |-> "deliver", alert |-> alert, today |-> today])
         IN  q \in Mornings /\ q.at = "deliver"
BY DEF Mornings, Upd

LEMMA MorningLoads ==
  ASSUME NEW m \in Mornings, NEW log \in Logs
  PROVE  LET q == Upd(m, [at |-> "save", log |-> log])
         IN  /\ q \in Mornings /\ q.at = "save" /\ q.log = log
             /\ q.alert = m.alert /\ q.today = m.today
BY DEF Mornings, Upd

LEMMA BeginType ==
  ASSUME Typed, NEW a \in Places, NEW alert \in SUBSET Facts
  PROVE  Begin(a, alert) \in Mornings /\ Begin(a, alert).at = a
<1>1. None \in Logs \cup {None} /\ 0 \in 0 .. MaxStarts /\ day \in 0 .. MaxDay
  BY BenchAssumption DEF Typed, TypeOK
<1> QED
  BY <1>1 DEF Begin, Mornings, Places, Later

\* A teller that is put in place of another.
LEMMA MorningPut ==
  ASSUME Typed, NEW t \in Tellers, NEW q \in Mornings \cup {None},
         morning' = [morning EXCEPT ![t] = q],
         q # None /\ q.at = "save" => q.log \in Logs,
         q # None /\ t = "bench" => q.at \in Later
  PROVE  /\ morning' \in [Tellers -> Mornings \cup {None}]
         /\ \A x \in Tellers : (morning'[x] # None /\ morning'[x].at = "save") =>
              morning'[x].log \in Logs
         /\ morning'["bench"] # None => morning'["bench"].at \in Later
         /\ morning'[t] = q /\ \A x \in Tellers : x # t => morning'[x] = morning[x]
BY DEF Typed, CadenceTypeOK, Tellers, At

\* A move of the bench, with the rest of the types given.
LEMMA PutTyped ==
  ASSUME Typed, BenchMoves, NEW t \in Tellers, NEW q \in Mornings \cup {None},
         morning' = [morning EXCEPT ![t] = q],
         q # None /\ q.at = "save" => q.log \in Logs,
         q # None /\ t = "bench" => q.at \in Later,
         weekly' \in 0 .. MaxDay \cup {None}, wake' \in 0 .. MaxDay + 1, posts' \in 0 .. MaxPosts,
         sent' \in Logs, said' \in Seq(Say),
         launched' \subseteq [stamp : 1 .. MaxStarts, on : 0 .. MaxDay, seen : SUBSET (1 .. MaxStarts)]
  PROVE  Typed'
<1>1. TypeOK'
  BY MoveTyped DEF Typed
<1>2. /\ morning' \in [Tellers -> Mornings \cup {None}]
      /\ \A x \in Tellers : (morning'[x] # None /\ morning'[x].at = "save") =>
           morning'[x].log \in Logs
      /\ morning'["bench"] # None => morning'["bench"].at \in Later
  BY MorningPut
<1> QED
  BY <1>1, <1>2 DEF Typed, CadenceTypeOK, At, Say, Kinds

LEMMA WhenType ==
  ASSUME NEW holds \in BOOLEAN, NEW fact PROVE When(holds, fact) \subseteq {fact}
BY DEF When

LEMMA FactTypes ==
  /\ \A w \in {"weekly", "bench"} : <<"failed", w>> \in Facts /\ <<"stale", w>> \in Facts
  /\ \A n \in Nat, what \in {"fired", "below floor", "partial", "behind", "result"} :
       <<what, n>> \in Facts
  /\ \A m, n \in Nat : <<"stale", "bench", m, n>> \in Facts
<1> DEFINE A == {"failed", "stale"} \X {"weekly", "bench"}
           B == {"fired", "below floor", "partial", "behind", "result"} \X Nat
           C == {"stale"} \X {"bench"} \X Nat \X Nat
<1>1. \A w \in {"weekly", "bench"} : <<"failed", w>> \in A /\ <<"stale", w>> \in A
  OBVIOUS
<1>2. \A n \in Nat, what \in {"fired", "below floor", "partial", "behind", "result"} :
        <<what, n>> \in B
  OBVIOUS
<1>3. \A m, n \in Nat : <<"stale", "bench", m, n>> \in C
  OBVIOUS
<1>4. Facts = A \cup B \cup C
  BY DEF Facts
<1> HIDE DEF A, B, C
<1> QED
  BY <1>1, <1>2, <1>3, <1>4

\* An alert is made of facts.
LEMMA AlertType ==
  ASSUME Typed, NEW t \in Who, morning[t] # None, NEW f \in Evidence
  PROVE  Alert(t, f) \in SUBSET Facts
<1>1. morning[t].failed \subseteq {"weekly", "bench"}
  BY DEF Typed, CadenceTypeOK, Mornings, Tellers, Who
<1>2. {<<"failed", l>> : l \in morning[t].failed} \subseteq Facts
  BY <1>1, FactTypes
<1>3. \A g \in Series : g.stamp \in Nat
  BY BenchAssumption DEF Typed, TypeOK, Series, Results
<1>4. Concerns \subseteq Facts
  <2> SUFFICES ASSUME NEW c \in Concerns PROVE c \in Facts
    OBVIOUS
  <2>1. \E g \in Series, said_ \in {"fired", "below floor", "partial"} : c = <<said_, g.stamp>>
    BY DEF Concerns
  <2> QED
    BY <1>3, <2>1, FactTypes
<1>5. <<"stale", "weekly">> \in Facts
  BY FactTypes
<1>6. build["scheduler"] \in Nat /\ build[t] \in Nat
  BY BenchAssumption DEF Typed, TypeOK, Who
<1>7. f # None => f \in files /\ f.key.build \in Nat
  <2> SUFFICES ASSUME f # None PROVE f \in files /\ f.key.build \in Nat
    OBVIOUS
  <2>1. f \in files /\ f \in Results
    BY DEF Evidence, Watched, Typed, TypeOK
  <2> QED
    BY <2>1, BenchAssumption DEF Results, Keys
<1> DEFINE n == IF f = None THEN 0 ELSE f.key.build
<1>8. n \in Nat
  BY <1>7
<1> HIDE DEF n
<1>9. <<"stale", "bench", n, build[t]>> \in Facts /\ <<"behind", build["scheduler"]>> \in Facts
  BY <1>6, <1>8, FactTypes
<1> QED
  BY <1>2, <1>4, <1>5, <1>9 DEF Alert, When, n

LEMMA SentType ==
  ASSUME Typed, NEW t \in Tellers, morning[t] # None, NEW log \in Logs
  PROVE  [log EXCEPT ![KindOf(t)] = [alert |-> morning[t].alert, at |-> morning[t].today]] \in Logs
<1>1. morning[t] \in Mornings
  BY DEF Typed, CadenceTypeOK
<1>2. [alert |-> morning[t].alert, at |-> morning[t].today] \in Notes
  BY <1>1 DEF Mornings, Notes
<1> QED
  BY <1>2 DEF Logs, KindOf

LEMMA NextTyped == Typed /\ [CadenceNext]_allVars => Typed'
<1> SUFFICES ASSUME Typed, [CadenceNext]_allVars PROVE Typed'
  OBVIOUS
<1>0. /\ morning \in [Tellers -> Mornings \cup {None}] /\ sent \in Logs /\ said \in Seq(Say)
      /\ launched \subseteq [stamp : 1 .. MaxStarts, on : 0 .. MaxDay, seen : SUBSET (1 .. MaxStarts)]
      /\ weekly \in 0 .. MaxDay \cup {None} /\ wake \in 0 .. MaxDay + 1 /\ posts \in 0 .. MaxPosts
      /\ day \in 0 .. MaxDay /\ files \subseteq Results
      /\ None \notin Mornings /\ BenchMoves
      /\ "scheduler" \in Tellers /\ "operator" \in Tellers /\ "bench" \in Tellers
  BY StepsAreMoves, CadenceAssumption DEF Typed, TypeOK, CadenceTypeOK, Say, Kinds, Tellers
<1>1. ASSUME NEW t \in Tellers, NEW q \in Mornings \cup {None},
             morning' = [morning EXCEPT ![t] = q],
             q # None /\ q.at = "save" => q.log \in Logs,
             q # None /\ t = "bench" => q.at \in Later,
             UNCHANGED <<weekly, wake, posts, sent, said, launched>>
      PROVE  Typed'
  BY <1>0, <1>1, PutTyped
<1>2. CASE UNCHANGED cadenceVars
  <2>1. TypeOK'
    BY <1>0, MoveTyped DEF Typed
  <2> QED
    BY <1>2, <2>1 DEF Typed, CadenceTypeOK, cadenceVars, At
<1>3. CASE Wakes
  <2>1. PICK f \in Evidence :
          LET due == When(WeeklyState # "ok", "weekly")
                     \cup When(BenchState(f, "scheduler") # "ok", "bench") IN
          morning' = [morning EXCEPT !["scheduler"] = [Begin("weekly", {}) EXCEPT
            !.due = due, !.seen = {g.stamp : g \in {h \in files : h.tracked}}]]
    BY <1>3 DEF Wakes
  <2> DEFINE due == When(WeeklyState # "ok", "weekly")
                    \cup When(BenchState(f, "scheduler") # "ok", "bench")
             noticed == {g.stamp : g \in {h \in files : h.tracked}}
             m == Begin("weekly", {})
             q == [m EXCEPT !.due = due, !.seen = noticed]
  <2>2. due \subseteq {"weekly", "bench"}
    BY DEF When
  <2>3. noticed \subseteq 1 .. MaxStarts
    BY <1>0 DEF Results
  <2>4. m \in Mornings /\ m.at = "weekly"
    BY BeginType DEF Places
  <2> HIDE DEF due, noticed, m
  <2>5. q \in Mornings /\ q.at = "weekly"
    BY <2>2, <2>3, <2>4 DEF Mornings
  <2>6. morning' = [morning EXCEPT !["scheduler"] = q]
    BY <2>1 DEF due, noticed, m
  <2>7. wake' \in 0 .. MaxDay + 1 /\ UNCHANGED <<weekly, sent, posts, said, launched>>
    BY <1>0, <1>3, BenchAssumption DEF Wakes
  <2> HIDE DEF q
  <2> QED
    BY <1>0, <2>5, <2>6, <2>7, PutTyped
<1>4. CASE RunWeekly
  <2> DEFINE m == morning["scheduler"]
  <2>1. m \in Mornings /\ m # None
    BY <1>0, <1>4 DEF RunWeekly, At
  <2>2. \E q \in Mornings : morning' = [morning EXCEPT !["scheduler"] = q] /\ q.at = "bench"
    <3>1. CASE Goes("scheduler", [at |-> "bench"])
      <4>1. morning' = [morning EXCEPT !["scheduler"] = Upd(m, [at |-> "bench"])]
        BY <3>1 DEF Goes, Upd
      <4> QED
        BY <2>1, <4>1, MorningAt DEF Places
    <3>2. CASE Goes("scheduler", [at |-> "bench", failed |-> {"weekly"}])
      <4> DEFINE q == Upd(m, [at |-> "bench", failed |-> {"weekly"}])
      <4>1. morning' = [morning EXCEPT !["scheduler"] = q]
        BY <3>2 DEF Goes, Upd
      <4>2. q \in Mornings /\ q.at = "bench"
        <5>1. {"weekly"} \in SUBSET {"weekly", "bench"} /\ "bench" \in Places
          BY DEF Places
        <5> QED
          BY <2>1, <5>1, MorningFails
      <4> QED
        BY <4>1, <4>2
    <3> QED
      BY <1>4, <3>1, <3>2 DEF RunWeekly
  <2>3. weekly' \in 0 .. MaxDay \cup {None} /\ UNCHANGED <<wake, sent, posts, said, launched>>
    BY <1>0, <1>4 DEF RunWeekly
  <2> QED
    BY <1>0, <2>2, <2>3, PutTyped
<1>5. CASE RunBench
  <2> DEFINE m == morning["scheduler"]
  <2>1. m \in Mornings /\ m # None
    BY <1>0, <1>5 DEF RunBench, At
  <2>2. CASE Goes("scheduler", [at |-> "report"]) /\ UNCHANGED launched
    <3>1. morning' = [morning EXCEPT !["scheduler"] = Upd(m, [at |-> "report"])]
      BY <2>2 DEF Goes, Upd
    <3>2. Upd(m, [at |-> "report"]) \in Mornings /\ Upd(m, [at |-> "report"]).at = "report"
      BY <2>1, MorningAt DEF Places
    <3> QED
      BY <1>0, <1>1, <1>5, <2>2, <3>1, <3>2 DEF RunBench
  <2>3. CASE /\ \E r \in Runs : Starts(r, "scheduler", TRUE, Suite, FALSE)
             /\ Goes("scheduler", [at |-> "wait", stamp |-> starts'])
             /\ launched' = launched \cup {[stamp |-> starts', on |-> day,
                                            seen |-> morning["scheduler"].seen]}
    <3>1. starts' \in 1 .. MaxStarts
      <4>1. starts \in 0 .. MaxStarts /\ MaxStarts \in Nat
        BY BenchAssumption DEF Typed, TypeOK
      <4>2. starts < MaxStarts /\ starts' = starts + 1
        BY <2>3 DEF Starts
      <4> QED
        BY <4>1, <4>2
    <3>2. morning' = [morning EXCEPT !["scheduler"] = Upd(m, [at |-> "wait", stamp |-> starts'])]
      BY <2>3 DEF Goes, Upd
    <3>3. Upd(m, [at |-> "wait", stamp |-> starts']) \in Mornings
          /\ Upd(m, [at |-> "wait", stamp |-> starts']).at = "wait"
      BY <2>1, <3>1, MorningWaits
    <3>4. m.seen \in SUBSET (1 .. MaxStarts)
      BY <2>1 DEF Mornings
    <3>5. launched' \subseteq [stamp : 1 .. MaxStarts, on : 0 .. MaxDay, seen : SUBSET (1 .. MaxStarts)]
      BY <1>0, <2>3, <3>1, <3>4
    <3>6. UNCHANGED <<weekly, wake, sent, posts, said>>
      BY <1>5 DEF RunBench
    <3> QED
      BY <1>0, <3>2, <3>3, <3>5, <3>6, PutTyped
  <2> QED
    BY <1>5, <2>2, <2>3 DEF RunBench
<1>6. ASSUME morning["scheduler"] # None, Goes("scheduler", BenchFails),
             UNCHANGED <<weekly, wake, sent, posts, said, launched>>
      PROVE  Typed'
  <2> DEFINE m == morning["scheduler"]
             failed == m.failed \cup {"bench"}
  <2>1. m \in Mornings
    BY <1>0, <1>6
  <2>2. failed \in SUBSET {"weekly", "bench"}
    BY <2>1 DEF Mornings
  <2>3. morning' = [morning EXCEPT !["scheduler"] = Upd(m, [at |-> "report", failed |-> failed])]
    BY <1>6 DEF Goes, Upd, BenchFails
  <2> HIDE DEF failed
  <2>4. Upd(m, [at |-> "report", failed |-> failed]) \in Mornings
        /\ Upd(m, [at |-> "report", failed |-> failed]).at = "report"
    BY <2>1, <2>2, MorningFails DEF Places
  <2> QED
    BY <1>0, <1>1, <1>6, <2>3, <2>4
<1>7. CASE BenchRefused \/ BenchTimesOut
  BY <1>6, <1>7 DEF BenchRefused, BenchTimesOut, At
<1>8. CASE BenchReturns
  <2> DEFINE m == morning["scheduler"]
  <2>1. m \in Mornings /\ m # None
    BY <1>0, <1>8 DEF BenchReturns, At
  <2>2. CASE Goes("scheduler", [at |-> "report"])
    <3>1. morning' = [morning EXCEPT !["scheduler"] = Upd(m, [at |-> "report"])]
      BY <2>2 DEF Goes, Upd
    <3>2. Upd(m, [at |-> "report"]) \in Mornings /\ Upd(m, [at |-> "report"]).at = "report"
      BY <2>1, MorningAt DEF Places
    <3> QED
      BY <1>0, <1>1, <1>8, <3>1, <3>2 DEF BenchReturns
  <2>3. CASE Goes("scheduler", BenchFails)
    BY <1>6, <1>8, <2>1, <2>3 DEF BenchReturns
  <2> QED
    BY <1>8, <2>2, <2>3 DEF BenchReturns
<1>9. CASE OperatorReports
  <2>1. Begin("report", {}) \in Mornings /\ Begin("report", {}).at = "report"
    BY BeginType DEF Places
  <2>2. morning' = [morning EXCEPT !["operator"] = Begin("report", {})]
        /\ posts' \in 0 .. MaxPosts /\ UNCHANGED <<weekly, wake, sent, said, launched>>
    BY <1>0, <1>9, CadenceAssumption DEF OperatorReports
  <2> QED
    BY <1>0, <2>1, <2>2, PutTyped
<1>10. CASE BenchPosts
  <2>1. PICK f \in files :
          morning' = [morning EXCEPT !["bench"] = Begin("deliver", {<<"result", f.stamp>>})]
    BY <1>10 DEF BenchPosts
  <2>2. {<<"result", f.stamp>>} \in SUBSET Facts
    <3>1. f.stamp \in Nat
      BY <1>0, BenchAssumption DEF Results
    <3> QED
      BY <3>1, FactTypes
  <2>3. Begin("deliver", {<<"result", f.stamp>>}) \in Mornings
        /\ Begin("deliver", {<<"result", f.stamp>>}).at = "deliver"
    BY <2>2, BeginType DEF Places, Later
  <2>4. posts' \in 0 .. MaxPosts /\ UNCHANGED <<weekly, wake, sent, said, launched>>
    BY <1>0, <1>10, CadenceAssumption DEF BenchPosts
  <2>5. "deliver" \in Later /\ "deliver" # "save"
    BY DEF Later
  <2> QED
    BY <1>0, <2>1, <2>3, <2>4, <2>5, PutTyped
<1>11. ASSUME NEW t \in Tellers, Report(t) PROVE Typed'
  <2> DEFINE m == morning[t]
  <2>1. m \in Mornings /\ m # None /\ m.at = "report" /\ t \in Who
    BY <1>0, <1>11 DEF Report, At, Typed, Later, Tellers, Who
  <2>2. UNCHANGED <<weekly, wake, sent, posts, said, launched>>
    BY <1>11 DEF Report
  <2>3. PICK f \in Evidence :
          \/ morning' = [morning EXCEPT ![t] = None]
          \/ Goes(t, [at |-> "deliver", alert |-> Alert(t, f), today |-> day])
    BY <1>11 DEF Report
  <2>4. CASE morning' = [morning EXCEPT ![t] = None]
    BY <1>0, <1>1, <2>2, <2>4
  <2>5. CASE Goes(t, [at |-> "deliver", alert |-> Alert(t, f), today |-> day])
    <3> DEFINE alert == Alert(t, f)
               q == Upd(m, [at |-> "deliver", alert |-> alert, today |-> day])
    <3>1. alert \in SUBSET Facts
      BY <2>1, AlertType
    <3>2. morning' = [morning EXCEPT ![t] = q]
      BY <2>5 DEF Goes, Upd
    <3> HIDE DEF alert
    <3>3. q \in Mornings /\ q.at = "deliver"
      BY <1>0, <2>1, <3>1, MorningSpeaks
    <3>4. "deliver" \in Later /\ "deliver" # "save"
      BY DEF Later
    <3> HIDE DEF q
    <3> QED
      BY <1>0, <1>1, <2>2, <3>2, <3>3, <3>4
  <2> QED
    BY <2>3, <2>4, <2>5
<1>12. ASSUME NEW t \in Tellers, Deliver(t) PROVE Typed'
  <2> DEFINE m == morning[t]
             row == [kind |-> KindOf(t), alert |-> m.alert, at |-> m.today]
  <2>1. m \in Mornings /\ m # None
    BY <1>0, <1>12 DEF Deliver, At
  <2>2. UNCHANGED <<weekly, wake, sent, posts, launched>>
    BY <1>12 DEF Deliver
  <2>3. row \in Say
    BY <2>1 DEF Say, Mornings, KindOf, Kinds
  <2> HIDE DEF row
  <2>4. CASE said' = Append(said, row) /\ Goes(t, [at |-> "load"])
    <3>1. morning' = [morning EXCEPT ![t] = Upd(m, [at |-> "load"])]
      BY <2>4 DEF Goes, Upd
    <3>2. Upd(m, [at |-> "load"]) \in Mornings /\ Upd(m, [at |-> "load"]).at = "load"
      BY <2>1, MorningAt DEF Places, Later
    <3>3. said' \in Seq(Say)
      BY <1>0, <2>3, <2>4
    <3>4. "load" \in Later /\ "load" # "save"
      BY DEF Later
    <3> QED
      BY <1>0, <2>2, <3>1, <3>2, <3>3, <3>4, PutTyped
  <2>5. CASE morning' = [morning EXCEPT ![t] = None] /\ UNCHANGED said
    BY <1>0, <1>1, <2>2, <2>5
  <2> QED
    BY <1>12, <2>4, <2>5 DEF Deliver, row
<1>13. ASSUME NEW t \in Tellers, LoadSent(t) PROVE Typed'
  <2> DEFINE m == morning[t]
             q == Upd(m, [at |-> "save", log |-> sent])
  <2>1. m \in Mornings /\ m # None
    BY <1>0, <1>13 DEF LoadSent, At
  <2>2. morning' = [morning EXCEPT ![t] = q] /\ UNCHANGED <<weekly, wake, sent, posts, said, launched>>
    BY <1>13 DEF LoadSent, Goes, Upd
  <2>3. q \in Mornings /\ q.at = "save" /\ q.log \in Logs
    BY <1>0, <2>1, MorningLoads
  <2>4. "save" \in Later
    BY DEF Later
  <2> HIDE DEF q
  <2> QED
    BY <1>0, <1>1, <2>2, <2>3, <2>4
<1>14. ASSUME NEW t \in Tellers, SaveSent(t) PROVE Typed'
  <2>1. morning[t] # None /\ morning[t].log \in Logs
    BY <1>14 DEF SaveSent, At, Typed, CadenceTypeOK
  <2>2. sent' \in Logs
    BY <1>14, <2>1, SentType DEF SaveSent
  <2>3. morning' = [morning EXCEPT ![t] = None] /\ UNCHANGED <<weekly, wake, posts, said, launched>>
    BY <1>14 DEF SaveSent
  <2> QED
    BY <1>0, <2>2, <2>3, PutTyped
<1>15. ASSUME NEW t \in Tellers, TellerDies(t) PROVE Typed'
  BY <1>0, <1>1, <1>15 DEF TellerDies
<1> QED
  BY <1>2, <1>3, <1>4, <1>5, <1>7, <1>8, <1>9, <1>10, <1>11, <1>12, <1>13, <1>14, <1>15
  DEF CadenceNext, allVars, cadenceVars, Upgrade

LEMMA AlwaysTyped == CadenceSpec => []Typed
<1>1. CadenceInit => CadenceTypeOK /\ morning["bench"] = None
  <2> SUFFICES ASSUME CadenceIdle PROVE CadenceTypeOK /\ morning["bench"] = None
    BY DEF CadenceInit
  <2>1. [k \in {"cadence", "bench"} |-> None] \in Logs
    BY DEF Logs
  <2> QED
    BY <2>1, BenchAssumption, CadenceAssumption DEF CadenceIdle, CadenceTypeOK, At, Tellers
<1>2. CadenceSpec => []TypeOK
  BY AlwaysBenchTyped
<1>3. CadenceInit /\ TypeOK => Typed
  BY <1>1 DEF Typed
<1> QED
  BY <1>2, <1>3, NextTyped, PTL DEF CadenceSpec

\* Checkpoints, results, runs and alerts keep their shapes.
THEOREM LoopsTypeCorrect == CadenceSpec => [](TypeOK /\ CadenceTypeOK)
<1>1. Typed => TypeOK /\ CadenceTypeOK
  BY DEF Typed
<1> QED
  BY <1>1, AlwaysTyped, PTL

-----------------------------------------------------------------------------
(* Spending.  A run the scheduler started asks for the whole suite on the  *)
(* real provider, so what it leaves in the tracked directory is watched,   *)
(* and a morning that sees it counts its days from it or from a later one. *)
(* Its date is of UTC, a day behind the launch at most.                    *)

Whole(p, on) ==
  /\ p.key.real /\ p.picks = Suite /\ p.since + 1 >= on
  /\ \A i \in DOMAIN p.rows : p.rows[i].kind # "unasked"

StampInv ==
  /\ \A r \in Runs : run[r] # None => run[r].stamp <= starts
  /\ \A f \in files : f.stamp <= starts

LaunchInv ==
  \A a \in launched :
    /\ a.stamp <= starts /\ a.on <= day
    /\ \A r \in Runs : run[r] # None /\ run[r].stamp = a.stamp => Whole(run[r], a.on)
    /\ \A f \in files : f.stamp = a.stamp => f.key.real /\ ~ f.sliced /\ f.on + 1 >= a.on

WakeInv ==
  (At("scheduler", "weekly") \/ At("scheduler", "bench")) =>
    LET m == morning["scheduler"] IN
    /\ m.today <= day /\ \A n \in m.seen : n <= starts
    /\ "bench" \in m.due => \A a \in launched : a.stamp \in m.seen => m.today - a.on >= Weekly - 1

SpendInv == StampInv /\ LaunchInv /\ WakeInv /\ SpendIsSpaced

LEMMA StampsMove == TypeOK /\ StampInv /\ BenchMoves => StampInv'
<1> SUFFICES ASSUME TypeOK, StampInv, BenchMoves PROVE StampInv'
  OBVIOUS
<1>0. starts \in Nat /\ starts' \in Nat /\ starts <= starts'
  BY TimeGoesOn
<1>1. \A r \in Runs : run[r] # None => run[r].stamp \in Nat
  BY BenchAssumption DEF TypeOK, Processes
<1>2. \A f \in files : f.stamp \in Nat
  BY BenchAssumption DEF TypeOK, Results
<1>3. ASSUME NEW s \in Runs, run'[s] # None PROVE run'[s].stamp <= starts'
  <2>1. CASE Fresh(run'[s]) /\ starts' = starts + 1
    BY <1>0, <2>1 DEF Fresh
  <2>2. CASE run[s] # None /\ run'[s].stamp = run[s].stamp
    BY <1>0, <1>1, <2>2 DEF StampInv
  <2> QED
    BY <1>3, <2>1, <2>2, RunHistory DEF Moved, Adds, Fixed
<1>4. ASSUME NEW f \in files' PROVE f.stamp <= starts'
  BY <1>0, <1>1, <1>2, <1>4, FileHistory DEF SameReading, Reports, StampInv
<1> QED
  BY <1>3, <1>4 DEF StampInv

\* A whole run goes on whole.
LEMMA WholeAdds ==
  ASSUME TypeOK, BankInv, NEW s \in Runs, run[s] # None, NEW q, Adds(s, q),
         NEW on, Whole(run[s], on)
  PROVE  Whole(q, on)
<1>1. /\ InCases(s) /\ Alive(s) /\ Now(s) \in Suite
      /\ q.key = run[s].key /\ q.since = run[s].since /\ q.picks = run[s].picks
  BY NowInSuite DEF Adds, Fixed
<1>2. PICK row \in Rows : q.rows = WithRow(s, row) /\ NewRow(s, row, q.aborted)
  BY DEF Adds
<1>3. row.kind # "unasked"
  <2>1. CASE Banked(s, Now(s)) /\ row = bank[Now(s)]
    BY <1>1, <2>1 DEF Banked, BankInv
  <2> QED
    BY <1>1, <1>2, <2>1 DEF NewRow, Whole
<1>4. \A i \in DOMAIN q.rows :
        (i \in DOMAIN run[s].rows /\ q.rows[i] = run[s].rows[i]) \/ q.rows[i] = row
  BY <1>1, <1>2, WithRowType
<1> QED
  BY <1>1, <1>3, <1>4 DEF Whole

\* What was launched stays whole, whatever else runs.
LEMMA LaunchedStay ==
  ASSUME TypeOK, BankInv, StampInv, LaunchInv, BenchMoves, NEW a \in launched,
         a.stamp \in Nat, a.on \in Nat
  PROVE  /\ a.stamp <= starts' /\ a.on <= day'
         /\ \A r \in Runs : run'[r] # None /\ run'[r].stamp = a.stamp => Whole(run'[r], a.on)
         /\ \A f \in files' : f.stamp = a.stamp => f.key.real /\ ~ f.sliced /\ f.on + 1 >= a.on
<1>0. /\ starts \in Nat /\ starts' \in Nat /\ starts <= starts'
      /\ day \in Nat /\ day' \in Nat /\ day <= day'
  BY TimeGoesOn
<1>1. a.stamp <= starts /\ a.on <= day
  BY DEF LaunchInv
<1>2. ASSUME NEW s \in Runs, run'[s] # None, run'[s].stamp = a.stamp PROVE Whole(run'[s], a.on)
  <2>1. ~ Fresh(run'[s])
    BY <1>0, <1>1, <1>2 DEF Fresh
  <2>2. CASE run[s] # None /\ Moved(run[s], run'[s])
    BY <1>2, <2>2 DEF Moved, Fixed, LaunchInv, Whole
  <2>3. CASE run[s] # None /\ Adds(s, run'[s])
    <3>1. Whole(run[s], a.on)
      BY <1>2, <2>3 DEF Adds, Fixed, LaunchInv
    <3> QED
      BY <2>3, <3>1, WholeAdds
  <2> QED
    BY <1>2, <2>1, <2>2, <2>3, RunHistory
<1>3. ASSUME NEW f \in files', f.stamp = a.stamp PROVE f.key.real /\ ~ f.sliced /\ f.on + 1 >= a.on
  <2>1. CASE \E g \in files : SameReading(f, g)
    BY <1>3, <2>1 DEF SameReading, LaunchInv
  <2>2. ASSUME NEW r \in Runs, run[r] # None, Reports(f, run[r])
        PROVE  f.key.real /\ ~ f.sliced /\ f.on + 1 >= a.on
    BY <1>3, <2>2 DEF Reports, LaunchInv, Whole, Truncated
  <2> QED
    BY <1>3, <2>1, <2>2, FileHistory
<1> QED
  BY <1>0, <1>1, <1>2, <1>3

\* An artifact younger than its cadence reads ok.
LEMMA YoungIsOk ==
  ASSUME NEW on \in Nat, NEW cadence \in Nat \ {0}, day \in Nat, day - on < cadence
  PROVE  Classify(on, cadence) = "ok"
<1> DEFINE age == IF day < on THEN 0 ELSE day - on
<1>1. age < cadence
  OBVIOUS
<1>2. ~ (age > cadence + Grace)
  BY <1>1, CadenceAssumption
<1> HIDE DEF age
<1> QED
  BY <1>1, <1>2 DEF Classify, age

\* A morning with a bench due sees no result of the scheduler's
\* younger than a week but a day.
LEMMA WakesLate ==
  ASSUME Typed, StampInv, LaunchInv, NEW f \in Evidence, BenchState(f, "scheduler") # "ok",
         NEW a \in launched, NEW g \in files, g.tracked, g.stamp = a.stamp
  PROVE  day - a.on >= Weekly - 1
<1>1. g.key.real /\ ~ g.sliced /\ g.on + 1 >= a.on
  BY DEF LaunchInv
<1>2. g \in Watched
  BY <1>1 DEF Watched
<1>3. f \in files /\ f \in Results /\ g.on <= f.on /\ f # None
  BY <1>2, BenchAssumption DEF Evidence, Watched, Typed, TypeOK
<1>4. f.on \in Nat /\ g.on \in Nat /\ day \in Nat /\ Weekly \in Nat \ {0} /\ Drift \in Nat
      /\ Weekly <= Drift
  BY <1>3, BenchAssumption, CadenceAssumption DEF Results, Dates, Typed, TypeOK
<1>5. BenchCadence(f, "scheduler") \in Nat \ {0} /\ BenchCadence(f, "scheduler") >= Weekly
  BY <1>4 DEF BenchCadence
<1>6. ~ (day - f.on < BenchCadence(f, "scheduler"))
  BY <1>3, <1>4, <1>5, YoungIsOk DEF BenchState
<1>7. a.on \in Nat
  BY DEF Typed, CadenceTypeOK
<1> QED
  BY <1>1, <1>3, <1>4, <1>5, <1>6, <1>7

LEMMA SpendMoves == Typed /\ BankInv /\ SpendInv /\ [CadenceNext]_allVars => SpendInv'
<1> SUFFICES ASSUME Typed, BankInv, SpendInv, [CadenceNext]_allVars PROVE SpendInv'
  OBVIOUS
<1>0. /\ TypeOK /\ BenchMoves /\ StampInv /\ LaunchInv /\ WakeInv /\ SpendIsSpaced
      /\ morning \in [Tellers -> Mornings \cup {None}] /\ "scheduler" \in Tellers
      /\ None \notin Mornings
  BY StepsAreMoves, CadenceAssumption DEF Typed, CadenceTypeOK, SpendInv, Tellers
<1>1. StampInv'
  BY <1>0, StampsMove
<1>2. \A a \in launched : a.stamp \in Nat /\ a.on \in Nat
  BY BenchAssumption DEF Typed, CadenceTypeOK
<1>3. /\ starts \in Nat /\ starts' \in Nat /\ starts <= starts'
      /\ day \in Nat /\ day' \in Nat /\ day <= day' /\ Weekly \in Nat
  BY <1>0, TimeGoesOn, CadenceAssumption
<1>4. ASSUME NEW a \in launched
      PROVE  /\ a.stamp <= starts' /\ a.on <= day'
             /\ \A r \in Runs : run'[r] # None /\ run'[r].stamp = a.stamp => Whole(run'[r], a.on)
             /\ \A f \in files' : f.stamp = a.stamp => f.key.real /\ ~ f.sliced /\ f.on + 1 >= a.on
  BY <1>0, <1>2, LaunchedStay DEF Typed, SpendInv
<1>5. ASSUME launched' = launched PROVE LaunchInv' /\ SpendIsSpaced'
  BY <1>0, <1>4, <1>5 DEF LaunchInv, SpendIsSpaced
<1>6. ASSUME launched' = launched,
             (At("scheduler", "weekly") \/ At("scheduler", "bench"))' =>
               /\ At("scheduler", "weekly") \/ At("scheduler", "bench")
               /\ Held(morning'["scheduler"]) = Held(morning["scheduler"])
      PROVE  SpendInv'
  <2>1. ASSUME (At("scheduler", "weekly") \/ At("scheduler", "bench"))'
        PROVE  LET m == morning'["scheduler"] IN
               /\ m.today <= day' /\ \A n \in m.seen : n <= starts'
               /\ "bench" \in m.due =>
                    \A a \in launched' : a.stamp \in m.seen => m.today - a.on >= Weekly - 1
    <3> DEFINE m == morning["scheduler"]
    <3>1. m \in Mornings /\ m.today \in Nat /\ m.seen \subseteq Nat
      BY <1>0, <1>6, <2>1, BenchAssumption DEF At, Mornings
    <3>2. /\ m.today <= day /\ \A n \in m.seen : n <= starts
          /\ "bench" \in m.due => \A a \in launched : a.stamp \in m.seen => m.today - a.on >= Weekly - 1
      BY <1>0, <1>6, <2>1 DEF WakeInv
    <3>3. /\ morning'["scheduler"].today = m.today /\ morning'["scheduler"].due = m.due
          /\ morning'["scheduler"].seen = m.seen
      BY <1>6, <2>1 DEF Held
    <3>4. m.today <= day' /\ \A n \in m.seen : n <= starts'
      BY <1>3, <3>1, <3>2
    <3> HIDE DEF m
    <3> QED
      BY <1>6, <3>2, <3>3, <3>4
  <2>2. WakeInv'
    BY <2>1 DEF WakeInv
  <2> QED
    BY <1>1, <1>5, <1>6, <2>2 DEF SpendInv
<1>7. CASE Wakes
  <2>1. PICK f \in Evidence :
          LET due == When(WeeklyState # "ok", "weekly")
                     \cup When(BenchState(f, "scheduler") # "ok", "bench") IN
          morning' = [morning EXCEPT !["scheduler"] = [Begin("weekly", {}) EXCEPT
            !.due = due, !.seen = {g.stamp : g \in {h \in files : h.tracked}}]]
    BY <1>7 DEF Wakes
  <2>2. UNCHANGED <<launched, day, starts>>
    BY <1>7 DEF Wakes, vars
  <2> DEFINE m == morning'["scheduler"]
  <2>3. /\ m.today = day /\ m.seen = {g.stamp : g \in {h \in files : h.tracked}}
        /\ "bench" \in m.due => BenchState(f, "scheduler") # "ok"
    BY <1>0, <2>1 DEF Begin, When
  <2>4. m.today <= day' /\ \A n \in m.seen : n <= starts'
    BY <1>0, <1>3, <2>2, <2>3 DEF StampInv
  <2>5. ASSUME "bench" \in m.due, NEW a \in launched', a.stamp \in m.seen
        PROVE  m.today - a.on >= Weekly - 1
    <3>1. PICK g \in files : g.tracked /\ g.stamp = a.stamp
      BY <2>3, <2>5
    <3>2. day - a.on >= Weekly - 1
      BY <1>0, <2>2, <2>3, <2>5, <3>1, WakesLate
    <3> QED
      BY <2>3, <3>2
  <2> HIDE DEF m
  <2>6. WakeInv'
    BY <2>4, <2>5 DEF WakeInv, m
  <2> QED
    BY <1>1, <1>5, <2>2, <2>6 DEF SpendInv
<1>8. CASE RunWeekly
  <2> DEFINE m == morning["scheduler"]
  <2>1. m \in Mornings /\ At("scheduler", "weekly") /\ launched' = launched
    BY <1>0, <1>8 DEF RunWeekly, At
  <2>2. CASE Goes("scheduler", [at |-> "bench"])
    <3>1. morning' = [morning EXCEPT !["scheduler"] = Upd(m, [at |-> "bench"])]
      BY <2>2 DEF Goes, Upd
    <3>2. Held(Upd(m, [at |-> "bench"])) = Held(m)
      BY <2>1, MorningAt DEF Places
    <3> QED
      BY <1>0, <1>6, <2>1, <3>1, <3>2
  <2>3. CASE Goes("scheduler", [at |-> "bench", failed |-> {"weekly"}])
    <3> DEFINE q == Upd(m, [at |-> "bench", failed |-> {"weekly"}])
    <3>1. morning' = [morning EXCEPT !["scheduler"] = q]
      BY <2>3 DEF Goes, Upd
    <3>2. Held(q) = Held(m)
      <4>1. {"weekly"} \in SUBSET {"weekly", "bench"} /\ "bench" \in Places
        BY DEF Places
      <4> QED
        BY <2>1, <4>1, MorningFails
    <3> HIDE DEF q
    <3> QED
      BY <1>0, <1>6, <2>1, <3>1, <3>2
  <2> QED
    BY <1>8, <2>2, <2>3 DEF RunWeekly
<1>9. ASSUME launched' = launched, morning'["scheduler"] = morning["scheduler"] PROVE SpendInv'
  BY <1>6, <1>9 DEF At
<1>10. ASSUME launched' = launched, NEW a \in Places \ {"weekly", "bench"},
              morning'["scheduler"].at = a
       PROVE  SpendInv'
  BY <1>6, <1>10 DEF At
<1>11. CASE RunBench
  <2> DEFINE m == morning["scheduler"]
  <2>1. m \in Mornings /\ At("scheduler", "bench") /\ m.seen \subseteq Nat /\ m.today \in Nat
    BY <1>0, <1>11, BenchAssumption DEF RunBench, At, Mornings
  <2>2. CASE Goes("scheduler", [at |-> "report"]) /\ UNCHANGED launched
    <3>1. morning' = [morning EXCEPT !["scheduler"] = Upd(m, [at |-> "report"])]
      BY <2>2 DEF Goes, Upd
    <3>2. Upd(m, [at |-> "report"]).at = "report"
      BY <2>1, MorningAt DEF Places
    <3> QED
      BY <1>0, <1>10, <2>2, <3>1, <3>2 DEF Places
  <2>3. ASSUME NEW r \in Runs, Starts(r, "scheduler", TRUE, Suite, FALSE), Due("bench"),
               Goes("scheduler", [at |-> "wait", stamp |-> starts']),
               launched' = launched \cup {[stamp |-> starts', on |-> day, seen |-> m.seen]}
        PROVE  SpendInv'
    <3> DEFINE b == [stamp |-> starts', on |-> day, seen |-> m.seen]
    <3>1. starts' = starts + 1 /\ UNCHANGED <<day, files>>
      BY <2>3 DEF Starts
    <3>2. /\ Fresh(run'[r]) /\ run'[r].key.real = TRUE /\ run'[r].picks = Suite
          /\ \A s \in Runs : s # r => run'[s] = run[s]
      <4>1. Suite \in SUBSET Suite /\ "scheduler" \in Who
        BY DEF Who
      <4> QED
        BY <1>0, <2>3, <4>1, StartIsFresh
    <3>3. Whole(run'[r], day)
      <4>1. utc + 1 >= day
        BY <1>0, <1>3 DEF TypeOK, Dates
      <4> QED
        BY <1>0, <3>2, <4>1 DEF Fresh, Whole, Starts
    <3>4. \A s \in Runs : run'[s] # None /\ run'[s].stamp = starts' => s = r
      <4>1. \A s \in Runs : run[s] # None => run[s] \in Processes
        BY <1>0 DEF TypeOK
      <4>2. \A s \in Runs : run[s] # None => run[s].stamp \in Nat
        BY <4>1, BenchAssumption DEF Processes
      <4> QED
        BY <1>0, <1>3, <3>1, <3>2, <4>2 DEF StampInv
    <3>5. \A f \in files' : f.stamp # starts'
      <4>1. \A f \in files : f.stamp \in Nat
        BY <1>0, BenchAssumption DEF TypeOK, Results
      <4> QED
        BY <1>0, <1>3, <3>1, <4>1 DEF StampInv
    <3>6. LaunchInv'
      <4> SUFFICES ASSUME NEW a \in launched'
                   PROVE  /\ a.stamp <= starts' /\ a.on <= day'
                          /\ \A s \in Runs : run'[s] # None /\ run'[s].stamp = a.stamp =>
                               Whole(run'[s], a.on)
                          /\ \A f \in files' : f.stamp = a.stamp =>
                               f.key.real /\ ~ f.sliced /\ f.on + 1 >= a.on
        BY DEF LaunchInv
      <4>1. CASE a \in launched
        BY <1>4, <4>1
      <4>2. CASE a.stamp = starts' /\ a.on = day
        BY <1>3, <3>1, <3>3, <3>4, <3>5, <4>2
      <4> QED
        BY <2>3, <4>1, <4>2
    <3>7. SpendIsSpaced'
      <4> SUFFICES ASSUME NEW a \in launched', NEW c \in launched',
                          a.stamp < c.stamp, c.on - a.on < Weekly - 1, a.stamp \in c.seen
                   PROVE  FALSE
        BY DEF SpendIsSpaced
      <4>1. \A x \in launched : x.stamp <= starts /\ x.on <= day
        BY <1>0 DEF LaunchInv
      <4>2. CASE a \in launched /\ c \in launched
        BY <1>0, <4>2 DEF SpendIsSpaced
      <4>3. CASE a \in launched /\ c = b
        <5>1. m.today - a.on >= Weekly - 1 /\ m.today <= day
          BY <1>0, <2>1, <2>3, <4>3 DEF WakeInv, Due
        <5>2. c.on = day /\ a.on \in Nat
          BY <1>2, <4>3
        <5> HIDE DEF m, b
        <5> QED
          BY <1>3, <2>1, <5>1, <5>2 DEF m
      <4>4. CASE a = b
        <5>1. a.stamp = starts' /\ c.stamp <= starts'
          BY <1>3, <2>3, <3>1, <4>1, <4>4, <1>2
        <5>2. c.stamp \in Nat
          BY <1>2, <1>3, <2>3
        <5> QED
          BY <1>3, <5>1, <5>2
      <4> QED
        BY <2>3, <4>2, <4>3, <4>4
    <3>8. WakeInv'
      <4>1. morning' = [morning EXCEPT !["scheduler"] = Upd(m, [at |-> "wait", stamp |-> starts'])]
        BY <2>3 DEF Goes, Upd
      <4>2. starts' \in 0 .. MaxStarts
        BY <1>0, <1>3, <2>3, BenchAssumption DEF Starts, TypeOK
      <4>3. Upd(m, [at |-> "wait", stamp |-> starts']).at = "wait"
        BY <2>1, <4>2, MorningWaits
      <4> QED
        BY <1>0, <4>1, <4>3 DEF WakeInv, At
    <3> QED
      BY <1>1, <3>6, <3>7, <3>8 DEF SpendInv
  <2> QED
    BY <1>11, <2>2, <2>3 DEF RunBench
<1>12. ASSUME morning["scheduler"] # None, Goes("scheduler", BenchFails), launched' = launched
       PROVE  SpendInv'
  <2> DEFINE m == morning["scheduler"]
             failed == m.failed \cup {"bench"}
  <2>1. m \in Mornings /\ failed \in SUBSET {"weekly", "bench"}
    BY <1>0, <1>12 DEF Mornings
  <2>2. morning' = [morning EXCEPT !["scheduler"] = Upd(m, [at |-> "report", failed |-> failed])]
    BY <1>12 DEF Goes, Upd, BenchFails
  <2> HIDE DEF failed
  <2>3. Upd(m, [at |-> "report", failed |-> failed]).at = "report"
    BY <2>1, MorningFails DEF Places
  <2> QED
    BY <1>0, <1>10, <1>12, <2>2, <2>3 DEF Places
<1>13. CASE BenchRefused \/ BenchTimesOut
  BY <1>12, <1>13 DEF BenchRefused, BenchTimesOut, At
<1>14. CASE BenchReturns
  <2> DEFINE m == morning["scheduler"]
  <2>1. m \in Mornings /\ m # None /\ launched' = launched
    BY <1>0, <1>14 DEF BenchReturns, At
  <2>2. CASE Goes("scheduler", [at |-> "report"])
    <3>1. morning' = [morning EXCEPT !["scheduler"] = Upd(m, [at |-> "report"])]
      BY <2>2 DEF Goes, Upd
    <3>2. Upd(m, [at |-> "report"]).at = "report"
      BY <2>1, MorningAt DEF Places
    <3> QED
      BY <1>0, <1>10, <2>1, <3>1, <3>2 DEF Places
  <2> QED
    BY <1>12, <1>14, <2>1, <2>2 DEF BenchReturns
<1>15. CASE OperatorReports \/ BenchPosts
  <2>1. launched' = launched /\ morning'["scheduler"] = morning["scheduler"]
    BY <1>0, <1>15 DEF OperatorReports, BenchPosts
  <2> QED
    BY <1>9, <2>1
<1>16. ASSUME NEW t \in Tellers, launched' = launched, morning' = [morning EXCEPT ![t] = None]
       PROVE  SpendInv'
  BY <1>0, <1>6, <1>16 DEF At
<1>17. ASSUME NEW t \in Tellers, NEW fields, launched' = launched, morning[t] # None,
              \A m \in Mornings : Upd(m, fields).at \in Later,
              morning' = [morning EXCEPT ![t] = Upd(morning[t], fields)]
       PROVE  SpendInv'
  <2>1. CASE t = "scheduler"
    BY <1>0, <1>6, <1>17, <2>1 DEF At, Later
  <2>2. CASE t # "scheduler"
    BY <1>0, <1>9, <1>17, <2>2
  <2> QED
    BY <2>1, <2>2
<1>18. ASSUME NEW t \in Tellers, Report(t) \/ Deliver(t) \/ LoadSent(t) \/ SaveSent(t) \/ TellerDies(t)
       PROVE  SpendInv'
  <2>1. launched' = launched /\ morning[t] # None
    BY <1>18 DEF Report, Deliver, LoadSent, SaveSent, TellerDies, At
  <2>2. CASE morning' = [morning EXCEPT ![t] = None]
    BY <1>16, <2>1, <2>2
  <2>3. ASSUME NEW alert, Goes(t, [at |-> "deliver", alert |-> alert, today |-> day]) PROVE SpendInv'
    <3> DEFINE fields == [at |-> "deliver", alert |-> alert, today |-> day]
    <3>1. morning' = [morning EXCEPT ![t] = Upd(morning[t], fields)]
      BY <2>3 DEF Goes, Upd
    <3>2. \A m \in Mornings : Upd(m, fields).at \in Later
      BY DEF Upd, Mornings, Later
    <3> HIDE DEF fields
    <3> QED
      BY <1>17, <2>1, <3>1, <3>2
  <2>4. CASE Goes(t, [at |-> "load"])
    <3> DEFINE fields == [at |-> "load"]
    <3>1. morning' = [morning EXCEPT ![t] = Upd(morning[t], fields)]
      BY <2>4 DEF Goes, Upd
    <3>2. \A m \in Mornings : Upd(m, fields).at \in Later
      BY DEF Upd, Mornings, Later
    <3> HIDE DEF fields
    <3> QED
      BY <1>17, <2>1, <3>1, <3>2
  <2>5. CASE Goes(t, [at |-> "save", log |-> sent])
    <3> DEFINE fields == [at |-> "save", log |-> sent]
    <3>1. morning' = [morning EXCEPT ![t] = Upd(morning[t], fields)]
      BY <2>5 DEF Goes, Upd
    <3>2. \A m \in Mornings : Upd(m, fields).at \in Later
      BY DEF Upd, Mornings, Later
    <3> HIDE DEF fields
    <3> QED
      BY <1>17, <2>1, <3>1, <3>2
  <2>6. CASE Report(t)
    BY <2>2, <2>3, <2>6 DEF Report
  <2>7. CASE Deliver(t)
    BY <2>2, <2>4, <2>7 DEF Deliver
  <2>8. CASE LoadSent(t) \/ SaveSent(t) \/ TellerDies(t)
    BY <2>2, <2>5, <2>8 DEF LoadSent, SaveSent, TellerDies
  <2> QED
    BY <1>18, <2>6, <2>7, <2>8
<1>19. CASE UNCHANGED cadenceVars
  BY <1>9, <1>19 DEF cadenceVars
<1> QED
  BY <1>7, <1>8, <1>11, <1>13, <1>14, <1>15, <1>18, <1>19
  DEF CadenceNext, allVars, cadenceVars, Upgrade

\* Two benches of the scheduler are a week apart, less a day, unless it saw nothing of the first.
THEOREM BenchSpendIsSpaced == CadenceSpec => []SpendIsSpaced
<1>1. CadenceInit => SpendInv
  BY DEF CadenceInit, Init, CadenceIdle, SpendInv, StampInv, LaunchInv, WakeInv, SpendIsSpaced,
         At, Tellers
<1>2. SpendInv => SpendIsSpaced
  BY DEF SpendInv
<1> QED
  BY <1>1, <1>2, AlwaysTyped, AlwaysHonest, SpendMoves, PTL DEF CadenceSpec

-----------------------------------------------------------------------------
(* News.  The log of deliveries only grows, and a teller writes to the log *)
(* of what was sent only what it read there or has itself delivered, so    *)
(* every note ever held back against was said.                             *)

ToldIn(s, k, alert, at) ==
  \E i \in DOMAIN s : s[i].kind = k /\ s[i].alert = alert /\ s[i].at = at

\* The notes of a log were said.
Said(s, log) == \A k \in Kinds : log[k] # None => ToldIn(s, k, log[k].alert, log[k].at)

\* What a teller that has delivered is about to write down.
Backed(s, t, m) ==
  /\ m # None /\ m.at \in {"load", "save"} => ToldIn(s, KindOf(t), m.alert, m.today)
  /\ m # None /\ m.at = "save" => Said(s, m.log)

SaidInv == Said(said, sent) /\ \A t \in Tellers : Backed(said, t, morning[t])

LEMMA ToldStays ==
  ASSUME NEW s \in Seq(Say), NEW row \in Say
  PROVE  /\ ToldIn(Append(s, row), row.kind, row.alert, row.at)
         /\ \A k, alert, at : ToldIn(s, k, alert, at) => ToldIn(Append(s, row), k, alert, at)
<1> DEFINE r == Append(s, row)
<1>1. /\ Len(r) = Len(s) + 1 /\ Len(s) \in Nat
      /\ DOMAIN r = 1 .. Len(r) /\ DOMAIN s = 1 .. Len(s)
      /\ r[Len(s) + 1] = row /\ \A i \in DOMAIN s : r[i] = s[i]
  OBVIOUS
<1> HIDE DEF r
<1>2. Len(s) + 1 \in DOMAIN r /\ DOMAIN s \subseteq DOMAIN r
  BY <1>1
<1> QED
  BY <1>1, <1>2 DEF ToldIn, r

\* Where nothing is written down and nobody has come to write, the deliveries suffice.
LEMMA SaidKept ==
  ASSUME Typed, SaidInv, sent' = sent,
         said' = said \/ \E row \in Say : said' = Append(said, row),
         \A t \in Tellers : morning'[t] = morning[t] \/ Backed(said', t, morning'[t])
  PROVE  SaidInv'
<1>1. said \in Seq(Say)
  BY DEF Typed, CadenceTypeOK, Say, Kinds
<1>2. \A k, alert, at : ToldIn(said, k, alert, at) => ToldIn(said', k, alert, at)
  BY <1>1, ToldStays
<1>3. \A log : Said(said, log) => Said(said', log)
  BY <1>2 DEF Said
<1>4. \A t : \A m : Backed(said, t, m) => Backed(said', t, m)
  BY <1>2, <1>3 DEF Backed
<1> QED
  BY <1>3, <1>4 DEF SaidInv

LEMMA SaidMoves == Typed /\ SaidInv /\ [CadenceNext]_allVars => SaidInv'
<1> SUFFICES ASSUME Typed, SaidInv, [CadenceNext]_allVars PROVE SaidInv'
  OBVIOUS
<1>1. /\ morning \in [Tellers -> Mornings \cup {None}] /\ "scheduler" \in Tellers
      /\ "operator" \in Tellers /\ "bench" \in Tellers /\ None \notin Mornings
      /\ said \in Seq(Say) /\ sent \in Logs
  BY CadenceAssumption DEF Typed, CadenceTypeOK, Tellers, Say, Kinds
<1>2. ASSUME sent' = sent, said' = said, NEW t \in Tellers, NEW q,
             morning' = [morning EXCEPT ![t] = q], Backed(said, t, q)
      PROVE  SaidInv'
  <2>1. \A x \in Tellers : morning'[x] = morning[x] \/ Backed(said', x, morning'[x])
    BY <1>1, <1>2
  <2> QED
    BY <1>2, <2>1, SaidKept
<1>3. ASSUME NEW t \in Tellers, NEW q \in Mornings, q.at \in {"weekly", "bench", "wait", "report", "deliver"}
      PROVE  Backed(said, t, q)
  BY <1>3 DEF Backed
<1>4. \A t \in Tellers : Backed(said, t, None)
  BY DEF Backed
<1>5. ASSUME NEW t \in Tellers, morning[t] # None, sent' = sent, said' = said, NEW fields,
             Goes(t, fields), "at" \in DOMAIN fields,
             fields["at"] \in {"weekly", "bench", "wait", "report", "deliver"}
      PROVE  SaidInv'
  <2> DEFINE q == Upd(morning[t], fields)
  <2>1. morning' = [morning EXCEPT ![t] = q]
    BY <1>5 DEF Goes, Upd
  <2>2. q.at = fields["at"]
    <3>1. "at" \in DOMAIN morning[t]
      BY <1>1, <1>5 DEF Mornings
    <3> QED
      BY <1>5, <3>1 DEF Upd
  <2>3. Backed(said, t, q)
    BY <1>5, <2>2 DEF Backed
  <2> HIDE DEF q
  <2> QED
    BY <1>2, <1>5, <2>1, <2>3
<1>6. CASE Wakes
  <2>1. PICK f \in Evidence :
          LET due == When(WeeklyState # "ok", "weekly")
                     \cup When(BenchState(f, "scheduler") # "ok", "bench") IN
          morning' = [morning EXCEPT !["scheduler"] = [Begin("weekly", {}) EXCEPT
            !.due = due, !.seen = {g.stamp : g \in {h \in files : h.tracked}}]]
    BY <1>6 DEF Wakes
  <2>2. UNCHANGED <<sent, said>>
    BY <1>6 DEF Wakes
  <2>3. morning'["scheduler"].at = "weekly"
    BY <1>1, <2>1 DEF Begin
  <2>4. Backed(said', "scheduler", morning'["scheduler"])
    BY <2>3 DEF Backed
  <2>5. \A x \in Tellers : x # "scheduler" => morning'[x] = morning[x]
    BY <1>1, <2>1
  <2> QED
    BY <2>2, <2>4, <2>5, SaidKept
<1>7. CASE RunWeekly
  BY <1>1, <1>5, <1>7 DEF RunWeekly, At
<1>8. CASE RunBench
  BY <1>1, <1>5, <1>8 DEF RunBench, At
<1>9. CASE BenchRefused \/ BenchReturns \/ BenchTimesOut
  BY <1>1, <1>5, <1>9 DEF BenchRefused, BenchReturns, BenchTimesOut, BenchFails, At
<1>10. CASE OperatorReports \/ BenchPosts
  <2>1. UNCHANGED <<sent, said>>
    BY <1>10 DEF OperatorReports, BenchPosts
  <2>2. \E t \in Tellers : \E q : /\ morning' = [morning EXCEPT ![t] = q]
                                 /\ q.at \in {"report", "deliver"}
    <3>1. CASE OperatorReports
      <4>1. morning' = [morning EXCEPT !["operator"] = Begin("report", {})]
            /\ Begin("report", {}).at = "report"
        BY <3>1 DEF OperatorReports, Begin
      <4> QED
        BY <1>1, <4>1
    <3>2. CASE BenchPosts
      <4>1. PICK f \in files :
              morning' = [morning EXCEPT !["bench"] = Begin("deliver", {<<"result", f.stamp>>})]
        BY <3>2 DEF BenchPosts
      <4>2. Begin("deliver", {<<"result", f.stamp>>}).at = "deliver"
        BY DEF Begin
      <4> QED
        BY <1>1, <4>1, <4>2
    <3> QED
      BY <1>10, <3>1, <3>2
  <2>3. PICK t \in Tellers : \E q : /\ morning' = [morning EXCEPT ![t] = q]
                                  /\ q.at \in {"report", "deliver"}
    BY <2>2
  <2>4. PICK q : /\ morning' = [morning EXCEPT ![t] = q]
                 /\ q.at \in {"report", "deliver"}
    BY <2>3
  <2>5. Backed(said, t, q)
    BY <2>4 DEF Backed
  <2> QED
    BY <1>2, <2>1, <2>4, <2>5
<1>11. ASSUME NEW t \in Tellers, Report(t) PROVE SaidInv'
  <2>1. morning[t] # None /\ UNCHANGED <<sent, said>>
    BY <1>11 DEF Report, At
  <2>2. CASE morning' = [morning EXCEPT ![t] = None]
    BY <1>2, <1>4, <2>1, <2>2
  <2>3. ASSUME NEW alert, Goes(t, [at |-> "deliver", alert |-> alert, today |-> day]) PROVE SaidInv'
    BY <1>5, <2>1, <2>3
  <2> QED
    BY <1>11, <2>2, <2>3 DEF Report
<1>12. ASSUME NEW t \in Tellers, Deliver(t) PROVE SaidInv'
  <2> DEFINE m == morning[t]
             row == [kind |-> KindOf(t), alert |-> m.alert, at |-> m.today]
  <2>1. m \in Mornings /\ sent' = sent
    BY <1>1, <1>12 DEF Deliver, At
  <2>2. row \in Say /\ row.kind = KindOf(t) /\ row.alert = m.alert /\ row.at = m.today
    BY <2>1 DEF Say, Mornings, KindOf, Kinds
  <2> HIDE DEF row
  <2>3. CASE said' = Append(said, row) /\ Goes(t, [at |-> "load"])
    <3> DEFINE q == Upd(m, [at |-> "load"])
    <3>1. morning' = [morning EXCEPT ![t] = q]
      BY <2>3 DEF Goes, Upd
    <3>2. q.at = "load" /\ q.alert = m.alert /\ q.today = m.today
      BY <2>1, MorningAt DEF Places, Later, Held
    <3> HIDE DEF q
    <3>3. Backed(said', t, q)
      BY <1>1, <2>2, <2>3, <3>2, ToldStays DEF Backed
    <3>4. \A x \in Tellers : morning'[x] = morning[x] \/ Backed(said', x, morning'[x])
      BY <1>1, <3>1, <3>3
    <3> QED
      BY <2>1, <2>2, <2>3, <3>4, SaidKept
  <2>4. CASE morning' = [morning EXCEPT ![t] = None] /\ UNCHANGED said
    BY <1>2, <1>4, <2>1, <2>4
  <2> QED
    BY <1>12, <2>3, <2>4 DEF Deliver, row
<1>13. ASSUME NEW t \in Tellers, LoadSent(t) PROVE SaidInv'
  <2> DEFINE m == morning[t]
             q == Upd(m, [at |-> "save", log |-> sent])
  <2>1. m \in Mornings /\ m # None /\ m.at = "load"
    BY <1>1, <1>13 DEF LoadSent, At
  <2>2. morning' = [morning EXCEPT ![t] = q] /\ UNCHANGED <<sent, said>>
    BY <1>13 DEF LoadSent, Goes, Upd
  <2>3. q.at = "save" /\ q.log = sent /\ q.alert = m.alert /\ q.today = m.today
    BY <1>1, <2>1, MorningLoads
  <2>4. ToldIn(said, KindOf(t), m.alert, m.today) /\ Said(said, sent)
    BY <2>1 DEF SaidInv, Backed
  <2> HIDE DEF q
  <2>5. Backed(said, t, q)
    BY <2>3, <2>4 DEF Backed
  <2> QED
    BY <1>2, <2>2, <2>5
<1>14. ASSUME NEW t \in Tellers, SaveSent(t) PROVE SaidInv'
  <2> DEFINE m == morning[t]
  <2>1. m \in Mornings /\ m # None /\ m.at = "save" /\ m.log \in Logs
    BY <1>1, <1>14 DEF SaveSent, At, Typed, CadenceTypeOK
  <2>2. /\ sent' = [m.log EXCEPT ![KindOf(t)] = [alert |-> m.alert, at |-> m.today]]
        /\ morning' = [morning EXCEPT ![t] = None] /\ UNCHANGED said
    BY <1>14 DEF SaveSent
  <2>3. ToldIn(said, KindOf(t), m.alert, m.today) /\ Said(said, m.log)
    BY <2>1 DEF SaidInv, Backed
  <2>4. ASSUME NEW k \in Kinds, sent'[k] # None PROVE ToldIn(said, k, sent'[k].alert, sent'[k].at)
    <3>1. CASE k = KindOf(t)
      <4>1. sent'[k] = [alert |-> m.alert, at |-> m.today]
        BY <2>1, <2>2, <3>1 DEF Logs, Kinds
      <4> QED
        BY <2>3, <3>1, <4>1
    <3>2. CASE k # KindOf(t)
      <4>1. sent'[k] = m.log[k]
        BY <2>1, <2>2, <3>2 DEF Logs, Kinds
      <4> QED
        BY <2>3, <2>4, <4>1 DEF Said
    <3> QED
      BY <3>1, <3>2
  <2>5. Said(said', sent')
    BY <2>2, <2>4 DEF Said
  <2>6. \A x \in Tellers : Backed(said', x, morning'[x])
    BY <1>1, <1>4, <2>2 DEF SaidInv
  <2> QED
    BY <2>5, <2>6 DEF SaidInv
<1>15. ASSUME NEW t \in Tellers, TellerDies(t) PROVE SaidInv'
  BY <1>2, <1>4, <1>15 DEF TellerDies
<1>16. CASE UNCHANGED cadenceVars
  BY <1>16, SaidKept DEF cadenceVars
<1> QED
  BY <1>6, <1>7, <1>8, <1>9, <1>10, <1>11, <1>12, <1>13, <1>14, <1>15, <1>16
  DEF CadenceNext, allVars, cadenceVars, Upgrade

\* A teller that stops at its report, with nothing having failed, is at its own Report.
LEMMA OnlyReportSilences ==
  ASSUME Typed, CadenceNext, NEW t \in Tellers, At(t, "report"), morning'[t] = None,
         faults' = faults, NEW f, Evidence = {f}, Alert(t, f) # {}
  PROVE  Repeats("cadence", Alert(t, f))
<1>1. /\ morning \in [Tellers -> Mornings \cup {None}] /\ "scheduler" \in Tellers
      /\ "operator" \in Tellers /\ "bench" \in Tellers /\ None \notin Mornings
      /\ morning[t] # None /\ morning[t].at = "report" /\ faults \in Nat
  BY BenchAssumption, CadenceAssumption DEF Typed, CadenceTypeOK, TypeOK, Tellers, At
<1>2. ASSUME NEW x \in Tellers, NEW q, morning' = [morning EXCEPT ![x] = q], x = t => q # None
      PROVE  FALSE
  BY <1>1, <1>2
<1>3. ASSUME NEW x \in Tellers, NEW q \in Mornings, morning' = [morning EXCEPT ![x] = q]
      PROVE  FALSE
  BY <1>1, <1>2, <1>3
<1>4. ~ (Wakes \/ OperatorReports \/ BenchPosts)
  <2>1. ~ Wakes
    BY <1>1 DEF Wakes
  <2>2. ~ OperatorReports
    BY <1>1 DEF OperatorReports
  <2> QED
    BY <1>1, <2>1, <2>2 DEF BenchPosts
<1>5. ~ (RunWeekly \/ RunBench \/ BenchRefused \/ BenchReturns \/ BenchTimesOut)
  <2>1. ASSUME At("scheduler", "weekly") \/ At("scheduler", "bench") \/ At("scheduler", "wait"),
               NEW q, morning' = [morning EXCEPT !["scheduler"] = q]
        PROVE  FALSE
    BY <1>1, <1>2, <2>1 DEF At
  <2> QED
    BY <2>1 DEF RunWeekly, RunBench, BenchRefused, BenchReturns, BenchTimesOut, Goes
<1>6. ASSUME NEW x \in Tellers, Deliver(x) \/ LoadSent(x) \/ SaveSent(x) PROVE FALSE
  <2>1. x # t
    BY <1>1, <1>6 DEF Deliver, LoadSent, SaveSent, At
  <2>2. \E q : morning' = [morning EXCEPT ![x] = q]
    BY <1>6 DEF Deliver, LoadSent, SaveSent, Goes
  <2> QED
    BY <1>2, <2>1, <2>2
<1>7. ASSUME NEW x \in Tellers, TellerDies(x) PROVE FALSE
  BY <1>1, <1>7 DEF TellerDies, Fault
<1>8. ASSUME UNCHANGED cadenceVars PROVE FALSE
  BY <1>1, <1>8 DEF cadenceVars
<1>9. PICK x \in Tellers : Report(x)
  BY <1>4, <1>5, <1>6, <1>7, <1>8 DEF CadenceNext, Upgrade
<1>10. x = t
  <2>1. \E q : morning' = [morning EXCEPT ![x] = q]
    BY <1>9 DEF Report, Goes
  <2> QED
    BY <1>2, <2>1
<1>11. ~ Goes(t, [at |-> "deliver", alert |-> Alert(t, f), today |-> day])
  <2> DEFINE alert == Alert(t, f)
             q == Upd(morning[t], [at |-> "deliver", alert |-> alert, today |-> day])
  <2>1. t \in Who /\ f \in Evidence /\ day \in 0 .. MaxDay
    BY <1>1 DEF Typed, TypeOK, Later, Tellers, Who
  <2>2. alert \in SUBSET Facts
    BY <1>1, <2>1, AlertType
  <2> HIDE DEF alert
  <2>3. q \in Mornings
    BY <1>1, <2>1, <2>2, MorningSpeaks
  <2> SUFFICES ASSUME Goes(t, [at |-> "deliver", alert |-> alert, today |-> day]) PROVE FALSE
    BY DEF alert
  <2>4. morning' = [morning EXCEPT ![t] = q]
    BY DEF Goes, Upd
  <2> HIDE DEF q
  <2> QED
    BY <1>3, <2>3, <2>4
<1> QED
  BY <1>9, <1>10, <1>11 DEF Report

\* An alert is held back only when it was delivered less than Repeat days ago.
THEOREM NewsIsNeverDelayed == CadenceSpec => NewsIsSaid
<1>1. CadenceInit => SaidInv
  BY DEF CadenceInit, CadenceIdle, SaidInv, Said, Backed, Kinds
<1>2. ASSUME Typed, SaidInv, CadenceNext, NEW t \in Tellers, NEW f \in Evidence,
             At(t, "report"), morning'[t] = None, faults' = faults,
             Evidence = {f}, Alert(t, f) # {}
      PROVE  \E i \in DOMAIN said : /\ said[i].kind = "cadence" /\ said[i].alert = Alert(t, f)
                                    /\ day - said[i].at < Repeat
  <2>1. Repeats("cadence", Alert(t, f))
    BY <1>2, OnlyReportSilences
  <2>2. ToldIn(said, "cadence", sent["cadence"].alert, sent["cadence"].at)
    BY <1>2, <2>1 DEF SaidInv, Said, Repeats, Kinds
  <2> QED
    BY <2>1, <2>2 DEF ToldIn, Repeats
<1>3. ASSUME Typed, SaidInv, CadenceNext
      PROVE  \A t \in Tellers : \A f \in Evidence :
               /\ At(t, "report") /\ morning'[t] = None /\ faults' = faults
               /\ Evidence = {f} /\ Alert(t, f) # {}
               => \E i \in DOMAIN said : /\ said[i].kind = "cadence" /\ said[i].alert = Alert(t, f)
                                         /\ day - said[i].at < Repeat
  BY <1>2, <1>3
<1>4. Typed /\ SaidInv /\ [CadenceNext]_allVars
      => [\A t \in Tellers : \A f \in Evidence :
             /\ At(t, "report") /\ morning'[t] = None /\ faults' = faults
             /\ Evidence = {f} /\ Alert(t, f) # {}
             => \E i \in DOMAIN said : /\ said[i].kind = "cadence" /\ said[i].alert = Alert(t, f)
                                       /\ day - said[i].at < Repeat]_allVars
  BY <1>3
<1> QED
  BY <1>1, <1>4, AlwaysTyped, SaidMoves, PTL DEF CadenceSpec, NewsIsSaid

-----------------------------------------------------------------------------
(* Incident maintenance.                                                   *)

Skill == [status: {"proposed", "approved"}, class: Classes, body: Incidents,
          instances: SUBSET Incidents]

-----------------------------------------------------------------------------
(* Shapes.                                                                 *)

LEMMA SkillShape ==
  ASSUME MaintenanceTypeOK, NEW n \in Names, skills[n].status # "none"
  PROVE  skills[n] \in Skill
<1>1. skills[n] \in {NoSkill} \cup Skill
  BY DEF MaintenanceTypeOK, Skill
<1> QED
  BY <1>1 DEF NoSkill

LEMMA LastOfType ==
  ASSUME NEW h \in Seq(Incidents)
  PROVE  /\ LastOf(h) \in Seq(Incidents)
         /\ Len(LastOf(h)) = IF Len(h) > MaxHistory THEN MaxHistory ELSE Len(h)
         /\ \A k \in 1..Len(LastOf(h)) : LastOf(h)[k] = h[k + (Len(h) - Len(LastOf(h)))]
<1> DEFINE m == IF Len(h) > MaxHistory THEN Len(h) - MaxHistory + 1 ELSE 1
<1>1. m \in Nat \ {0} /\ Len(h) \in Nat /\ m <= Len(h) + 1
  BY MaintenanceAssumption
<1>2. \A k \in m .. Len(h) : h[k] \in Incidents
  BY <1>1
<1>3. /\ SubSeq(h, m, Len(h)) \in Seq(Incidents)
      /\ Len(SubSeq(h, m, Len(h))) = IF m <= Len(h) THEN Len(h) - m + 1 ELSE 0
      /\ \A k \in 1 .. Len(h) - m + 1 : SubSeq(h, m, Len(h))[k] = h[m+k-1]
  BY <1>1, <1>2, SubSeqProperties
<1>4. LastOf(h) = SubSeq(h, m, Len(h))
  BY DEF LastOf
<1>5. Len(LastOf(h)) = Len(h) - m + 1
  BY <1>1, <1>3, <1>4
<1>6. Len(LastOf(h)) = IF Len(h) > MaxHistory THEN MaxHistory ELSE Len(h)
  BY <1>1, <1>5, MaintenanceAssumption
<1>7. ASSUME NEW k \in 1..Len(LastOf(h))
      PROVE  LastOf(h)[k] = h[k + (Len(h) - Len(LastOf(h)))]
  <2>1. k + (Len(h) - Len(LastOf(h))) = m + k - 1
    BY <1>1, <1>5
  <2> QED
    BY <1>1, <1>3, <1>4, <1>5, <2>1
<1> QED
  BY <1>3, <1>4, <1>6, <1>7

LEMMA EntriesAreFinite ==
  ASSUME NEW h \in Seq(Incidents)
  PROVE  Entries(h) \subseteq Incidents /\ IsFiniteSet(Entries(h))
<1>1. h \in [1..Len(h) -> Incidents] /\ Len(h) \in Nat
  OBVIOUS
<1>2. IsFiniteSet(1..Len(h))
  BY <1>1, FS_Interval
<1>3. Entries(h) \subseteq Incidents
  BY <1>1 DEF Entries
<1>4. h \in Surjection(1..Len(h), Entries(h))
  BY <1>1 DEF Entries, Surjection
<1> QED
  BY <1>2, <1>3, <1>4, FS_Surjection

-----------------------------------------------------------------------------
(* Types.                                                                  *)

Marks == GraphNodes \cup {"nothing", "done"}
Nodes == GraphNodes \cup {"none", "input", "save", "draft", "write", "final", "check"}
Weights == Priorities \cup {"none"}
Stored == [next: Marks, priority: Weights]

LEMMA TypesOfProcs ==
  ASSUME MaintenanceTypeOK
  PROVE  /\ pc \in [Procs -> Nodes] /\ priority \in [Procs -> Weights] /\ seen \in [Procs -> Seen]
         /\ stored \in [Incidents -> Stored] /\ final \in [Incidents -> BOOLEAN]
         /\ \A p \in Procs : p[1] \in Incidents
BY MaintenanceAssumption DEF MaintenanceTypeOK, Nodes, Marks, Weights, Stored

\* A checkpoint leads to a node of the graph, and so does the process.
LEMMA CheckpointTypes ==
  ASSUME MaintenanceTypeOK, NEW i \in Incidents, NEW next \in Marks, NEW f \in Weights,
         Checkpoint(i, next, f)
  PROVE  stored' \in [Incidents -> Stored]
<1>1. [next |-> next, priority |-> f] \in Stored
  BY DEF Stored
<1> QED
  BY <1>1, TypesOfProcs DEF Checkpoint

LEMMA AdvanceTypes ==
  ASSUME MaintenanceTypeOK, NEW p \in Procs, NEW next \in GraphNodes, NEW f \in Weights,
         Advance(p, next, f)
  PROVE  pc' \in [Procs -> Nodes] /\ stored' \in [Incidents -> Stored]
<1>1. next \in Nodes /\ next \in Marks
  BY DEF Marks, Nodes
<1>2. stored' \in [Incidents -> Stored]
  BY <1>1, CheckpointTypes, TypesOfProcs DEF Advance
<1> QED
  BY <1>1, <1>2, TypesOfProcs DEF Advance

LEMMA ExitTypes ==
  ASSUME MaintenanceTypeOK, NEW p \in Procs, Exit(p)
  PROVE  pc' \in [Procs -> Nodes] /\ priority' \in [Procs -> Weights] /\ seen' \in [Procs -> Seen]
<1>1. "none" \in Nodes /\ "none" \in Weights /\ NotSeen \in Seen
  BY DEF Nodes, Weights, NotSeen, Seen
<1> QED
  BY <1>1, TypesOfProcs DEF Exit

\* Budgets are only spent.
LEMMA SpendTypes ==
  ASSUME MaintenanceTypeOK, NEW e \in Events, Spend(e)
  PROVE  left' \in [Events -> Nat]
BY DEF Spend, MaintenanceTypeOK

\* What was approved for this class is a skill file.
LEMMA MatchingShape ==
  ASSUME MaintenanceTypeOK, NEW i, NEW n \in Matching(i)
  PROVE  n \in Names /\ skills[n] \in Skill /\ skills[n].body \in Incidents
<1>1. n \in Names /\ skills[n].status # "none"
  BY DEF Matching
<1>2. skills[n] \in Skill
  BY <1>1, SkillShape
<1> QED
  BY <1>1, <1>2 DEF Skill

LEMMA InitTypes == MaintenanceInit => MaintenanceTypeOK
<1> SUFFICES ASSUME MaintenanceInit PROVE MaintenanceTypeOK
  OBVIOUS
<1>1. history \in Seq(Incidents) /\ NotSeen \in Seen
  BY DEF MaintenanceInit, Seen, NotSeen
<1>2. left \in [Events -> Nat]
  BY MaintenanceAssumption DEF MaintenanceInit
<1> QED
  BY <1>1, <1>2 DEF MaintenanceInit, MaintenanceTypeOK

\* Each step of the graph keeps the types.
LEMMA StepTypes ==
  ASSUME MaintenanceTypeOK, NEW p \in Procs, Step(p) PROVE MaintenanceTypeOK'
<1> USE MaintenanceAssumption
<1>0. p[1] \in Incidents /\ priority[p] \in Weights /\ seen[p] \in Seen
  BY TypesOfProcs
<1>1. CASE Gather(p)
  <2>1. "none" \in Weights /\ "triage" \in GraphNodes
    BY DEF Weights, GraphNodes
  <2>2. pc' \in [Procs -> Nodes] /\ stored' \in [Incidents -> Stored]
    BY <1>1, <2>1, AdvanceTypes DEF Gather
  <2> QED
    BY <1>1, <2>2 DEF Gather, MaintenanceTypeOK, Nodes, Stored, Marks, Weights
<1>2. CASE TriageNode(p)
  <2>1. PICK f \in Priorities :
          priority' = [priority EXCEPT ![p] = f] /\ Advance(p, "learned", f)
    BY <1>2 DEF TriageNode
  <2>2. f \in Weights /\ "learned" \in GraphNodes
    BY DEF Weights, GraphNodes
  <2>3. pc' \in [Procs -> Nodes] /\ stored' \in [Incidents -> Stored]
    BY <2>1, <2>2, AdvanceTypes
  <2>4. priority' \in [Procs -> Weights]
    BY <2>1, <2>2, TypesOfProcs
  <2> QED
    BY <1>2, <2>3, <2>4 DEF TriageNode, MaintenanceTypeOK, Nodes, Stored, Marks, Weights
<1>3. CASE LearnedNode(p)
  <2>1. PICK n \in Matching(p[1]) \cup {"none"} :
          applied' = IF n = "none" THEN applied ELSE applied \cup {<<n, skills[n].body>>}
    BY <1>3 DEF LearnedNode
  <2>2. n # "none" => n \in Names /\ skills[n].body \in Incidents
    BY MatchingShape
  <2>3. applied' \subseteq Names \X Incidents
    BY <2>1, <2>2 DEF MaintenanceTypeOK
  <2>4. (IF priority[p] = "P4" THEN "finalize" ELSE "root_cause") \in GraphNodes
    BY DEF GraphNodes
  <2>5. pc' \in [Procs -> Nodes] /\ stored' \in [Incidents -> Stored]
    BY <1>0, <1>3, <2>4, AdvanceTypes DEF LearnedNode
  <2> QED
    BY <1>3, <2>3, <2>5 DEF LearnedNode, MaintenanceTypeOK, Nodes, Stored, Marks, Weights
<1>4. CASE RootCauseNode(p)
  <2>1. "finalize" \in GraphNodes
    BY DEF GraphNodes
  <2>2. pc' \in [Procs -> Nodes] /\ stored' \in [Incidents -> Stored]
    BY <1>0, <1>4, <2>1, AdvanceTypes DEF RootCauseNode
  <2> QED
    BY <1>4, <2>2 DEF RootCauseNode, MaintenanceTypeOK, Nodes, Stored, Marks, Weights
<1>5. CASE HistoryLoad(p)
  <2>1. [copy |-> history, similar |-> {j \in Entries(history) \ {p[1]} : Class[j] = Class[p[1]]}]
          \in Seen
    BY EntriesAreFinite DEF MaintenanceTypeOK, Seen
  <2>2. seen' \in [Procs -> Seen]
    BY <1>5, <2>1, TypesOfProcs DEF HistoryLoad
  <2> QED
    BY <1>5, <2>2 DEF HistoryLoad, MaintenanceTypeOK
<1>6. CASE HistorySave(p)
  <2>1. Append(seen[p].copy, p[1]) \in Seq(Incidents)
    BY <1>0 DEF Seen
  <2>2. history' \in Seq(Incidents)
    BY <1>6, <2>1, LastOfType DEF HistorySave
  <2> QED
    BY <1>6, <2>2 DEF HistorySave, MaintenanceTypeOK
<1>7. CASE DraftCheck(p)
  BY <1>7 DEF DraftCheck, MaintenanceTypeOK
<1>8. CASE DraftWrite(p)
  <2>1. Draft(p) \in Skill
    BY <1>0 DEF Draft, Seen, Skill, Classes
  <2>2. skills \in [Names -> {NoSkill} \cup Skill]
    BY DEF MaintenanceTypeOK, Skill
  <2>3. skills' \in [Names -> {NoSkill} \cup Skill]
    BY <1>8, <2>1, <2>2 DEF DraftWrite
  <2> QED
    BY <1>8, <2>3 DEF DraftWrite, MaintenanceTypeOK, Skill
<1>9. CASE WriteFinal(p)
  <2>1. "done" \in Marks
    BY DEF Marks
  <2>2. stored' \in [Incidents -> Stored]
    BY <1>0, <1>9, <2>1, CheckpointTypes DEF WriteFinal
  <2>3. pc' \in [Procs -> Nodes] /\ priority' \in [Procs -> Weights] /\ seen' \in [Procs -> Seen]
    BY <1>9, ExitTypes DEF WriteFinal
  <2> QED
    BY <1>9, <2>2, <2>3 DEF WriteFinal, MaintenanceTypeOK, Nodes, Stored, Marks, Weights
<1>10. CASE RecoverLoad(p)
  <2>1. CASE stored[p[1]].next \notin GraphNodes
    <3>1. pc' \in [Procs -> Nodes] /\ priority' \in [Procs -> Weights] /\ seen' \in [Procs -> Seen]
      BY <1>10, <2>1, ExitTypes DEF RecoverLoad
    <3> QED
      BY <1>10, <3>1 DEF RecoverLoad, MaintenanceTypeOK, Nodes, Weights
  <2>2. CASE stored[p[1]].next \in GraphNodes
    <3>1. stored[p[1]].priority \in Weights
      BY <1>0, TypesOfProcs DEF Stored
    <3>2. stored[p[1]].next \in Nodes
      BY <2>2 DEF Nodes
    <3> QED
      BY <1>10, <2>2, <3>1, <3>2 DEF RecoverLoad, MaintenanceTypeOK, Nodes, Weights
  <2> QED
    BY <2>1, <2>2
<1> QED
  BY <1>1, <1>2, <1>3, <1>4, <1>5, <1>6, <1>7, <1>8, <1>9, <1>10 DEF Step

LEMMA NextTypes == MaintenanceTypeOK /\ [MaintenanceNext]_maintenanceVars => MaintenanceTypeOK'
<1> SUFFICES ASSUME MaintenanceTypeOK, [MaintenanceNext]_maintenanceVars PROVE MaintenanceTypeOK'
  OBVIOUS
<1>1. ASSUME NEW p \in Procs, Triage(p) PROVE MaintenanceTypeOK'
  <2>1. left' \in [Events -> Nat]
    BY <1>1, SpendTypes DEF Triage, Events
  <2> QED
    BY <1>1, <2>1 DEF Triage, MaintenanceTypeOK
<1>2. ASSUME NEW p \in Procs, Step(p) PROVE MaintenanceTypeOK'
  BY <1>2, StepTypes
<1>3. ASSUME NEW p \in Procs, Crash(p) PROVE MaintenanceTypeOK'
  <2>1. left' \in [Events -> Nat]
    BY <1>3, SpendTypes DEF Crash, Events
  <2>2. pc' \in [Procs -> Nodes] /\ priority' \in [Procs -> Weights] /\ seen' \in [Procs -> Seen]
    BY <1>3, ExitTypes DEF Crash
  <2> QED
    BY <1>3, <2>1, <2>2 DEF Crash, MaintenanceTypeOK, Nodes, Weights
<1>4. ASSUME NEW p \in Procs, RecoverCheck(p) PROVE MaintenanceTypeOK'
  <2>1. left' \in [Events -> Nat]
    BY <1>4, SpendTypes DEF RecoverCheck, Events, MaintenanceTypeOK
  <2> QED
    BY <1>4, <2>1 DEF RecoverCheck, MaintenanceTypeOK
<1>5. ASSUME NEW n \in Names, Approve(n) PROVE MaintenanceTypeOK'
  <2>1. skills[n] \in Skill
    BY <1>5, SkillShape DEF Approve
  <2>2. [skills[n] EXCEPT !.status = "approved"] \in Skill /\ skills[n].body \in Incidents
    BY <2>1 DEF Skill
  <2>3. skills \in [Names -> {NoSkill} \cup Skill]
    BY DEF MaintenanceTypeOK, Skill
  <2>4. skills' \in [Names -> {NoSkill} \cup Skill]
    BY <1>5, <2>2, <2>3 DEF Approve
  <2>5. blessed' \subseteq Names \X Incidents
    BY <1>5, <2>2 DEF Approve, MaintenanceTypeOK
  <2> QED
    BY <1>5, <2>4, <2>5 DEF Approve, MaintenanceTypeOK, Skill
<1>6. CASE UNCHANGED maintenanceVars
  BY <1>6 DEF maintenanceVars, MaintenanceTypeOK
<1> QED
  BY <1>1, <1>2, <1>3, <1>4, <1>5, <1>6 DEF MaintenanceNext

\* Processes, checkpoints, history and skill files keep their shapes, however
\* triages, crashes, recoveries beside live runs and approvals interleave.
THEOREM MaintenanceTypeCorrect == MaintenanceSpec => []MaintenanceTypeOK
<1>1. MaintenanceInit => MaintenanceTypeOK
  BY InitTypes
<1>2. MaintenanceTypeOK /\ [MaintenanceNext]_maintenanceVars => MaintenanceTypeOK'
  BY NextTypes
<1> QED
  BY <1>1, <1>2, PTL DEF MaintenanceSpec

-----------------------------------------------------------------------------
(* Only what a human approved is given to an investigation.                *)

\* A file that reads approved was approved with the body it has: a draft over it
\* turns it back to proposed, and only a human turns that to approved.
BlessInv ==
  /\ applied \subseteq blessed
  /\ \A n \in Names : skills[n].status = "approved" => <<n, skills[n].body>> \in blessed

LEMMA NextBlessed == MaintenanceTypeOK /\ BlessInv /\ [MaintenanceNext]_maintenanceVars => BlessInv'
<1> SUFFICES ASSUME MaintenanceTypeOK, BlessInv, [MaintenanceNext]_maintenanceVars PROVE BlessInv'
  OBVIOUS
<1>1. CASE UNCHANGED <<skills, blessed, applied>>
  BY <1>1 DEF BlessInv
<1>2. ASSUME NEW p \in Procs, LearnedNode(p) PROVE BlessInv'
  BY <1>2 DEF LearnedNode, Matching, BlessInv
<1>3. ASSUME NEW p \in Procs, DraftWrite(p) PROVE BlessInv'
  <2>1. skills \in [Names -> {NoSkill} \cup Skill]
    BY DEF MaintenanceTypeOK, Skill
  <2>2. ASSUME NEW n \in Names, skills'[n].status = "approved"
        PROVE  skills'[n] = skills[n]
    BY <1>3, <2>1, <2>2 DEF DraftWrite, Draft
  <2> QED
    BY <1>3, <2>2 DEF DraftWrite, BlessInv
<1>4. ASSUME NEW m \in Names, Approve(m) PROVE BlessInv'
  <2>1. skills \in [Names -> {NoSkill} \cup Skill] /\ skills[m] \in Skill
    BY <1>4, SkillShape DEF MaintenanceTypeOK, Skill, Approve
  <2>2. skills'[m].body = skills[m].body
    BY <1>4, <2>1 DEF Approve, Skill
  <2>3. \A n \in Names \ {m} : skills'[n] = skills[n]
    BY <1>4, <2>1 DEF Approve
  <2> QED
    BY <1>4, <2>2, <2>3 DEF Approve, BlessInv
<1> QED
  BY <1>1, <1>2, <1>3, <1>4
  DEF MaintenanceNext, Step, maintenanceVars, Triage, Gather, TriageNode, RootCauseNode, HistoryLoad, HistorySave,
      DraftCheck, WriteFinal, RecoverLoad, Crash, RecoverCheck

\* "Only skills a human flips to approved are ever injected" (skills_registry.py):
\* whatever is drafted, by whoever at the same time, over a file of the same name.
THEOREM OnlyApprovedIsEverInjected == MaintenanceSpec => []OnlyApprovedIsInjected
<1>1. MaintenanceInit => MaintenanceTypeOK /\ BlessInv
  BY InitTypes DEF MaintenanceInit, BlessInv, NoSkill
<1>2. MaintenanceTypeOK /\ BlessInv /\ [MaintenanceNext]_maintenanceVars => (MaintenanceTypeOK /\ BlessInv)'
  BY NextTypes, NextBlessed
<1>3. BlessInv => OnlyApprovedIsInjected
  BY DEF BlessInv, OnlyApprovedIsInjected
<1> QED
  BY <1>1, <1>2, <1>3, PTL DEF MaintenanceSpec

-----------------------------------------------------------------------------
(* Drafts are earned.                                                      *)

\* What finalize counted as similar: other incidents of the class.
Similar(p) ==
  /\ IsFiniteSet(seen[p].similar)
  /\ p[1] \notin seen[p].similar
  /\ \A j \in seen[p].similar : Class[j] = Class[p[1]]

Earned(n) ==
  skills[n].status # "none" =>
    /\ Cardinality(skills[n].instances) >= RecurrenceThreshold
    /\ \A j \in skills[n].instances : Class[j] = skills[n].class

Unique ==
  \A n, m \in Names : skills[n].status # "none" /\ skills[m].status # "none"
                      /\ skills[n].class = skills[m].class => n = m

DraftInv ==
  /\ \A p \in Procs : pc[p] \in {"save", "draft", "write"} => Similar(p)
  /\ \A p \in Procs : pc[p] = "write" => Recurs(p)
  /\ \A n \in Names : Earned(n)
  /\ raced \/ Unique

\* The loaded history gives distinct other incidents of the class.
LEMMA LoadIsSimilar ==
  ASSUME MaintenanceTypeOK, NEW p \in Procs, HistoryLoad(p)
  PROVE  Similar(p)'
<1> DEFINE sim == {j \in Entries(history) \ {p[1]} : Class[j] = Class[p[1]]}
<1>1. seen'[p].similar = sim
  BY DEF HistoryLoad, MaintenanceTypeOK, Seen
<1>2. IsFiniteSet(sim)
  BY EntriesAreFinite, FS_Subset DEF MaintenanceTypeOK
<1> QED
  BY <1>1, <1>2 DEF Similar

\* The draft of a class that recurs stands for that many distinct incidents.
LEMMA DraftIsEarned ==
  ASSUME MaintenanceTypeOK, NEW p \in Procs, Similar(p), Recurs(p)
  PROVE  /\ Cardinality(seen[p].similar \cup {p[1]}) >= RecurrenceThreshold
         /\ \A j \in seen[p].similar \cup {p[1]} : Class[j] = Class[p[1]]
BY FS_AddElement DEF Similar, Recurs

LEMMA NextDrafts == MaintenanceTypeOK /\ DraftInv /\ [MaintenanceNext]_maintenanceVars => DraftInv'
<1> SUFFICES ASSUME MaintenanceTypeOK, DraftInv, [MaintenanceNext]_maintenanceVars PROVE DraftInv'
  OBVIOUS
<1>0. pc \in [Procs -> Nodes] /\ seen \in [Procs -> Seen]
      /\ skills \in [Names -> {NoSkill} \cup Skill]
  BY TypesOfProcs DEF MaintenanceTypeOK, Skill
<1>1. ASSUME NEW p \in Procs, HistoryLoad(p) PROVE DraftInv'
  <2>1. Similar(p)'
    BY <1>1, LoadIsSimilar
  <2>2. \A q \in Procs \ {p} : pc'[q] = pc[q] /\ seen'[q] = seen[q]
    BY <1>0, <1>1 DEF HistoryLoad
  <2>3. pc'[p] # "write"
    BY <1>0, <1>1 DEF HistoryLoad
  <2>4. (\A n \in Names : Earned(n))' /\ (raced' \/ Unique')
    BY <1>1 DEF HistoryLoad, DraftInv, Earned, Unique
  <2>5. ASSUME NEW q \in Procs \ {p}
        PROVE  /\ pc'[q] \in {"save", "draft", "write"} => Similar(q)'
               /\ pc'[q] = "write" => Recurs(q)'
    BY <2>2 DEF DraftInv, Similar, Recurs
  <2> QED
    BY <2>1, <2>3, <2>4, <2>5 DEF DraftInv
<1>2. ASSUME NEW p \in Procs, DraftCheck(p) PROVE DraftInv'
  <2>1. Similar(p) /\ seen' = seen
    BY <1>2 DEF DraftCheck, DraftInv
  <2>2. \A q \in Procs \ {p} : pc'[q] = pc[q]
    BY <1>0, <1>2 DEF DraftCheck
  <2>3. pc'[p] = "write" => Recurs(p)
    BY <1>0, <1>2 DEF DraftCheck
  <2> QED
    BY <1>2, <2>1, <2>2, <2>3 DEF DraftCheck, DraftInv, Similar, Recurs, Earned, Unique
<1>3. ASSUME NEW p \in Procs, DraftWrite(p) PROVE DraftInv'
  <2>1. Similar(p) /\ Recurs(p) /\ seen' = seen
    BY <1>3 DEF DraftWrite, DraftInv
  <2>2. \A q \in Procs : pc'[q] \in {"save", "draft", "write"} => pc'[q] = pc[q]
    BY <1>0, <1>3 DEF DraftWrite
  <2>3. (\A q \in Procs : pc'[q] \in {"save", "draft", "write"} => Similar(q)')
        /\ (\A q \in Procs : pc'[q] = "write" => Recurs(q)')
    BY <2>1, <2>2 DEF DraftInv, Similar, Recurs
  <2>4. CASE UNCHANGED skills
    BY <1>3, <2>3, <2>4 DEF DraftWrite, DraftInv, Earned, Unique
  <2>5. ASSUME NEW n \in Names, skills' = [skills EXCEPT ![n] = Draft(p)] PROVE DraftInv'
    <3>1. skills'[n] = Draft(p) /\ \A m \in Names \ {n} : skills'[m] = skills[m]
      BY <1>0, <2>5
    <3>2. \A m \in Names : Earned(m)'
      BY <2>1, <3>1, DraftIsEarned DEF DraftInv, Earned, Draft
    <3>3. ~ raced' => Unique'
      <4> SUFFICES ASSUME ~ raced' PROVE Unique'
        OBVIOUS
      <4>1. ~ raced /\ ~ Covered(Class[p[1]])
        BY <1>3 DEF DraftWrite
      <4> QED
        BY <3>1, <4>1 DEF DraftInv, Unique, Covered, Draft
    <3> QED
      BY <2>3, <3>2, <3>3 DEF DraftInv
  <2> QED
    BY <1>3, <2>4, <2>5 DEF DraftWrite
<1>4. ASSUME NEW m \in Names, Approve(m) PROVE DraftInv'
  <2>1. skills[m] \in Skill
    BY <1>4, SkillShape DEF Approve
  <2>2. skills'[m].class = skills[m].class /\ skills'[m].instances = skills[m].instances
        /\ \A n \in Names \ {m} : skills'[n] = skills[n]
    BY <1>0, <1>4, <2>1 DEF Approve, Skill
  <2>3. \A n \in Names : skills'[n].status # "none" => skills[n].status # "none"
    BY <1>4, <2>2 DEF Approve
  <2> QED
    BY <1>4, <2>2, <2>3 DEF Approve, DraftInv, Similar, Recurs, Earned, Unique
<1>5. CASE /\ skills' = skills /\ (raced => raced')
           /\ \A p \in Procs : pc'[p] \in {"save", "draft", "write"} =>
                /\ seen'[p] = seen[p]
                /\ pc[p] \in {"save", "draft", "write"} /\ (pc'[p] = "write" => pc[p] = "write")
  BY <1>5 DEF DraftInv, Similar, Recurs, Earned, Unique
<1>6. ASSUME NEW p \in Procs,
             Triage(p) \/ Gather(p) \/ TriageNode(p) \/ LearnedNode(p) \/ RootCauseNode(p)
               \/ HistorySave(p) \/ WriteFinal(p) \/ Crash(p) \/ RecoverCheck(p)
      PROVE  DraftInv'
  BY <1>0, <1>5, <1>6
  DEF Triage, Gather, TriageNode, LearnedNode, RootCauseNode, HistorySave, WriteFinal, Crash,
      RecoverCheck, Advance, Exit
<1>7. ASSUME NEW p \in Procs, RecoverLoad(p) PROVE DraftInv'
  <2>1. pc'[p] \notin {"save", "draft", "write"} /\ \A q \in Procs \ {p} : pc'[q] = pc[q] /\ seen'[q] = seen[q]
    BY <1>0, <1>7, TypesOfProcs DEF RecoverLoad, Exit, Stored, Marks, GraphNodes
  <2> QED
    BY <1>0, <1>5, <1>7, <2>1 DEF RecoverLoad
<1>8. CASE UNCHANGED maintenanceVars
  BY <1>5, <1>8 DEF maintenanceVars
<1> QED
  BY <1>1, <1>2, <1>3, <1>4, <1>6, <1>7, <1>8 DEF MaintenanceNext, Step

\* A skill file stands for a class that recurred, in distinct incidents all of it,
\* and a class has one unless two processes drafted at once
\* (maintenance/graph.py, finalize; skills_registry.py, maybe_draft_skill).
THEOREM DraftsAreAlwaysEarned == MaintenanceSpec => []DraftsAreEarned
<1>1. MaintenanceInit => MaintenanceTypeOK /\ DraftInv
  BY InitTypes DEF MaintenanceInit, DraftInv, Earned, Unique, NoSkill
<1>2. MaintenanceTypeOK /\ DraftInv /\ [MaintenanceNext]_maintenanceVars => (MaintenanceTypeOK /\ DraftInv)'
  BY NextTypes, NextDrafts
<1>3. DraftInv => DraftsAreEarned
  BY DEF DraftInv, Earned, Unique, DraftsAreEarned
<1> QED
  BY <1>1, <1>2, <1>3, PTL DEF MaintenanceSpec

-----------------------------------------------------------------------------
(* The history is complete as far as it reaches.                           *)

Distinct(h) == \A j, k \in DOMAIN h : h[j] = h[k] => j = k

Recorded(i) == final[i] \/ \E p \in Procs : p[1] = i /\ pc[p] \in {"draft", "write", "final"}

\* An incident is written to a copy that does not hold it; one that is past that,
\* or has its final file, is in the history unless its length pushed it out.
HistoryInv ==
  /\ Len(history) <= MaxHistory
  /\ \A p \in Procs : pc[p] = "save" => p[1] \notin Entries(seen[p].copy)
  /\ ~ raced => Distinct(history)
  /\ ~ raced /\ Len(history) < MaxHistory =>
       \A i \in Incidents : Recorded(i) => i \in Entries(history)

\* Writing one more incident keeps the entries distinct, and loses none while
\* there is room.
LEMMA SaveKeepsHistory ==
  ASSUME NEW h \in Seq(Incidents), NEW i \in Incidents
  PROVE  LET new == LastOf(Append(h, i))
         IN  /\ Len(new) <= MaxHistory
             /\ i \notin Entries(h) /\ Distinct(h) => Distinct(new)
             /\ Len(new) < MaxHistory => Len(h) < MaxHistory /\ new = Append(h, i)
<1> DEFINE long == Append(h, i)
           new == LastOf(long)
           gone == Len(long) - Len(new)
<1>1. /\ long \in Seq(Incidents) /\ Len(long) = Len(h) + 1 /\ Len(h) \in Nat
      /\ \A k \in 1..Len(h) : long[k] = h[k]
      /\ long[Len(h) + 1] = i
  OBVIOUS
<1>2. /\ new \in Seq(Incidents)
      /\ Len(new) = IF Len(long) > MaxHistory THEN MaxHistory ELSE Len(long)
      /\ \A k \in 1..Len(new) : new[k] = long[k + gone]
  BY <1>1, LastOfType
<1>3. DOMAIN new = 1..Len(new) /\ Len(new) \in Nat /\ DOMAIN h = 1..Len(h)
  BY <1>1, <1>2
<1> HIDE DEF long, new
<1>4. gone \in Nat /\ gone + Len(new) = Len(h) + 1 /\ Len(new) <= MaxHistory
  BY <1>1, <1>2, <1>3, MaintenanceAssumption
<1>5. ASSUME i \notin Entries(h), Distinct(h), NEW j \in 1..Len(new), NEW k \in 1..Len(new),
             new[j] = new[k]
      PROVE  j = k
  <2> DEFINE a == j + gone
             b == k + gone
  <2> HIDE DEF gone
  <2>0. gone \in Nat /\ Len(new) \in Nat /\ gone + Len(new) = Len(h) + 1
    BY <1>3, <1>4
  <2>1. a \in 1..Len(h) + 1 /\ b \in 1..Len(h) + 1 /\ long[a] = long[b]
    <3>1. long[a] = new[j] /\ long[b] = new[k]
      BY <1>2
    <3>2. a \in 1..Len(h) + 1 /\ b \in 1..Len(h) + 1
      BY <1>1, <2>0
    <3> QED
      BY <1>5, <3>1, <3>2
  <2> HIDE DEF a, b
  <2>2. \A x \in 1..Len(h) : h[x] # i
    BY <1>3, <1>5 DEF Entries
  <2>3. a = b
    <3>1. CASE a = Len(h) + 1
      BY <1>1, <2>1, <2>2, <3>1
    <3>2. CASE b = Len(h) + 1
      BY <1>1, <2>1, <2>2, <3>2
    <3>3. CASE a \in 1..Len(h) /\ b \in 1..Len(h)
      BY <1>1, <1>3, <1>5, <2>1, <3>3 DEF Distinct
    <3> QED
      BY <1>1, <2>1, <3>1, <3>2, <3>3
  <2> QED
    BY <2>0, <2>3 DEF a, b
<1>6. ASSUME Len(new) < MaxHistory PROVE Len(h) < MaxHistory /\ new = long
  <2>1. Len(new) = Len(long) /\ Len(h) < MaxHistory /\ gone = 0
    BY <1>1, <1>2, <1>6, MaintenanceAssumption
  <2>2. \A k \in 1..Len(new) : new[k] = long[k]
    BY <1>2, <2>1
  <2> QED
    BY <1>1, <1>2, <2>1, <2>2, SeqEqual
<1>7. i \notin Entries(h) /\ Distinct(h) => Distinct(new)
  BY <1>3, <1>5 DEF Distinct
<1> QED
  BY <1>4, <1>6, <1>7 DEF new, long

LEMMA EntriesOfAppend ==
  ASSUME NEW h \in Seq(Incidents), NEW i \in Incidents
  PROVE  Entries(Append(h, i)) = Entries(h) \cup {i}
<1>1. /\ DOMAIN Append(h, i) = 1..Len(h) + 1 /\ DOMAIN h = 1..Len(h) /\ Len(h) \in Nat
      /\ \A k \in 1..Len(h) : Append(h, i)[k] = h[k]
      /\ Append(h, i)[Len(h) + 1] = i
  OBVIOUS
<1> QED
  BY <1>1 DEF Entries

LEMMA NextHistory == MaintenanceTypeOK /\ HistoryInv /\ [MaintenanceNext]_maintenanceVars => HistoryInv'
<1> SUFFICES ASSUME MaintenanceTypeOK, HistoryInv, [MaintenanceNext]_maintenanceVars PROVE HistoryInv'
  OBVIOUS
<1>0. pc \in [Procs -> Nodes] /\ seen \in [Procs -> Seen] /\ history \in Seq(Incidents)
      /\ final \in [Incidents -> BOOLEAN] /\ \A p \in Procs : p[1] \in Incidents
  BY TypesOfProcs DEF MaintenanceTypeOK
<1>1. ASSUME NEW p \in Procs, HistoryLoad(p) PROVE HistoryInv'
  <2>1. seen'[p].copy = history /\ pc'[p] = IF p[1] \in Entries(history) THEN "draft" ELSE "save"
    BY <1>0, <1>1 DEF HistoryLoad
  <2>2. \A q \in Procs \ {p} : pc'[q] = pc[q] /\ seen'[q] = seen[q]
    BY <1>0, <1>1 DEF HistoryLoad
  <2>3. history' = history /\ raced' = raced /\ final' = final
    BY <1>1 DEF HistoryLoad
  <2>4. \A q \in Procs : pc'[q] = "save" => q[1] \notin Entries(seen'[q].copy)
    BY <2>1, <2>2 DEF HistoryInv
  <2>5. ASSUME NEW i \in Incidents, Recorded(i)' PROVE Recorded(i) \/ i \in Entries(history)
    BY <2>1, <2>2, <2>3, <2>5 DEF Recorded
  <2> QED
    BY <2>3, <2>4, <2>5 DEF HistoryInv
<1>2. ASSUME NEW p \in Procs, HistorySave(p) PROVE HistoryInv'
  <2> DEFINE i == p[1]
  <2>1. i \in Incidents /\ seen[p].copy \in Seq(Incidents) /\ i \notin Entries(seen[p].copy)
    BY <1>0, <1>2 DEF HistorySave, HistoryInv, Seen
  <2>2. history' = LastOf(Append(seen[p].copy, i)) /\ seen' = seen /\ final' = final
        /\ (~ raced' => ~ raced /\ seen[p].copy = history)
    BY <1>2 DEF HistorySave
  <2>3. \A q \in Procs : pc'[q] = "save" => pc[q] = "save"
    BY <1>0, <1>2 DEF HistorySave
  <2>4. ASSUME NEW k \in Incidents, Recorded(k)' PROVE k = i \/ Recorded(k)
    BY <1>0, <1>2, <2>4 DEF HistorySave, Recorded
  <2> HIDE DEF i
  <2>5. Len(history') <= MaxHistory
    BY <2>1, <2>2, SaveKeepsHistory
  <2>6. ~ raced' => Distinct(history')
    BY <2>1, <2>2, SaveKeepsHistory DEF HistoryInv
  <2>7. ASSUME ~ raced', Len(history') < MaxHistory, NEW k \in Incidents, Recorded(k)'
        PROVE  k \in Entries(history')
    <3>1. Len(history) < MaxHistory /\ history' = Append(history, i)
      BY <1>0, <2>1, <2>2, <2>7, SaveKeepsHistory
    <3>2. Entries(history') = Entries(history) \cup {i}
      BY <1>0, <2>1, <3>1, EntriesOfAppend
    <3> QED
      BY <2>2, <2>4, <2>7, <3>1, <3>2 DEF HistoryInv
  <2>8. \A q \in Procs : pc'[q] = "save" => q[1] \notin Entries(seen'[q].copy)
    BY <2>2, <2>3 DEF HistoryInv
  <2> QED
    BY <2>5, <2>6, <2>7, <2>8 DEF HistoryInv
<1>3. CASE /\ history' = history /\ (~ raced' => ~ raced)
           /\ \A i \in Incidents : Recorded(i)' => Recorded(i)
           /\ \A p \in Procs : pc'[p] = "save" => pc[p] = "save" /\ seen'[p] = seen[p]
  BY <1>3 DEF HistoryInv
<1>4. ASSUME NEW p \in Procs, WriteFinal(p) \/ DraftCheck(p) \/ DraftWrite(p) PROVE HistoryInv'
  <2>1. \A i \in Incidents : Recorded(i)' => Recorded(i)
    <3>1. CASE WriteFinal(p)
      BY <1>0, <3>1 DEF WriteFinal, Exit, Recorded
    <3>2. CASE DraftCheck(p) \/ DraftWrite(p)
      BY <1>0, <3>2 DEF DraftCheck, DraftWrite, Recorded
    <3> QED
      BY <1>4, <3>1, <3>2
  <2>2. \A q \in Procs : pc'[q] = "save" => pc[q] = "save" /\ seen'[q] = seen[q]
    BY <1>0, <1>4 DEF WriteFinal, Exit, DraftCheck, DraftWrite
  <2>3. history' = history /\ (~ raced' => ~ raced)
    <3>1. CASE WriteFinal(p)
      BY <3>1 DEF WriteFinal
    <3>2. CASE DraftCheck(p)
      BY <3>2 DEF DraftCheck
    <3>3. CASE DraftWrite(p)
      BY <3>3 DEF DraftWrite
    <3> QED
      BY <1>4, <3>1, <3>2, <3>3
  <2> QED
    BY <1>3, <2>1, <2>2, <2>3
<1>5. CASE /\ history' = history /\ raced' = raced /\ final' = final
           /\ \A p \in Procs :
                /\ pc'[p] \in {"draft", "write", "final"} => pc'[p] = pc[p]
                /\ pc'[p] = "save" => pc[p] = "save" /\ seen'[p] = seen[p]
  BY <1>3, <1>5 DEF Recorded
<1>6. ASSUME NEW p \in Procs,
             Triage(p) \/ Gather(p) \/ TriageNode(p) \/ LearnedNode(p) \/ RootCauseNode(p)
               \/ Crash(p) \/ RecoverCheck(p)
      PROVE  HistoryInv'
  BY <1>0, <1>5, <1>6
  DEF Triage, Gather, TriageNode, LearnedNode, RootCauseNode, Crash, RecoverCheck, Advance, Exit
<1>7. ASSUME NEW p \in Procs, RecoverLoad(p) PROVE HistoryInv'
  <2>1. pc'[p] \notin {"save", "draft", "write", "final"}
        /\ \A q \in Procs \ {p} : pc'[q] = pc[q] /\ seen'[q] = seen[q]
    BY <1>0, <1>7, TypesOfProcs DEF RecoverLoad, Exit, Stored, Marks, GraphNodes
  <2> QED
    BY <1>0, <1>5, <1>7, <2>1 DEF RecoverLoad
<1>8. ASSUME NEW n \in Names, Approve(n) PROVE HistoryInv'
  BY <1>5, <1>8 DEF Approve
<1>9. CASE UNCHANGED maintenanceVars
  BY <1>5, <1>9 DEF maintenanceVars
<1> QED
  BY <1>1, <1>2, <1>4, <1>6, <1>7, <1>8, <1>9 DEF MaintenanceNext, Step

\* Unless two writers overlapped, the history holds every finished incident once,
\* up to the ones its length has pushed out (skills_registry.py, record_incident).
THEOREM HistoryIsAlwaysComplete == MaintenanceSpec => []HistoryIsComplete
<1>1. MaintenanceInit => MaintenanceTypeOK /\ HistoryInv
  BY InitTypes, MaintenanceAssumption DEF MaintenanceInit, HistoryInv, Distinct, Recorded
<1>2. MaintenanceTypeOK /\ HistoryInv /\ [MaintenanceNext]_maintenanceVars => (MaintenanceTypeOK /\ HistoryInv)'
  BY NextTypes, NextHistory
<1>3. HistoryInv => HistoryIsComplete
  BY DEF HistoryInv, Distinct, Recorded, HistoryIsComplete
<1> QED
  BY <1>1, <1>2, <1>3, PTL DEF MaintenanceSpec
=============================================================================

-------------------------- MODULE IntakePanelProofs --------------------------
(***************************************************************************)
(* What TLAPS proves of the two ends of a review, which share no state:    *)
(* the webhook server, for any number of keys, jobs, listing threads,      *)
(* requests and crashes, and a panel's voters, for any roster, any skills  *)
(* and whatever the models answer.                                         *)
(*                                                                         *)
(* Two whole copies of jobs.yaml may be in flight at once, one in the      *)
(* event loop and one per lister; the argument for the job list is that    *)
(* every copy, stale or not, satisfies what the file has to satisfy, and   *)
(* that the world only moves in the direction that keeps it satisfied: a   *)
(* process that is gone stays gone and what was recorded stays recorded.   *)
(*                                                                         *)
(* Of a review's report the argument is what the leader's passes over the  *)
(* findings keep: for each finding that was folded away a row remains that *)
(* names its file, and one that is as bad.                                 *)
(***************************************************************************)
EXTENDS Intake, Panel, TLAPS, FiniteSetTheorems, SequenceTheorems, NaturalsInduction,
        WellFoundedInduction

Loops == {Idle} \cup [at: {"file"}, key: Keys \cup {NoKey}]
           \cup [at: {"spawn"}, what: {"triage", "review"}] \cup [at: {"load"}, proc: Work]
           \cup [at: {"save"}, proc: Work, copy: Seq(Row)]
Listings == {Idle} \cup [at: {"save"}, copy: Seq(Row)]

-----------------------------------------------------------------------------
(* Rows and what is done to them.                                          *)

\* What the event loop carries, by what it is doing.
LEMMA LoopShape ==
  ASSUME loop \in Loops
  PROVE  /\ loop.at = "file" => loop.key \in Keys \cup {NoKey} /\ loop = [at |-> "file", key |-> loop.key]
         /\ loop.at \in {"load", "save"} => loop.proc \in Work
         /\ loop.at = "save" => loop.copy \in Seq(Row)
BY DEF Loops, Idle

LEMMA LatestType ==
  ASSUME NEW js \in Seq(Row)
  PROVE  /\ Latest(js) \in Seq(Row)
         /\ Len(Latest(js)) = IF Len(js) > MaxRows THEN MaxRows ELSE Len(js)
         /\ \A i \in 1..Len(Latest(js)) :
              Latest(js)[i] = js[i + (Len(js) - Len(Latest(js)))]
<1> DEFINE m == IF Len(js) > MaxRows THEN Len(js) - MaxRows + 1 ELSE 1
<1>1. m \in Nat \ {0} /\ Len(js) \in Nat /\ m <= Len(js) + 1
  BY IntakeAssumption
<1>2. \A i \in m .. Len(js) : js[i] \in Row
  BY <1>1
<1>3. /\ SubSeq(js, m, Len(js)) \in Seq(Row)
      /\ Len(SubSeq(js, m, Len(js))) = IF m <= Len(js) THEN Len(js) - m + 1 ELSE 0
      /\ \A i \in 1 .. Len(js) - m + 1 : SubSeq(js, m, Len(js))[i] = js[m+i-1]
  BY <1>1, <1>2, SubSeqProperties
<1>4. Latest(js) = SubSeq(js, m, Len(js))
  BY DEF Latest
<1>5. Len(Latest(js)) = Len(js) - m + 1
  BY <1>1, <1>3, <1>4
<1>6. Len(Latest(js)) = IF Len(js) > MaxRows THEN MaxRows ELSE Len(js)
  BY <1>1, <1>5, IntakeAssumption
<1>7. ASSUME NEW i \in 1..Len(Latest(js))
      PROVE  Latest(js)[i] = js[i + (Len(js) - Len(Latest(js)))]
  <2>1. i + (Len(js) - Len(Latest(js))) = m + i - 1
    BY <1>1, <1>5
  <2> QED
    BY <1>1, <1>3, <1>4, <1>5, <2>1
<1> QED
  BY <1>3, <1>4, <1>6, <1>7

LEMMA ReconciledType ==
  ASSUME NEW js \in Seq(Row)
  PROVE  /\ Reconciled(js) \in Seq(Row)
         /\ Len(Reconciled(js)) = Len(js)
         /\ \A i \in 1..Len(js) : Reconciled(js)[i].proc = js[i].proc
<1>1. \A i \in 1..Len(js) : js[i] \in Row
  OBVIOUS
<1>2. DOMAIN Reconciled(js) = 1..Len(js)
  BY DEF Reconciled
<1>3. \A i \in 1..Len(js) : Reconciled(js)[i] \in Row /\ Reconciled(js)[i].proc = js[i].proc
  BY <1>1 DEF Reconciled, Row
<1> QED
  BY <1>1, <1>2, <1>3 DEF Reconciled

\* Whatever copy is written back, a row is appended to the latest of it.
LEMMA RecordedType ==
  ASSUME NEW js \in Seq(Row), NEW row \in Row
  PROVE  LET rows == Append(Latest(js), row)
             kept == Len(Latest(js))
         IN  /\ rows \in Seq(Row)
             /\ Len(rows) = kept + 1
             /\ rows[kept + 1] = row
             /\ \A i \in 1..kept : rows[i] = js[i + (Len(js) - kept)]
BY LatestType

-----------------------------------------------------------------------------
(* Types.                                                                  *)

LEMMA InitTypes == Init => TypeOK
<1> SUFFICES ASSUME Init PROVE TypeOK
  OBVIOUS
<1>1. inbox \in Seq([key: Keys \cup {NoKey}, by: {"alert", "post"}])
      /\ jobs \in Seq(Row) /\ spawned \in Seq(Work)
  BY DEF Init
<1>2. used \in [{"requests", "listings", "crashes"} -> Nat]
  BY DEF Init
<1> QED
  BY <1>1, <1>2 DEF Init, TypeOK

LEMMA NextTypes == TypeOK /\ [Next]_vars => TypeOK'
<1> SUFFICES ASSUME TypeOK, [Next]_vars PROVE TypeOK'
  OBVIOUS
<1> USE IntakeAssumption
<1>0. loop \in Loops /\ lister \in [Listers -> Listings]
  BY DEF TypeOK, Loops, Listings
<1>1. ASSUME NEW k \in Keys \cup {NoKey}, Alert(k) PROVE TypeOK'
  BY <1>1 DEF Alert, Spend, TypeOK
<1>2. ASSUME NEW pushed \in BOOLEAN, ReviewEvent(pushed) PROVE TypeOK'
  BY <1>2 DEF ReviewEvent, Spend, TypeOK
<1>3. CASE AlertFile
  BY <1>0, <1>3, LoopShape DEF AlertFile, TypeOK
<1>4. CASE Post
  BY <1>4 DEF Post, Spend, TypeOK
<1>5. CASE RecordLoad
  BY <1>0, <1>5, LoopShape DEF RecordLoad, TypeOK
<1>6. CASE RecordSave
  <2>1. loop.copy \in Seq(Row) /\ loop.proc \in Work
    BY <1>0, <1>6, LoopShape DEF RecordSave
  <2>2. [proc |-> loop.proc, status |-> "running"] \in Row
    BY <2>1 DEF Row
  <2>3. jobs' \in Seq(Row)
    BY <1>6, <2>1, <2>2, RecordedType DEF RecordSave, Rewritten
  <2> QED
    BY <1>6, <2>1, <2>3 DEF RecordSave, Rewritten, TypeOK
<1>7. CASE Crash
  BY <1>0, <1>7, LoopShape DEF Crash, Spend, TypeOK
<1>8. ASSUME NEW w \in Work, Popen(w) PROVE TypeOK'
  BY <1>8 DEF Popen, TypeOK
<1>9. ASSUME NEW w \in Work, Exit(w) PROVE TypeOK'
  BY <1>9 DEF Exit, TypeOK
<1>10. ASSUME NEW t \in Listers, ListLoad(t) PROVE TypeOK'
  BY <1>10 DEF ListLoad, Spend, TypeOK
<1>11. ASSUME NEW t \in Listers, ListSave(t) PROVE TypeOK'
  <2>1. lister[t].copy \in Seq(Row)
    BY <1>0, <1>11 DEF ListSave, Listings, Idle
  <2>2. jobs' \in Seq(Row)
    BY <1>11, <2>1, ReconciledType DEF ListSave, Rewritten
  <2> QED
    BY <1>11, <2>2 DEF ListSave, Rewritten, TypeOK
<1>12. CASE UNCHANGED vars
  BY <1>12 DEF vars, TypeOK
<1> QED
  BY <1>1, <1>2, <1>3, <1>4, <1>5, <1>6, <1>7, <1>8, <1>9, <1>10, <1>11, <1>12 DEF Next

\* The inbox, jobs.yaml and every handler keep their shapes, however requests,
\* listings, exits and crashes interleave.
THEOREM TypeCorrect == Spec => []TypeOK
<1>1. Init => TypeOK
  BY InitTypes
<1>2. TypeOK /\ [Next]_vars => TypeOK'
  BY NextTypes
<1> QED
  BY <1>1, <1>2, PTL DEF Spec
-----------------------------------------------------------------------------
(* Finished means gone.                                                    *)

\* What FinishedMeansGone asks of a copy of the job list, given the processes
\* and what was recorded.
Truthful(rows, P, S) ==
  \A i \in 1..Len(rows) :
    /\ rows[i].status = "finished" => P[rows[i].proc] = "gone"
    /\ \E j \in DOMAIN S : S[j] = rows[i].proc

JobsInv ==
  /\ Truthful(jobs, procs, spawned)
  /\ loop.at = "save" => Truthful(loop.copy, procs, spawned)
  /\ \A t \in Listers : lister[t].at = "save" => Truthful(lister[t].copy, procs, spawned)

\* The world moves one way: what is gone stays gone, what is recorded stays.
OneWay ==
  /\ \A w \in Work : procs[w] = "gone" => procs'[w] = "gone"
  /\ \A j \in DOMAIN spawned : j \in DOMAIN spawned' /\ spawned'[j] = spawned[j]

LEMMA TruthLasts ==
  ASSUME OneWay, NEW rows \in Seq(Row), Truthful(rows, procs, spawned)
  PROVE  Truthful(rows, procs', spawned')
<1> SUFFICES ASSUME NEW i \in 1..Len(rows)
             PROVE  /\ rows[i].status = "finished" => procs'[rows[i].proc] = "gone"
                    /\ \E j \in DOMAIN spawned' : spawned'[j] = rows[i].proc
  BY DEF Truthful
<1>1. rows[i] \in Row
  OBVIOUS
<1>2. rows[i].proc \in Work
  BY <1>1 DEF Row
<1> QED
  BY <1>2 DEF OneWay, Truthful

LEMMA WorldIsOneWay == TypeOK /\ [Next]_vars => OneWay
<1> SUFFICES ASSUME TypeOK, [Next]_vars PROVE OneWay
  OBVIOUS
<1>1. CASE UNCHANGED <<procs, spawned>>
  BY <1>1 DEF OneWay
<1>2. CASE RecordSave
  <2>1. loop.proc \in Work /\ spawned \in Seq(Work)
    BY <1>2, LoopShape DEF RecordSave, TypeOK, Loops
  <2> QED
    BY <1>2, <2>1 DEF RecordSave, OneWay
<1>3. ASSUME NEW w \in Work, Popen(w) \/ Exit(w) PROVE OneWay
  BY <1>3 DEF Popen, Exit, OneWay, TypeOK
<1> QED
  BY <1>1, <1>2, <1>3
  DEF Next, vars, Alert, ReviewEvent, AlertFile, Post, RecordLoad, Crash, ListLoad, ListSave

\* A row is turned to finished only when its process is gone.
LEMMA TruthReconciled ==
  ASSUME NEW rows \in Seq(Row), NEW S, Truthful(rows, procs, S)
  PROVE  Truthful(Reconciled(rows), procs, S)
<1> SUFFICES ASSUME NEW i \in 1..Len(rows)
             PROVE  /\ Reconciled(rows)[i].status = "finished"
                         => procs[Reconciled(rows)[i].proc] = "gone"
                    /\ \E j \in DOMAIN S : S[j] = Reconciled(rows)[i].proc
  BY ReconciledType DEF Truthful
<1>1. rows[i] \in Row
  OBVIOUS
<1> QED
  BY <1>1 DEF Truthful, Reconciled, Row

\* A row is appended as running, to a copy that was truthful.
LEMMA TruthAppended ==
  ASSUME NEW rows \in Seq(Row), NEW w \in Work, NEW P, NEW S, Truthful(rows, P, S),
         \E j \in DOMAIN S : S[j] = w
  PROVE  Truthful(Append(Latest(rows), [proc |-> w, status |-> "running"]), P, S)
<1> DEFINE row == [proc |-> w, status |-> "running"]
           kept == Len(Latest(rows))
           new == Append(Latest(rows), row)
<1>1. row \in Row
  BY DEF Row
<1>2. Latest(rows) \in Seq(Row) /\ kept \in Nat /\ kept <= Len(rows) /\ Len(rows) \in Nat
  BY LatestType, IntakeAssumption
<1>3. /\ Len(new) = kept + 1 /\ new[kept + 1] = row
      /\ \A i \in 1..kept : new[i] = rows[i + (Len(rows) - kept)]
  BY <1>1, RecordedType
<1> HIDE DEF new, kept
<1>4. ASSUME NEW i \in 1..kept
      PROVE  /\ new[i].status = "finished" => P[new[i].proc] = "gone"
             /\ \E j \in DOMAIN S : S[j] = new[i].proc
  <2>1. i + (Len(rows) - kept) \in 1..Len(rows)
    BY <1>2
  <2> QED
    BY <1>3, <2>1 DEF Truthful
<1>5. Truthful(new, P, S)
  BY <1>2, <1>3, <1>4 DEF Truthful
<1> QED
  BY <1>5 DEF new

LEMMA NextJobs == TypeOK /\ JobsInv /\ [Next]_vars => JobsInv'
<1> SUFFICES ASSUME TypeOK, JobsInv, [Next]_vars PROVE JobsInv'
  OBVIOUS
<1>0. loop \in Loops /\ lister \in [Listers -> Listings] /\ jobs \in Seq(Row)
  BY DEF TypeOK, Loops, Listings
<1>1. OneWay
  BY WorldIsOneWay
<1>2. Truthful(jobs, procs', spawned')
  BY <1>0, <1>1, TruthLasts DEF JobsInv
<1>3. loop.at = "save" => Truthful(loop.copy, procs', spawned')
  BY <1>0, <1>1, TruthLasts, LoopShape DEF JobsInv
<1>4. ASSUME NEW t \in Listers, lister[t].at = "save"
      PROVE  lister[t].copy \in Seq(Row) /\ Truthful(lister[t].copy, procs', spawned')
  <2>1. lister[t].copy \in Seq(Row)
    BY <1>0, <1>4 DEF Listings, Idle
  <2> QED
    BY <1>1, <1>4, <2>1, TruthLasts DEF JobsInv
<1>5. CASE RecordSave
  <2>1. loop.copy \in Seq(Row) /\ loop.proc \in Work /\ spawned \in Seq(Work)
    BY <1>0, <1>5, LoopShape DEF RecordSave, TypeOK
  <2>2. \E j \in DOMAIN spawned' : spawned'[j] = loop.proc
    <3>1. Len(spawned) + 1 \in DOMAIN spawned' /\ spawned'[Len(spawned) + 1] = loop.proc
      BY <1>5, <2>1 DEF RecordSave
    <3> QED
      BY <3>1
  <2>3. Truthful(loop.copy, procs', spawned')
    BY <1>3, <1>5 DEF RecordSave
  <2>4. Truthful(jobs', procs', spawned')
    BY <1>5, <2>1, <2>2, <2>3, TruthAppended DEF RecordSave, Rewritten
  <2> QED
    BY <1>4, <1>5, <2>4 DEF RecordSave, JobsInv, Idle
<1>6. ASSUME NEW t \in Listers, ListSave(t) PROVE JobsInv'
  <2>1. lister[t].copy \in Seq(Row) /\ Truthful(lister[t].copy, procs, spawned')
    BY <1>4, <1>6 DEF ListSave
  <2>2. Truthful(jobs', procs', spawned')
    BY <1>6, <2>1, TruthReconciled DEF ListSave, Rewritten
  <2>3. \A u \in Listers : lister'[u].at = "save" => u # t /\ lister'[u] = lister[u]
    BY <1>0, <1>6 DEF ListSave, Idle
  <2> QED
    BY <1>3, <1>4, <1>6, <2>2, <2>3 DEF ListSave, JobsInv
<1>7. CASE RecordLoad
  BY <1>2, <1>4, <1>7 DEF RecordLoad, JobsInv
<1>8. ASSUME NEW t \in Listers, ListLoad(t) PROVE JobsInv'
  <2>1. \A u \in Listers : lister'[u].at = "save" =>
          lister'[u] = lister[u] \/ lister'[u].copy = jobs
    BY <1>0, <1>8 DEF ListLoad
  <2> QED
    BY <1>2, <1>3, <1>4, <1>8, <2>1 DEF ListLoad, JobsInv
<1>9. CASE jobs' = jobs /\ lister' = lister /\ (loop' = loop \/ loop'.at # "save")
  BY <1>2, <1>3, <1>4, <1>9 DEF JobsInv
<1>10. CASE Crash
  BY <1>2, <1>10 DEF Crash, JobsInv, Idle
<1> QED
  BY <1>5, <1>6, <1>7, <1>8, <1>9, <1>10
  DEF Next, vars, Alert, ReviewEvent, AlertFile, Post, Popen, Exit, Idle

\* A job is shown as finished only when its process is gone, and no row is
\* invented (server.py, _record_job and _reconcile_jobs), although either writer
\* may put back a file the other has changed since.
THEOREM FinishedIsGone == Spec => []FinishedMeansGone
<1>1. Init => TypeOK /\ JobsInv
  BY InitTypes DEF Init, JobsInv, Truthful, Idle
<1>2. TypeOK /\ JobsInv /\ [Next]_vars => (TypeOK /\ JobsInv)'
  BY NextTypes, NextJobs
<1>3. TypeOK /\ JobsInv => FinishedMeansGone
  BY DEF TypeOK, JobsInv, Truthful, FinishedMeansGone
<1> QED
  BY <1>1, <1>2, <1>3, PTL DEF Spec

-----------------------------------------------------------------------------
(* The job list is the latest work, unless a stale copy was written back.  *)

LEMMA NextLatest == TypeOK /\ JobsAreTheLatest /\ [Next]_vars => JobsAreTheLatest'
<1> SUFFICES ASSUME TypeOK, JobsAreTheLatest, [Next]_vars, ~raced'
             PROVE  LET shown == IF Len(spawned') > MaxRows + 1 THEN MaxRows + 1
                                                                ELSE Len(spawned')
                    IN  /\ Len(jobs') = shown
                        /\ \A i \in 1..shown :
                             jobs'[i].proc = spawned'[Len(spawned') - shown + i]
  BY DEF JobsAreTheLatest
<1> USE IntakeAssumption
<1>0. loop \in Loops /\ lister \in [Listers -> Listings] /\ jobs \in Seq(Row)
      /\ spawned \in Seq(Work)
  BY DEF TypeOK, Loops, Listings
<1> DEFINE shown == IF Len(spawned) > MaxRows + 1 THEN MaxRows + 1 ELSE Len(spawned)
<1>1. ~raced => /\ Len(jobs) = shown
                /\ \A i \in 1..shown : jobs[i].proc = spawned[Len(spawned) - shown + i]
  BY DEF JobsAreTheLatest
<1>2. CASE UNCHANGED <<jobs, spawned, raced>>
  BY <1>1, <1>2
<1>3. CASE RecordSave
  <2> DEFINE row == [proc |-> loop.proc, status |-> "running"]
             kept == Len(Latest(jobs))
  <2>1. ~raced /\ loop.copy = jobs /\ loop.proc \in Work /\ row \in Row
    BY <1>0, <1>3, LoopShape DEF RecordSave, Rewritten, Row
  <2>2. jobs' = Append(Latest(jobs), row) /\ spawned' = Append(spawned, loop.proc)
    BY <1>3, <2>1 DEF RecordSave, Rewritten
  <2>3. /\ Len(jobs') = kept + 1 /\ jobs'[kept + 1] = row
        /\ \A i \in 1..kept : jobs'[i] = jobs[i + (Len(jobs) - kept)]
    BY <1>0, <2>1, <2>2, RecordedType
  <2>4. kept = IF Len(jobs) > MaxRows THEN MaxRows ELSE Len(jobs)
    BY <1>0, LatestType
  <2>5. Len(spawned') = Len(spawned) + 1 /\ Len(spawned) \in Nat
        /\ spawned'[Len(spawned) + 1] = loop.proc
        /\ \A j \in 1..Len(spawned) : spawned'[j] = spawned[j]
    BY <1>0, <2>1, <2>2
  <2> HIDE DEF kept
  <2>6. /\ kept + 1 = IF Len(spawned') > MaxRows + 1 THEN MaxRows + 1 ELSE Len(spawned')
        /\ kept \in Nat /\ kept <= shown
    BY <1>1, <2>1, <2>4, <2>5
  <2>7. ASSUME NEW i \in 1..kept + 1
        PROVE  jobs'[i].proc = spawned'[Len(spawned') - (kept + 1) + i]
    <3>1. CASE i = kept + 1
      BY <2>3, <2>5, <2>6, <3>1
    <3>2. CASE i \in 1..kept
      <4>1. i + (Len(jobs) - kept) \in 1..shown
        BY <1>1, <2>1, <2>5, <2>6, <3>2
      <4>2. jobs'[i].proc = spawned[Len(spawned) - shown + (i + (Len(jobs) - kept))]
        BY <1>1, <2>1, <2>3, <3>2, <4>1
      <4>3. Len(spawned) - shown + (i + (Len(jobs) - kept)) = Len(spawned') - (kept + 1) + i
        <5>1. Len(jobs) = shown /\ shown \in Nat
          BY <1>1, <2>1, <2>5
        <5> HIDE DEF shown
        <5> QED
          BY <2>5, <2>6, <3>2, <5>1
      <4>4. Len(spawned') - (kept + 1) + i \in 1..Len(spawned)
        BY <2>5, <2>6, <3>2
      <4> QED
        BY <2>5, <4>2, <4>3, <4>4
    <3> QED
      BY <2>6, <3>1, <3>2
  <2> QED
    BY <2>3, <2>6, <2>7
<1>4. ASSUME NEW t \in Listers, ListSave(t)
      PROVE  /\ ~raced /\ spawned' = spawned
             /\ Len(jobs') = Len(jobs) /\ \A i \in 1..Len(jobs) : jobs'[i].proc = jobs[i].proc
  BY <1>0, <1>4, ReconciledType DEF ListSave, Rewritten
<1>5. CASE \E t \in Listers : ListSave(t)
  <2>1. /\ ~raced /\ spawned' = spawned
        /\ Len(jobs') = Len(jobs) /\ \A i \in 1..Len(jobs) : jobs'[i].proc = jobs[i].proc
    BY <1>4, <1>5
  <2>2. Len(jobs) = shown
    BY <1>1, <2>1
  <2>3. ASSUME NEW i \in 1..shown
        PROVE  jobs'[i].proc = spawned[Len(spawned) - shown + i]
    <3>1. jobs[i].proc = spawned[Len(spawned) - shown + i] /\ i \in 1..Len(jobs)
      BY <1>1, <2>1, <2>2
    <3> QED
      BY <2>1, <3>1
  <2> QED
    BY <2>1, <2>2, <2>3
<1> QED
  BY <1>2, <1>3, <1>5
  DEF Next, vars, Alert, ReviewEvent, AlertFile, Post, Popen, Exit, RecordLoad, ListLoad, Crash

\* jobs.yaml lists the latest work in the order it was spawned, up to the rows
\* _record_job keeps, as long as no stale copy of it was written back.
THEOREM JobListIsTheLatest == Spec => []JobsAreTheLatest
<1>1. Init => TypeOK /\ JobsAreTheLatest
  BY InitTypes, IntakeAssumption DEF Init, JobsAreTheLatest
<1>2. TypeOK /\ JobsAreTheLatest /\ [Next]_vars => (TypeOK /\ JobsAreTheLatest)'
  BY NextTypes, NextLatest
<1> QED
  BY <1>1, <1>2, PTL DEF Spec

-----------------------------------------------------------------------------
(* An alert is one incident.                                               *)

Filed(k) == \E i \in DOMAIN inbox : inbox[i].key = k

\* The marker comes first: a key with a file has one, a key with a marker has
\* its file, is about to get it, or was torn from it; and while it is about to
\* get it, it has none.
AlertInv ==
  /\ \A i, j \in DOMAIN inbox : inbox[i].key \in Keys /\ inbox[i].key = inbox[j].key => i = j
  /\ \A i \in DOMAIN inbox : inbox[i].key \in Keys => inbox[i].key \in markers
  /\ loop.at = "file" /\ loop.key \in Keys => loop.key \in markers /\ ~ Filed(loop.key)
  /\ \A k \in markers \ torn : Filed(k) \/ loop = [at |-> "file", key |-> k]

LEMMA NextAlerts == TypeOK /\ AlertInv /\ [Next]_vars => AlertInv'
<1> SUFFICES ASSUME TypeOK, AlertInv, [Next]_vars PROVE AlertInv'
  OBVIOUS
<1> USE IntakeAssumption
<1>0. loop \in Loops /\ markers \subseteq Keys
      /\ inbox \in Seq([key: Keys \cup {NoKey}, by: {"alert", "post"}])
  BY DEF TypeOK, Loops
<1>1. ASSUME NEW k \in Keys \cup {NoKey}, Alert(k) PROVE AlertInv'
  <2>1. CASE k \in markers
    BY <1>1, <2>1 DEF Alert, AlertInv, Filed
  <2>2. CASE k \notin markers
    <3>1. ~ Filed(k) \/ k = NoKey
      BY <2>2 DEF AlertInv, Filed
    <3>2. \A x \in markers \ torn : Filed(x)
      BY <1>1 DEF Alert, AlertInv, Idle
    <3> QED
      BY <1>1, <2>2, <3>1, <3>2 DEF Alert, AlertInv, Filed
  <2> QED
    BY <2>1, <2>2
<1>2. CASE AlertFile
  <2>1. loop.key \in Keys \cup {NoKey} /\ loop = [at |-> "file", key |-> loop.key]
    BY <1>0, <1>2, LoopShape DEF AlertFile
  <2>2. /\ inbox' = Append(inbox, [key |-> loop.key, by |-> "alert"])
        /\ loop' = Idle /\ markers' = markers /\ torn' = torn
    BY <1>2 DEF AlertFile
  <2>3. /\ Len(inbox) \in Nat
        /\ DOMAIN inbox' = 1..Len(inbox) + 1 /\ DOMAIN inbox = 1..Len(inbox)
        /\ inbox'[Len(inbox) + 1].key = loop.key
        /\ \A i \in 1..Len(inbox) : inbox'[i] = inbox[i]
    BY <1>0, <2>2
  <2>4. loop.key \in Keys => loop.key \in markers /\ \A i \in 1..Len(inbox) : inbox[i].key # loop.key
    BY <1>2, <2>3 DEF AlertFile, AlertInv, Filed
  <2>5. \A k \in markers \ torn : Filed(k) \/ k = loop.key
    BY <2>1 DEF AlertInv
  <2>6. \A k \in markers \ torn : Filed(k)'
    BY <2>3, <2>5 DEF Filed
  <2>7. \A i, j \in DOMAIN inbox' :
          inbox'[i].key \in Keys /\ inbox'[i].key = inbox'[j].key => i = j
    BY <2>3, <2>4 DEF AlertInv
  <2>8. \A i \in DOMAIN inbox' : inbox'[i].key \in Keys => inbox'[i].key \in markers
    BY <2>3, <2>4 DEF AlertInv
  <2> QED
    BY <2>2, <2>6, <2>7, <2>8 DEF AlertInv, Idle
<1>3. CASE Post
  <2>1. /\ inbox' = Append(inbox, [key |-> NoKey, by |-> "post"])
        /\ loop = Idle /\ loop'.at = "spawn" /\ markers' = markers /\ torn' = torn
    BY <1>3 DEF Post
  <2>2. /\ Len(inbox) \in Nat
        /\ DOMAIN inbox' = 1..Len(inbox) + 1 /\ DOMAIN inbox = 1..Len(inbox)
        /\ inbox'[Len(inbox) + 1].key = NoKey
        /\ \A i \in 1..Len(inbox) : inbox'[i] = inbox[i]
    BY <1>0, <2>1
  <2>3. loop.at # "file"
    BY <2>1 DEF Idle
  <2>4. \A k \in markers \ torn : Filed(k)
    BY <2>3 DEF AlertInv
  <2>5. \A k \in markers \ torn : Filed(k)'
    BY <2>2, <2>4 DEF Filed
  <2> QED
    BY <2>1, <2>2, <2>5 DEF AlertInv
<1>4. CASE Crash
  BY <1>0, <1>4, LoopShape DEF Crash, AlertInv, Filed, Idle
<1>5. CASE UNCHANGED <<inbox, markers, torn>> /\ loop.at # "file" /\ loop'.at # "file"
  BY <1>5 DEF AlertInv, Filed
<1>6. CASE UNCHANGED <<inbox, markers, torn, loop>>
  BY <1>6 DEF AlertInv, Filed
<1> QED
  BY <1>1, <1>2, <1>3, <1>4, <1>5, <1>6
  DEF Next, vars, ReviewEvent, Popen, Exit, RecordLoad, RecordSave, ListLoad, ListSave, Idle

\* A monitoring alert that fires again is dropped, and one that left its marker
\* has its incident file unless the server died between the two writes
\* (server.py, the monitoring webhook).
THEOREM OneIncidentPerAlert == Spec => []AlertsBecomeIncidents
<1>1. Init => TypeOK /\ AlertInv
  BY InitTypes DEF Init, AlertInv, Idle
<1>2. TypeOK /\ AlertInv /\ [Next]_vars => (TypeOK /\ AlertInv)'
  BY NextTypes, NextAlerts
<1>3. TypeOK /\ AlertInv => AlertsBecomeIncidents
  <2> SUFFICES ASSUME TypeOK, AlertInv, NEW k \in Keys
               PROVE  LET files == {i \in DOMAIN inbox : inbox[i].key = k}
                      IN  /\ Cardinality(files) <= 1
                          /\ k \in markers \ torn => files # {} \/ loop = [at |-> "file", key |-> k]
                          /\ files # {} => k \in markers
    BY DEF AlertsBecomeIncidents
  <2> DEFINE files == {i \in DOMAIN inbox : inbox[i].key = k}
  <2>1. files = {} \/ \E i \in DOMAIN inbox : files = {i}
    BY DEF AlertInv
  <2>2. Cardinality(files) <= 1
    <3> HIDE DEF files
    <3>1. CASE files = {}
      BY <3>1, FS_EmptySet
    <3>2. ASSUME NEW i \in DOMAIN inbox, files = {i} PROVE Cardinality(files) <= 1
      BY <3>2, FS_Singleton
    <3> QED
      BY <2>1, <3>1, <3>2
  <2>3. /\ k \in markers \ torn => files # {} \/ loop = [at |-> "file", key |-> k]
        /\ files # {} => k \in markers
    BY DEF AlertInv, Filed
  <2> QED
    BY <2>2, <2>3
<1> QED
  BY <1>1, <1>2, <1>3, PTL DEF Spec

-----------------------------------------------------------------------------
(* The panel's voters: every paid call is counted as what it was.          *)

Turns == [nudged: Nat, requote: Nat, reverdict: Nat, tools: Nat, foreign: Nat, paid: Nat]
Budget == IF skill.tools THEN skill.tool_budget ELSE 0

\* Every paid call is counted as what it was; outside a conversation nothing is.
TurnInv ==
  /\ skill \in Skills /\ turn \in Turns
  /\ at \in {"ask", "forced"} \/ turn = FreshTurn
  /\ turn.nudged <= 1
  /\ turn.requote <= _MAX_REQUOTE_NUDGES
  /\ turn.reverdict <= _MAX_REVERDICT_NUDGES
  /\ turn.tools <= Budget
  /\ turn.paid = turn.nudged + turn.requote + turn.reverdict + turn.tools + turn.foreign
                 + (IF at = "forced" THEN 1 ELSE 0)

LEMMA BudgetType == ASSUME skill \in Skills PROVE Budget \in Nat
BY VoterAssumption DEF Budget, VoterSpec

LEMMA FreshTurnIsWithin ==
  ASSUME skill' \in Skills, turn' = FreshTurn, at' # "forced" PROVE TurnInv'
<1>1. Budget' \in Nat
  BY VoterAssumption DEF Budget, VoterSpec
<1>2. FreshTurn \in Turns
  BY DEF FreshTurn, Turns
<1> QED
  BY <1>1, <1>2 DEF TurnInv, FreshTurn, _MAX_REQUOTE_NUDGES, _MAX_REVERDICT_NUDGES

LEMMA AnySkillIsOne == AnySkill \in Skills
BY VoterAssumption DEF AnySkill

\* A conversation that goes on with the counters n, q, r, t and f.
LEMMA CountsStay ==
  ASSUME skill \in Skills, at' = "ask", skill' = skill,
         NEW n \in Nat, NEW q \in Nat, NEW r \in Nat, NEW t \in Nat, NEW f \in Nat,
         n <= 1, q <= 2, r <= 2, t <= Budget,
         turn' = [nudged |-> n, requote |-> q, reverdict |-> r, tools |-> t, foreign |-> f,
                  paid |-> n + q + r + t + f]
  PROVE  TurnInv'
<1>1. Budget' = Budget
  BY DEF Budget
<1>2. turn' \in Turns
  BY DEF Turns
<1> QED
  BY <1>1, <1>2 DEF TurnInv, _MAX_REQUOTE_NUDGES, _MAX_REVERDICT_NUDGES

\* Each kind of reply moves its own counter and the paid calls, no other.
LEMMA ContinueCounts ==
  ASSUME TurnInv, at = "ask"
  PROVE  /\ Continue("nudged") /\ turn.nudged < 1 => TurnInv'
         /\ Continue("requote") /\ turn.requote < 2 => TurnInv'
         /\ Continue("reverdict") /\ turn.reverdict < 2 => TurnInv'
         /\ Continue("tools") /\ turn.tools < Budget => TurnInv'
         /\ Continue("foreign") => TurnInv'
<1>1. /\ skill \in Skills /\ turn \in Turns /\ Budget \in Nat
      /\ turn.nudged <= 1 /\ turn.requote <= 2 /\ turn.reverdict <= 2 /\ turn.tools <= Budget
      /\ turn.paid = turn.nudged + turn.requote + turn.reverdict + turn.tools + turn.foreign
  BY BudgetType DEF TurnInv, Turns, _MAX_REQUOTE_NUDGES, _MAX_REVERDICT_NUDGES
<1>2. ASSUME Continue("nudged"), turn.nudged < 1 PROVE TurnInv'
  <2>1. turn' = [nudged |-> turn.nudged + 1, requote |-> turn.requote,
                 reverdict |-> turn.reverdict, tools |-> turn.tools, foreign |-> turn.foreign,
                 paid |-> turn.paid + 1]
    BY <1>1, <1>2 DEF Continue, Turns
  <2>2. turn.paid + 1 = (turn.nudged + 1) + turn.requote + turn.reverdict + turn.tools + turn.foreign
    BY <1>1 DEF Turns
  <2>3. skill' = skill /\ at' = "ask"
    BY <1>2 DEF Continue
  <2>4. turn.nudged \in Nat /\ turn.requote \in Nat /\ turn.reverdict \in Nat
        /\ turn.tools \in Nat /\ turn.foreign \in Nat
    BY <1>1 DEF Turns
  <2>5. turn' = [nudged |-> turn.nudged + 1, requote |-> turn.requote,
                 reverdict |-> turn.reverdict, tools |-> turn.tools, foreign |-> turn.foreign,
                 paid |-> (turn.nudged + 1) + turn.requote + turn.reverdict + turn.tools
                          + turn.foreign]
    BY <2>1, <2>2
  <2>6. turn.nudged + 1 \in Nat /\ turn.nudged + 1 <= 1
    BY <1>1, <1>2, <2>4
  <2> QED
    BY <1>1, <2>3, <2>4, <2>5, <2>6, CountsStay, ZenonT(30)
<1>3. ASSUME Continue("requote"), turn.requote < 2 PROVE TurnInv'
  <2>1. turn' = [nudged |-> turn.nudged, requote |-> turn.requote + 1,
                 reverdict |-> turn.reverdict, tools |-> turn.tools, foreign |-> turn.foreign,
                 paid |-> turn.paid + 1]
    BY <1>1, <1>3 DEF Continue, Turns
  <2>2. turn.paid + 1 = turn.nudged + (turn.requote + 1) + turn.reverdict + turn.tools + turn.foreign
    BY <1>1 DEF Turns
  <2>3. skill' = skill /\ at' = "ask"
    BY <1>3 DEF Continue
  <2>4. turn.nudged \in Nat /\ turn.requote \in Nat /\ turn.reverdict \in Nat
        /\ turn.tools \in Nat /\ turn.foreign \in Nat
    BY <1>1 DEF Turns
  <2>5. turn' = [nudged |-> turn.nudged, requote |-> turn.requote + 1,
                 reverdict |-> turn.reverdict, tools |-> turn.tools, foreign |-> turn.foreign,
                 paid |-> turn.nudged + (turn.requote + 1) + turn.reverdict + turn.tools
                          + turn.foreign]
    BY <2>1, <2>2
  <2>6. turn.requote + 1 \in Nat /\ turn.requote + 1 <= 2
    BY <1>1, <1>3, <2>4
  <2> QED
    BY <1>1, <2>3, <2>4, <2>5, <2>6, CountsStay, ZenonT(30)
<1>4. ASSUME Continue("reverdict"), turn.reverdict < 2 PROVE TurnInv'
  <2>1. turn' = [nudged |-> turn.nudged, requote |-> turn.requote,
                 reverdict |-> turn.reverdict + 1, tools |-> turn.tools, foreign |-> turn.foreign,
                 paid |-> turn.paid + 1]
    BY <1>1, <1>4 DEF Continue, Turns
  <2>2. turn.paid + 1 = turn.nudged + turn.requote + (turn.reverdict + 1) + turn.tools + turn.foreign
    BY <1>1 DEF Turns
  <2>3. skill' = skill /\ at' = "ask"
    BY <1>4 DEF Continue
  <2>4. turn.nudged \in Nat /\ turn.requote \in Nat /\ turn.reverdict \in Nat
        /\ turn.tools \in Nat /\ turn.foreign \in Nat
    BY <1>1 DEF Turns
  <2>5. turn' = [nudged |-> turn.nudged, requote |-> turn.requote,
                 reverdict |-> turn.reverdict + 1, tools |-> turn.tools, foreign |-> turn.foreign,
                 paid |-> turn.nudged + turn.requote + (turn.reverdict + 1) + turn.tools
                          + turn.foreign]
    BY <2>1, <2>2
  <2>6. turn.reverdict + 1 \in Nat /\ turn.reverdict + 1 <= 2
    BY <1>1, <1>4, <2>4
  <2> QED
    BY <1>1, <2>3, <2>4, <2>5, <2>6, CountsStay, ZenonT(30)
<1>5. ASSUME Continue("tools"), turn.tools < Budget PROVE TurnInv'
  <2>1. turn' = [nudged |-> turn.nudged, requote |-> turn.requote,
                 reverdict |-> turn.reverdict, tools |-> turn.tools + 1, foreign |-> turn.foreign,
                 paid |-> turn.paid + 1]
    BY <1>1, <1>5 DEF Continue, Turns
  <2>2. turn.paid + 1 = turn.nudged + turn.requote + turn.reverdict + (turn.tools + 1) + turn.foreign
    BY <1>1 DEF Turns
  <2>3. skill' = skill /\ at' = "ask"
    BY <1>5 DEF Continue
  <2>4. turn.nudged \in Nat /\ turn.requote \in Nat /\ turn.reverdict \in Nat
        /\ turn.tools \in Nat /\ turn.foreign \in Nat
    BY <1>1 DEF Turns
  <2>5. turn' = [nudged |-> turn.nudged, requote |-> turn.requote,
                 reverdict |-> turn.reverdict, tools |-> turn.tools + 1, foreign |-> turn.foreign,
                 paid |-> turn.nudged + turn.requote + turn.reverdict + (turn.tools + 1)
                          + turn.foreign]
    BY <2>1, <2>2
  <2>6. turn.tools + 1 \in Nat /\ turn.tools + 1 <= Budget
    BY <1>1, <1>5, <2>4
  <2> QED
    BY <1>1, <2>3, <2>4, <2>5, <2>6, CountsStay, ZenonT(30)
<1>6. ASSUME Continue("foreign") PROVE TurnInv'
  <2>1. turn' = [nudged |-> turn.nudged, requote |-> turn.requote,
                 reverdict |-> turn.reverdict, tools |-> turn.tools, foreign |-> turn.foreign + 1,
                 paid |-> turn.paid + 1]
    BY <1>1, <1>6 DEF Continue, Turns
  <2>2. turn.paid + 1 = turn.nudged + turn.requote + turn.reverdict + turn.tools + (turn.foreign + 1)
    BY <1>1 DEF Turns
  <2>3. skill' = skill /\ at' = "ask"
    BY <1>6 DEF Continue
  <2>4. turn.nudged \in Nat /\ turn.requote \in Nat /\ turn.reverdict \in Nat
        /\ turn.tools \in Nat /\ turn.foreign \in Nat
    BY <1>1 DEF Turns
  <2>5. turn' = [nudged |-> turn.nudged, requote |-> turn.requote,
                 reverdict |-> turn.reverdict, tools |-> turn.tools, foreign |-> turn.foreign + 1,
                 paid |-> turn.nudged + turn.requote + turn.reverdict + turn.tools
                          + (turn.foreign + 1)]
    BY <2>1, <2>2
  <2>6. turn.foreign + 1 \in Nat
    BY <1>1, <1>6, <2>4
  <2> QED
    BY <1>1, <2>3, <2>4, <2>5, <2>6, CountsStay, ZenonT(30)
<1> QED
  BY <1>2, <1>3, <1>4, <1>5, <1>6

LEMMA VoterStepTurn == ASSUME TurnInv, VoterStep PROVE TurnInv'
<1>0. skill \in Skills /\ turn \in Turns
  BY DEF TurnInv
<1> USE DEF _MAX_REQUOTE_NUDGES, _MAX_REVERDICT_NUDGES
<1>1. CASE BeginAttempt
  BY <1>0, <1>1, FreshTurnIsWithin DEF BeginAttempt
<1>2. ASSUME FailedAttempt PROVE TurnInv'
  BY <1>0, <1>2, FreshTurnIsWithin DEF FailedAttempt
<1>3. CASE Answers \/ ProviderFails
  BY <1>0, <1>3, FreshTurnIsWithin DEF Answers, ProviderFails
<1>5. CASE ReplyEmpty
  BY <1>5, ContinueCounts DEF ReplyEmpty
<1>6. CASE ReplyMalformed
  BY <1>2, <1>6, ContinueCounts DEF ReplyMalformed
<1>7. CASE ReplyUnreadable
  BY <1>2, <1>7, ContinueCounts DEF ReplyUnreadable
<1>8. ASSUME at = "ask", ForceVerdict PROVE TurnInv'
  <2>1. /\ UNCHANGED skill /\ at' = "forced" /\ turn' \in Turns /\ turn'.paid = turn.paid + 1
        /\ turn'.nudged = turn.nudged /\ turn'.requote = turn.requote
        /\ turn'.reverdict = turn.reverdict /\ turn'.tools = turn.tools
        /\ turn'.foreign = turn.foreign
    BY <1>0, <1>8 DEF ForceVerdict, Turns
  <2>2. Budget' = Budget
    BY <2>1 DEF Budget
  <2> QED
    BY <1>0, <1>8, <2>1, <2>2 DEF TurnInv, Turns
<1>9. CASE ReplyToolRequest
  <2>1. CASE skill.tools /\ turn.tools < skill.tool_budget
    BY <1>9, <2>1, ContinueCounts DEF ReplyToolRequest, Budget
  <2>2. CASE ~ (skill.tools /\ turn.tools < skill.tool_budget)
    BY <1>8, <1>9, <2>2 DEF ReplyToolRequest
  <2> QED
    BY <2>1, <2>2
<1>10. CASE ReplyForeignRequest
  BY <1>10, ContinueCounts DEF ReplyForeignRequest
<1> QED
  BY <1>1, <1>2, <1>3, <1>5, <1>6, <1>7, <1>9, <1>10 DEF VoterStep, AttemptFails

LEMMA NextTurn == TurnInv /\ [PanelNext]_reviewVars => TurnInv'
<1> SUFFICES ASSUME TurnInv, [PanelNext]_reviewVars PROVE TurnInv'
  OBVIOUS
<1>1. CASE UNCHANGED voterVars
  BY <1>1 DEF voterVars, TurnInv, Budget
<1>2. CASE Ask
  BY <1>2, FreshTurnIsWithin DEF Ask, VoterStart
<1>3. CASE Reply
  BY <1>3, VoterStepTurn DEF Reply
<1>4. CASE Collect
  BY <1>4, FreshTurnIsWithin, AnySkillIsOne DEF Collect, TurnInv
<1> QED
  BY <1>1, <1>2, <1>3, <1>4 DEF PanelNext, RunTools, Verify, Lead, Merge, reviewVars

LEMMA TurnStarts == PanelInit => TurnInv
<1> SUFFICES ASSUME PanelInit PROVE TurnInv
  OBVIOUS
<1>1. skill \in Skills /\ turn = FreshTurn /\ at = "idle"
  BY AnySkillIsOne DEF PanelInit, VoterInit
<1>2. Budget \in Nat /\ FreshTurn \in Turns
  BY <1>1, BudgetType DEF FreshTurn, Turns
<1> QED
  BY <1>1, <1>2 DEF TurnInv, FreshTurn, _MAX_REQUOTE_NUDGES, _MAX_REVERDICT_NUDGES

\* Whatever a model mixes, an attempt pays for no more than the nudges, the tool
\* budget and two more calls.
THEOREM RoundTripsStayBounded == PanelSpec => []RoundTripsAreBounded
<1>1. PanelInit => TurnInv
  BY TurnStarts
<1>2. TurnInv => RoundTripsAreBounded
  <2> SUFFICES ASSUME TurnInv PROVE RoundTripsAreBounded
    OBVIOUS
  <2>1. turn \in Turns /\ Budget \in Nat
    BY BudgetType DEF TurnInv
  <2>2. RoundTripsAreBounded <=> turn.paid - turn.foreign <= 1 + 2 + 2 + Budget + 1
    BY DEF RoundTripsAreBounded, Budget, _MAX_REQUOTE_NUDGES, _MAX_REVERDICT_NUDGES
  <2> QED
    BY <2>1, <2>2 DEF TurnInv, Turns, _MAX_REQUOTE_NUDGES, _MAX_REVERDICT_NUDGES
<1>3. PanelSpec => []TurnInv
  BY <1>1, NextTurn, PTL DEF PanelSpec
<1> QED
  BY <1>2, <1>3, PTL

-----------------------------------------------------------------------------
(* Recursive functions, and the sequences they build.                      *)

LEMMA LeastNat ==
  ASSUME NEW S, S \subseteq Nat, S # {}
  PROVE  \E n \in S : \A m \in S : n <= m
<1>1. PICK n \in S : \A m \in S : <<m, n>> \notin OpToRel(<, Nat)
  BY NatLessThanWellFounded, WFMin
<1>2. ASSUME NEW m \in S PROVE n <= m
  <2>1. <<m, n>> \in Nat \X Nat /\ <<m, n>>[1] = m /\ <<m, n>>[2] = n
    OBVIOUS
  <2>2. ~ (<<m, n>>[1] < <<m, n>>[2])
    BY <1>1, <2>1 DEF OpToRel
  <2> QED
    BY <2>1, <2>2
<1> QED
  BY <1>2

\* Induction up to N, over a set of numbers.
LEMMA UpTo ==
  ASSUME NEW N \in Nat, NEW H, 0 \in H, \A n \in 1..N : n - 1 \in H => n \in H
  PROVE  \A n \in 0..N : n \in H
<1> DEFINE Bad == {n \in Nat : n <= N /\ n \notin H}
<1>1. Bad = {}
  <2> SUFFICES ASSUME Bad # {} PROVE FALSE
    OBVIOUS
  <2>1. PICK m \in Bad : \A l \in Bad : m <= l
    BY LeastNat
  <2>2. m \in Nat /\ m <= N /\ m \notin H /\ m # 0
    OBVIOUS
  <2>3. m \in 1..N /\ m - 1 \in Nat /\ m - 1 <= N /\ ~ (m <= m - 1)
    BY <2>2
  <2>4. m - 1 \in H
    BY <2>1, <2>3
  <2> QED
    BY <2>2, <2>3, <2>4
<1> QED
  BY <1>1

\* f starts at a and goes on by g, N times.
Follows(f, N, S, a, g) ==
  f \in [0..N -> S] /\ f[0] = a /\ \A n \in 1..N : f[n] = g[<<f[n - 1], n>>]

LEMMA StepsExist ==
  ASSUME NEW N \in Nat, NEW S, NEW a \in S, NEW g \in [S \X (1..N) -> S]
  PROVE  \E f : Follows(f, N, S, a, g)
<1> DEFINE Good(f, m) == f[0] = a /\ \A n \in 1..m : f[n] = g[<<f[n - 1], n>>]
           H == {m \in Nat : \E f \in [0..m -> S] : Good(f, m)}
<1>1. 0 \in H
  <2>1. [k \in 0..0 |-> a] \in [0..0 -> S] /\ Good([k \in 0..0 |-> a], 0)
    OBVIOUS
  <2> QED
    BY <2>1
<1>2. ASSUME NEW m \in 1..N, m - 1 \in H PROVE m \in H
  <2>1. PICK f \in [0..(m - 1) -> S] : Good(f, m - 1)
    BY <1>2
  <2> DEFINE h == [k \in 0..m |-> IF k = m THEN g[<<f[m - 1], m>>] ELSE f[k]]
  <2>2. m \in Nat /\ m - 1 \in 0..(m - 1) /\ \A k \in 0..m : k # m => k \in 0..(m - 1)
    OBVIOUS
  <2>3. g[<<f[m - 1], m>>] \in S
    BY <2>2
  <2>4. h \in [0..m -> S]
    BY <2>2, <2>3
  <2>5. h[0] = a
    BY <2>1
  <2>6. ASSUME NEW n \in 1..m PROVE h[n] = g[<<h[n - 1], n>>]
    <3>1. h[n - 1] = f[n - 1]
      OBVIOUS
    <3>2. CASE n = m
      BY <3>1, <3>2
    <3>3. CASE n # m
      <4>1. n \in 1..(m - 1) /\ h[n] = f[n]
        BY <3>3
      <4> QED
        BY <2>1, <3>1, <4>1
    <3> QED
      BY <3>2, <3>3
  <2>7. Good(h, m)
    BY <2>5, <2>6
  <2> HIDE DEF h, Good
  <2> QED
    BY <2>2, <2>4, <2>7
<1>3. N \in H
  <2> HIDE DEF H
  <2> QED
    BY <1>1, <1>2, UpTo
<1> QED
  BY <1>3 DEF Follows

\* Some place of s holds x.
Holds(s, x) == \E k \in DOMAIN s : s[k] = x

LEMMA AppendHolds ==
  ASSUME NEW S, NEW s \in Seq(S), NEW x \in S
  PROVE  /\ Append(s, x) \in Seq(S) /\ Holds(Append(s, x), x)
         /\ \A y : Holds(s, y) => Holds(Append(s, x), y)
<1>1. /\ Append(s, x) \in Seq(S) /\ Len(s) \in Nat /\ DOMAIN s = 1..Len(s)
      /\ DOMAIN Append(s, x) = 1..(Len(s) + 1) /\ Append(s, x)[Len(s) + 1] = x
      /\ \A k \in 1..Len(s) : Append(s, x)[k] = s[k]
  OBVIOUS
<1>2. \A k \in 1..Len(s) : k \in 1..(Len(s) + 1)
  BY <1>1
<1>3. Len(s) + 1 \in 1..(Len(s) + 1)
  BY <1>1
<1> QED
  BY <1>1, <1>2, <1>3 DEF Holds

LEMMA ConcatHolds ==
  ASSUME NEW S, NEW s \in Seq(S), NEW t \in Seq(S)
  PROVE  /\ s \o t \in Seq(S)
         /\ \A y : Holds(s, y) \/ Holds(t, y) => Holds(s \o t, y)
<1>1. /\ s \o t \in Seq(S) /\ Len(s) \in Nat /\ Len(t) \in Nat
      /\ DOMAIN s = 1..Len(s) /\ DOMAIN t = 1..Len(t) /\ DOMAIN (s \o t) = 1..(Len(s) + Len(t))
      /\ \A k \in 1..Len(s) : (s \o t)[k] = s[k]
  OBVIOUS
<1>2. \A k \in 1..Len(t) : (s \o t)[Len(s) + k] = t[k]
  OBVIOUS
<1>3. /\ \A k \in 1..Len(s) : k \in 1..(Len(s) + Len(t))
      /\ \A k \in 1..Len(t) : Len(s) + k \in 1..(Len(s) + Len(t))
  BY <1>1
<1> QED
  BY <1>1, <1>2, <1>3 DEF Holds

Picks(s, I, f) ==
  f = [n \in 0..Len(s) |-> IF n = 0 THEN <<>>
                           ELSE IF n \in I THEN Append(f[n - 1], s[n]) ELSE f[n - 1]]

\* Picked goes through the sequence once.
LEMMA PickedSteps ==
  ASSUME NEW S, NEW s \in Seq(S), NEW I
  PROVE  \E f : /\ f[0] = <<>>
                /\ \A n \in 1..Len(s) :
                     f[n] = IF n \in I THEN Append(f[n - 1], s[n]) ELSE f[n - 1]
                /\ Picked(s, I) = f[Len(s)]
<1> DEFINE N == Len(s)
           g == [p \in Seq(S) \X (1..N) |-> IF p[2] \in I THEN Append(p[1], s[p[2]]) ELSE p[1]]
           F == CHOOSE f : Picks(s, I, f)
<1>1. N \in Nat /\ \A n \in 1..N : s[n] \in S
  OBVIOUS
<1>2. g \in [Seq(S) \X (1..N) -> Seq(S)]
  <2>1. ASSUME NEW p \in Seq(S) \X (1..N) PROVE g[p] \in Seq(S)
    <3>1. p[1] \in Seq(S) /\ s[p[2]] \in S
      BY <1>1
    <3> QED
      BY <3>1
  <2> QED
    BY <2>1
<1>3. PICK h \in [0..N -> Seq(S)] : h[0] = <<>> /\ \A n \in 1..N : h[n] = g[<<h[n - 1], n>>]
  <2> DEFINE T == Seq(S)
  <2>1. <<>> \in T /\ g \in [T \X (1..N) -> T]
    BY <1>2
  <2> HIDE DEF g, N, T
  <2>2. \E f : Follows(f, N, T, <<>>, g)
    BY <1>1, <2>1, StepsExist
  <2> QED
    BY <2>2 DEF T, Follows
<1>4. ASSUME NEW n \in 1..N
      PROVE  h[n] = IF n \in I THEN Append(h[n - 1], s[n]) ELSE h[n - 1]
  <2>1. n - 1 \in 0..N
    BY <1>1
  <2>2. <<h[n - 1], n>> \in Seq(S) \X (1..N)
    BY <1>3, <2>1
  <2> QED
    BY <1>3, <2>2
<1>5. Picks(s, I, h)
  <2> HIDE DEF g
  <2>1. \A n \in 0..N : n # 0 => n \in 1..N
    BY <1>1
  <2>2. \A n \in 0..N : h[n] = IF n = 0 THEN <<>>
                              ELSE IF n \in I THEN Append(h[n - 1], s[n]) ELSE h[n - 1]
    BY <1>3, <1>4, <2>1
  <2>3. h = [n \in 0..N |-> h[n]]
    BY <1>3
  <2> QED
    BY <2>2, <2>3 DEF Picks
<1>6. Picks(s, I, F)
  BY <1>5
<1>7. Picked(s, I) = F[Len(s)]
  BY DEF Picked, Picks
<1> HIDE DEF F
<1> DEFINE body(f, n) == IF n = 0 THEN <<>>
                         ELSE IF n \in I THEN Append(f[n - 1], s[n]) ELSE f[n - 1]
<1>8. F = [n \in 0..N |-> body(F, n)]
  BY <1>6 DEF Picks
<1>9. \A n \in 0..N : F[n] = body(F, n)
  <2> HIDE DEF body
  <2> QED
    BY <1>8, Zenon
<1>10. 0 \in 0..N /\ \A n \in 1..N : n \in 0..N /\ n # 0
  BY <1>1
<1> QED
  BY <1>7, <1>9, <1>10

\* What is picked are elements of s, and every one asked for.
LEMMA PickedHas ==
  ASSUME NEW S, NEW s \in Seq(S), NEW I
  PROVE  /\ Picked(s, I) \in Seq(S)
         /\ \A i \in DOMAIN s : i \in I => Holds(Picked(s, I), s[i])
<1> DEFINE N == Len(s)
<1>1. N \in Nat /\ DOMAIN s = 1..N /\ \A n \in 1..N : s[n] \in S
  OBVIOUS
<1>2. PICK f : /\ f[0] = <<>>
               /\ \A n \in 1..N : f[n] = IF n \in I THEN Append(f[n - 1], s[n]) ELSE f[n - 1]
               /\ Picked(s, I) = f[N]
  BY PickedSteps
<1> DEFINE H == {n \in Nat : /\ f[n] \in Seq(S)
                            /\ \A i \in 1..n : i \in I => Holds(f[n], s[i])}
<1>3. 0 \in H
  <2>1. f[0] \in Seq(S)
    BY <1>2
  <2>2. \A i \in 1..0 : FALSE
    OBVIOUS
  <2> QED
    BY <2>1, <2>2, Zenon
<1>4. ASSUME NEW n \in 1..N, n - 1 \in H PROVE n \in H
  <2>1. f[n - 1] \in Seq(S) /\ s[n] \in S /\ \A i \in 1..(n - 1) : i \in I => Holds(f[n - 1], s[i])
    BY <1>1, <1>4
  <2>2. f[n] = IF n \in I THEN Append(f[n - 1], s[n]) ELSE f[n - 1]
    BY <1>2
  <2>3. f[n] \in Seq(S) /\ \A y : Holds(f[n - 1], y) => Holds(f[n], y)
    BY <2>1, <2>2, AppendHolds
  <2>4. n \in I => Holds(f[n], s[n])
    BY <2>1, <2>2, AppendHolds
  <2>5. \A i \in 1..n : i = n \/ i \in 1..(n - 1)
    OBVIOUS
  <2>6. n \in Nat
    OBVIOUS
  <2> QED
    BY <2>1, <2>3, <2>4, <2>5, <2>6
<1>5. N \in H
  <2>1. \A n \in 0..N : n \in H
    <3> HIDE DEF H, N
    <3> QED
      BY <1>1, <1>3, <1>4, UpTo
  <2> QED
    BY <1>1, <2>1
<1> QED
  BY <1>1, <1>2, <1>5

Flattens(ss, f) == f = [i \in 1..Len(ss) |-> IF i = 1 THEN ss[i] ELSE f[i - 1] \o ss[i]]

LEMMA FlattenType ==
  ASSUME NEW S, NEW ss \in Seq(Seq(S))
  PROVE  FlattenSeq(ss) \in Seq(S)
<1> DEFINE N == Len(ss)
           T == Seq(S)
           g == [p \in T \X (1..N) |-> p[1] \o ss[p[2]]]
           F == CHOOSE f : Flattens(ss, f)
<1>1. N \in Nat /\ <<>> \in T /\ (\A n \in 1..N : ss[n] \in T) /\ \A t \in T : <<>> \o t = t
  OBVIOUS
<1>2. g \in [T \X (1..N) -> T]
  <2>1. ASSUME NEW p \in T \X (1..N) PROVE g[p] \in T
    <3>1. p[1] \in Seq(S) /\ ss[p[2]] \in Seq(S)
      BY <1>1
    <3> QED
      BY <3>1, ConcatHolds
  <2> QED
    BY <2>1
<1>3. PICK h : Follows(h, N, T, <<>>, g)
  <2> HIDE DEF g, N, T
  <2> QED
    BY <1>1, <1>2, StepsExist
<1>4. ASSUME NEW n \in 1..N PROVE h[n] = h[n - 1] \o ss[n]
  <2>1. n - 1 \in 0..N
    BY <1>1
  <2>2. <<h[n - 1], n>> \in T \X (1..N)
    BY <1>3, <2>1 DEF Follows
  <2> QED
    BY <1>3, <2>2 DEF Follows
<1>5. Flattens(ss, [i \in 1..N |-> h[i]])
  <2> DEFINE hh == [i \in 1..N |-> h[i]]
  <2>1. ASSUME NEW i \in 1..N PROVE hh[i] = IF i = 1 THEN ss[i] ELSE hh[i - 1] \o ss[i]
    <3>1. CASE i = 1
      <4>1. i - 1 = 0 /\ h[0] = <<>> /\ ss[i] \in T
        BY <1>1, <1>3, <3>1 DEF Follows
      <4>2. h[i] = <<>> \o ss[i]
        BY <1>4, <4>1
      <4>3. h[i] = ss[i]
        BY <1>1, <4>1, <4>2
      <4> QED
        BY <3>1, <4>3
    <3>2. CASE i # 1
      <4>1. i - 1 \in 1..N
        BY <1>1, <3>2
      <4> QED
        BY <1>4, <3>2, <4>1
    <3> QED
      BY <3>1, <3>2
  <2>2. hh = [i \in 1..N |-> hh[i]]
    OBVIOUS
  <2> HIDE DEF hh
  <2>3. Flattens(ss, hh)
    BY <2>1, <2>2 DEF Flattens
  <2> QED
    BY <2>3 DEF hh
<1>6. Flattens(ss, F)
  BY <1>5
<1>7. FlattenSeq(ss) = IF N = 0 THEN ss ELSE F[N]
  BY DEF FlattenSeq, Flattens
<1> HIDE DEF F
<1> DEFINE body(f, i) == IF i = 1 THEN ss[i] ELSE f[i - 1] \o ss[i]
<1>8. F = [i \in 1..N |-> body(F, i)]
  BY <1>6 DEF Flattens
<1>9. \A i \in 1..N : F[i] = body(F, i)
  <2> HIDE DEF body
  <2> QED
    BY <1>8, Zenon
<1> DEFINE H == {n \in Nat : n = 0 \/ F[n] \in T}
<1>10. ASSUME NEW n \in 1..N, n - 1 \in H PROVE n \in H
  <2>1. n \in Nat /\ ss[n] \in Seq(S)
    BY <1>1
  <2>2. CASE n = 1
    BY <1>9, <2>1, <2>2
  <2>3. CASE n # 1
    <3>1. n - 1 # 0
      BY <2>1, <2>3
    <3>2. F[n - 1] \in Seq(S)
      BY <1>10, <3>1
    <3>3. F[n] = F[n - 1] \o ss[n]
      BY <1>9, <2>3
    <3>4. F[n] \in T
      BY <2>1, <3>2, <3>3, ConcatHolds
    <3> QED
      BY <2>1, <3>4
  <2> QED
    BY <2>2, <2>3
<1>11. N \in H
  <2>1. 0 \in H
    OBVIOUS
  <2>2. \A n \in 0..N : n \in H
    <3> HIDE DEF H, N
    <3> QED
      BY <1>1, <1>10, <2>1, UpTo
  <2> QED
    BY <1>1, <2>2
<1>12. CASE N = 0
  <2>1. ss = <<>>
    BY <1>12
  <2> QED
    BY <1>7, <1>12, <2>1
<1> QED
  BY <1>1, <1>7, <1>11, <1>12

-----------------------------------------------------------------------------
(* Folding: every finding has a row that stands for it.                    *)

Places == Files \X Nat \X Titles
Acc == [kept: Seq(Finding), seen: SUBSET Places]

\* A row for the file and the title of a key; one at least as bad as s.
Stands(rows, key) == \E k \in DOMAIN rows : rows[k].title = key[3] /\ key[1] \in Sites(rows[k])
AsBad(rows, s) == \E k \in DOMAIN rows : rows[k].severity <= s

LEMMA TakeRows ==
  ASSUME NEW acc \in Acc, NEW f \in Finding
  PROVE  LET new == Take(acc, f)
         IN  /\ new \in Acc
             /\ new.seen = acc.seen \cup {Key(f)}
             /\ \A k \in DOMAIN acc.kept :
                  /\ k \in DOMAIN new.kept /\ new.kept[k].title = acc.kept[k].title
                  /\ Sites(acc.kept[k]) \subseteq Sites(new.kept[k])
                  /\ new.kept[k].severity <= acc.kept[k].severity
             /\ Key(f) \notin acc.seen =>
                  \E k \in DOMAIN new.kept :
                    /\ new.kept[k].title = f.title /\ f.file \in Sites(new.kept[k])
                    /\ new.kept[k].severity <= f.severity
<1> DEFINE rows == acc.kept
           same == {k \in DOMAIN rows : Issue(rows[k]) = Issue(f)}
           Fold(g) == [g EXCEPT !.also_in = @ \cup {f.file},
                                !.severity = IF f.severity < @ THEN f.severity ELSE @]
           folded == [k \in DOMAIN rows |-> IF k \in same THEN Fold(rows[k]) ELSE rows[k]]
           new == Take(acc, f)
<1>1. rows \in Seq(Finding) /\ acc.seen \in SUBSET Places /\ Key(f) \in Places
  BY DEF Acc, Key, Places, Finding
<1>2. ASSUME NEW g \in Finding
      PROVE  /\ Fold(g) \in Finding /\ Fold(g).title = g.title
             /\ Sites(g) \subseteq Sites(Fold(g)) /\ f.file \in Sites(Fold(g))
             /\ Fold(g).severity <= g.severity /\ Fold(g).severity <= f.severity
  <2> DEFINE a == g.also_in \cup {f.file}
             m == IF f.severity < g.severity THEN f.severity ELSE g.severity
             h == [g EXCEPT !.also_in = a]
  <2>1. /\ a \in SUBSET Files /\ m \in 1..5 /\ m <= g.severity /\ m <= f.severity
        /\ f.file \in a /\ g.also_in \subseteq a
    BY DEF Finding
  <2>2. Fold(g) = [h EXCEPT !.severity = m]
    BY DEF Finding
  <2> HIDE DEF a, m, Fold
  <2>3. h \in Finding /\ h.title = g.title /\ h.file = g.file /\ h.also_in = a
    BY <2>1 DEF Finding
  <2> HIDE DEF h
  <2>4. /\ Fold(g) \in Finding /\ Fold(g).title = h.title /\ Fold(g).file = h.file
        /\ Fold(g).also_in = h.also_in /\ Fold(g).severity = m
    BY <2>1, <2>2, <2>3 DEF Finding
  <2> QED
    BY <2>1, <2>3, <2>4 DEF Sites
<1>3. \A g \in Finding : g.severity \in Int /\ g.file \in Sites(g)
  BY DEF Finding, Sites
<1>4. CASE Key(f) \in acc.seen
  <2>1. new = acc
    BY <1>4 DEF Take
  <2> HIDE DEF new
  <2>2. \A k \in DOMAIN rows : rows[k] \in Finding /\ rows[k].severity <= rows[k].severity
    BY <1>1, <1>3
  <2> QED
    BY <1>4, <2>1, <2>2 DEF new
<1>5. CASE Key(f) \notin acc.seen /\ same = {}
  <2>1. new = [seen |-> acc.seen \cup {Key(f)}, kept |-> Append(rows, f)]
    BY <1>5 DEF Take
  <2> HIDE DEF new
  <2>2. /\ Append(rows, f) \in Seq(Finding) /\ DOMAIN Append(rows, f) = 1..(Len(rows) + 1)
        /\ Append(rows, f)[Len(rows) + 1] = f /\ Len(rows) + 1 \in 1..(Len(rows) + 1)
    BY <1>1
  <2>3. \A k \in DOMAIN rows : k \in 1..(Len(rows) + 1) /\ Append(rows, f)[k] = rows[k]
                             /\ rows[k] \in Finding
    BY <1>1
  <2>4. new \in Acc
    BY <1>1, <2>1, <2>2 DEF Acc
  <2>5. f.severity <= f.severity
    BY <1>3
  <2>6. \A k \in DOMAIN rows : rows[k].severity <= rows[k].severity
    BY <1>3, <2>3
  <2>7. /\ new.seen = acc.seen \cup {Key(f)} /\ new.kept = Append(rows, f)
        /\ DOMAIN new.kept = 1..(Len(rows) + 1)
    BY <2>1, <2>2
  <2>8. \A k \in DOMAIN rows : k \in DOMAIN new.kept /\ new.kept[k] = rows[k]
    BY <2>3, <2>7
  <2>9. Len(rows) + 1 \in DOMAIN new.kept /\ new.kept[Len(rows) + 1] = f
    BY <2>2, <2>7
  <2>10. \E k \in DOMAIN new.kept :
           /\ new.kept[k].title = f.title /\ f.file \in Sites(new.kept[k])
           /\ new.kept[k].severity <= f.severity
    BY <1>3, <2>5, <2>9
  <2>11. \A k \in DOMAIN rows :
           /\ k \in DOMAIN new.kept /\ new.kept[k].title = rows[k].title
           /\ Sites(rows[k]) \subseteq Sites(new.kept[k])
           /\ new.kept[k].severity <= rows[k].severity
    BY <2>6, <2>8
  <2> QED
    BY <2>4, <2>7, <2>10, <2>11 DEF new
<1>6. CASE Key(f) \notin acc.seen /\ same # {}
  <2>1. new = [seen |-> acc.seen \cup {Key(f)}, kept |-> folded]
    BY <1>6 DEF Take
  <2> HIDE DEF new
  <2>2. \A k \in DOMAIN rows : rows[k] \in Finding /\ DOMAIN rows = 1..Len(rows)
    BY <1>1
  <2>3. \A k \in DOMAIN rows : folded[k] \in Finding /\ folded[k].title = rows[k].title
                             /\ Sites(rows[k]) \subseteq Sites(folded[k])
                             /\ folded[k].severity <= rows[k].severity
    <3> SUFFICES ASSUME NEW k \in DOMAIN rows
                 PROVE  /\ folded[k] \in Finding /\ folded[k].title = rows[k].title
                        /\ Sites(rows[k]) \subseteq Sites(folded[k])
                        /\ folded[k].severity <= rows[k].severity
      OBVIOUS
    <3> HIDE DEF Fold, same
    <3>1. folded[k] = Fold(rows[k]) \/ folded[k] = rows[k]
      OBVIOUS
    <3>2. rows[k] \in Finding /\ rows[k].severity <= rows[k].severity
      BY <1>3, <2>2
    <3> HIDE DEF folded
    <3> QED
      BY <1>2, <3>1, <3>2
  <2>4. folded \in Seq(Finding)
    <3> HIDE DEF Fold, same
    <3>1. DOMAIN rows = 1..Len(rows) /\ Len(rows) \in Nat
      BY <1>1
    <3>2. folded \in [1..Len(rows) -> Finding]
      BY <2>3, <3>1
    <3> HIDE DEF folded
    <3> QED
      BY <3>1, <3>2
  <2>5. PICK j \in DOMAIN rows : Issue(rows[j]) = Issue(f)
    BY <1>6
  <2>6. rows[j].title = f.title
    BY <2>5 DEF Issue
  <2>7. folded[j] = Fold(rows[j])
    <3> HIDE DEF Fold
    <3> QED
      BY <2>5
  <2>8. folded[j].title = f.title /\ f.file \in Sites(folded[j]) /\ folded[j].severity <= f.severity
    <3> HIDE DEF Fold, folded
    <3> QED
      BY <1>2, <2>2, <2>3, <2>6, <2>7
  <2>9. DOMAIN folded = DOMAIN rows
    OBVIOUS
  <2> HIDE DEF folded, same
  <2> QED
    BY <1>1, <2>1, <2>3, <2>4, <2>8, <2>9 DEF new, Acc
<1> QED
  BY <1>4, <1>5, <1>6

LEMMA Severities ==
  ASSUME NEW rows \in Seq(Finding)
  PROVE  \A k \in DOMAIN rows :
           rows[k] \in Finding /\ rows[k].severity \in 1..5 /\ rows[k].severity \in Int
<1>1. \A f \in Finding : f.severity \in 1..5
  BY DEF Finding
<1>2. \A k \in DOMAIN rows : rows[k] \in Finding
  OBVIOUS
<1> QED
  BY <1>1, <1>2

\* What folding the first n findings has come to.
FoldInv(acc, ps, n) ==
  /\ acc \in Acc
  /\ \A key \in acc.seen : Stands(acc.kept, key) /\ \E j \in 1..n : Key(ps[j]) = key
  /\ \A j \in 1..n : Key(ps[j]) \in acc.seen
  /\ ~Clash(ps) => \A j \in 1..n : AsBad(acc.kept, ps[j].severity)

LEMMA FoldStep ==
  ASSUME NEW ps \in Seq(Finding), NEW n \in 1..Len(ps), NEW acc, FoldInv(acc, ps, n - 1)
  PROVE  FoldInv(Take(acc, ps[n]), ps, n)
<1> DEFINE f == ps[n]
           new == Take(acc, f)
<1>1. f \in Finding /\ acc \in Acc /\ n \in Nat /\ DOMAIN ps = 1..Len(ps)
  BY DEF FoldInv
<1>2. /\ new \in Acc
      /\ new.seen = acc.seen \cup {Key(f)}
      /\ \A k \in DOMAIN acc.kept :
           /\ k \in DOMAIN new.kept /\ new.kept[k].title = acc.kept[k].title
           /\ Sites(acc.kept[k]) \subseteq Sites(new.kept[k])
           /\ new.kept[k].severity <= acc.kept[k].severity
      /\ Key(f) \notin acc.seen =>
           \E k \in DOMAIN new.kept :
             /\ new.kept[k].title = f.title /\ f.file \in Sites(new.kept[k])
             /\ new.kept[k].severity <= f.severity
  BY <1>1, TakeRows
<1> HIDE DEF new
<1>3. /\ Key(f)[1] = f.file /\ Key(f)[3] = f.title
  BY DEF Key
<1>4. \A key : Stands(acc.kept, key) => Stands(new.kept, key)
  BY <1>2 DEF Stands
<1>5. Key(f) \notin acc.seen => Stands(new.kept, Key(f))
  BY <1>2, <1>3 DEF Stands
<1>6. \A k \in DOMAIN acc.kept : acc.kept[k].severity \in Int
  BY <1>1, Severities DEF Acc
<1>7. \A k \in DOMAIN new.kept : new.kept[k].severity \in Int
  BY <1>2, Severities DEF Acc
<1>8. \A s \in Int : AsBad(acc.kept, s) => AsBad(new.kept, s)
  BY <1>2, <1>6, <1>7 DEF AsBad
<1>9. Key(f) \notin acc.seen => AsBad(new.kept, f.severity)
  BY <1>2 DEF AsBad
<1>10. \A j \in 1..n : j = n \/ j \in 1..(n - 1)
  BY <1>1
<1>11. \A j \in 1..(n - 1) : j \in 1..n
  BY <1>1
<1>12. n \in 1..n
  BY <1>1
<1>13. \A j \in 1..n : j \in DOMAIN ps /\ ps[j].severity \in Int
  <2>1. \A j \in 1..n : j \in DOMAIN ps
    BY <1>1
  <2> QED
    BY <2>1, Severities
<1>14. \A key \in new.seen : Stands(new.kept, key) /\ \E j \in 1..n : Key(ps[j]) = key
  <2> SUFFICES ASSUME NEW key \in new.seen
               PROVE  Stands(new.kept, key) /\ \E j \in 1..n : Key(ps[j]) = key
    OBVIOUS
  <2>1. CASE key \in acc.seen
    BY <1>4, <1>11, <2>1 DEF FoldInv
  <2>2. CASE key \notin acc.seen
    BY <1>2, <1>5, <1>12, <2>2
  <2> QED
    BY <2>1, <2>2
<1>15. \A j \in 1..n : Key(ps[j]) \in new.seen
  BY <1>2, <1>10 DEF FoldInv
<1>16. ASSUME ~Clash(ps), NEW j \in 1..n PROVE AsBad(new.kept, ps[j].severity)
  <2>1. CASE j \in 1..(n - 1)
    BY <1>8, <1>13, <1>16, <2>1 DEF FoldInv
  <2>2. CASE j = n /\ Key(f) \notin acc.seen
    BY <1>9, <2>2
  <2>3. CASE j = n /\ Key(f) \in acc.seen
    <3>1. PICK i \in 1..(n - 1) : Key(ps[i]) = Key(f)
      BY <2>3 DEF FoldInv
    <3>2. i \in DOMAIN ps /\ n \in DOMAIN ps
      BY <1>11, <1>12, <1>13, <3>1
    <3>3. ps[i].severity = ps[n].severity
      BY <1>16, <3>1, <3>2 DEF Clash
    <3>4. AsBad(acc.kept, ps[i].severity)
      BY <1>16, <3>1 DEF FoldInv
    <3> QED
      BY <1>8, <1>13, <2>3, <3>1, <3>2, <3>3, <3>4, <1>11
  <2> QED
    BY <1>10, <2>1, <2>2, <2>3
<1> QED
  BY <1>2, <1>14, <1>15, <1>16 DEF FoldInv, new

Folds(ps, f) ==
  f = [n \in 0..Len(ps) |-> IF n = 0 THEN [kept |-> <<>>, seen |-> {}] ELSE Take(f[n - 1], ps[n])]

\* Whatever is folded away, some row stands for each finding, and one is at
\* least as bad as it.
LEMMA FoldedHas ==
  ASSUME NEW ps \in Seq(Finding)
  PROVE  /\ Folded(ps) \in Seq(Finding)
         /\ \A i \in DOMAIN ps : Stands(Folded(ps), Key(ps[i]))
         /\ ~Clash(ps) => \A i \in DOMAIN ps : AsBad(Folded(ps), ps[i].severity)
<1> DEFINE N == Len(ps)
           none == [kept |-> <<>>, seen |-> {}]
           g == [p \in Acc \X (1..N) |-> Take(p[1], ps[p[2]])]
           F == CHOOSE f : Folds(ps, f)
<1>1. N \in Nat /\ DOMAIN ps = 1..N /\ \A n \in 1..N : ps[n] \in Finding
  OBVIOUS
<1>2. none \in Acc
  BY DEF Acc
<1>3. g \in [Acc \X (1..N) -> Acc]
  <2>1. ASSUME NEW p \in Acc \X (1..N) PROVE g[p] \in Acc
    <3>1. p[1] \in Acc /\ ps[p[2]] \in Finding
      BY <1>1
    <3> QED
      BY <3>1, TakeRows
  <2> QED
    BY <2>1
<1>4. PICK h : Follows(h, N, Acc, none, g)
  <2> HIDE DEF g, N, none
  <2> QED
    BY <1>1, <1>2, <1>3, StepsExist
<1>5. ASSUME NEW n \in 1..N PROVE h[n] = Take(h[n - 1], ps[n])
  <2>1. n - 1 \in 0..N
    BY <1>1
  <2>2. <<h[n - 1], n>> \in Acc \X (1..N)
    BY <1>4, <2>1 DEF Follows
  <2> QED
    BY <1>4, <2>2 DEF Follows
<1> HIDE DEF g
<1>6. Folds(ps, h)
  <2>1. \A n \in 0..N : n # 0 => n \in 1..N
    BY <1>1
  <2>2. \A n \in 0..N : h[n] = IF n = 0 THEN none ELSE Take(h[n - 1], ps[n])
    BY <1>4, <1>5, <2>1 DEF Follows
  <2>3. h = [n \in 0..N |-> h[n]]
    BY <1>4 DEF Follows
  <2> QED
    BY <2>2, <2>3 DEF Folds
<1>7. Folds(ps, F)
  BY <1>6
<1>8. Folded(ps) = F[N].kept
  BY DEF Folded, Folds
<1> HIDE DEF F
<1> DEFINE body(f, n) == IF n = 0 THEN none ELSE Take(f[n - 1], ps[n])
<1>9. F = [n \in 0..N |-> body(F, n)]
  BY <1>7 DEF Folds
<1>10. \A n \in 0..N : F[n] = body(F, n)
  <2> HIDE DEF body
  <2> QED
    BY <1>9, Zenon
<1>11. F[0] = none /\ \A n \in 1..N : F[n] = Take(F[n - 1], ps[n])
  <2>1. 0 \in 0..N /\ \A n \in 1..N : n \in 0..N /\ n # 0
    BY <1>1
  <2> QED
    BY <1>10, <2>1
<1> HIDE DEF body
<1> DEFINE H == {n \in Nat : FoldInv(F[n], ps, n)}
<1>12. 0 \in H
  <2>1. none.seen = {} /\ \A j \in 1..0 : FALSE
    OBVIOUS
  <2> HIDE DEF none
  <2> QED
    BY <1>2, <1>11, <2>1 DEF FoldInv
<1>13. ASSUME NEW n \in 1..N, n - 1 \in H PROVE n \in H
  <2>1. n \in Nat /\ FoldInv(F[n - 1], ps, n - 1)
    BY <1>1, <1>13
  <2>2. FoldInv(Take(F[n - 1], ps[n]), ps, n)
    BY <2>1, FoldStep
  <2>3. F[n] = Take(F[n - 1], ps[n])
    BY <1>11
  <2> QED
    BY <2>1, <2>2, <2>3
<1>14. N \in H
  <2>1. \A n \in 0..N : n \in H
    <3> HIDE DEF H, N
    <3> QED
      BY <1>1, <1>12, <1>13, UpTo
  <2> QED
    BY <1>1, <2>1
<1>15. FoldInv(F[N], ps, N)
  BY <1>14
<1> QED
  BY <1>1, <1>8, <1>15 DEF FoldInv, Acc

LEMMA BySeverityHas ==
  ASSUME NEW fs \in Seq(Finding)
  PROVE  /\ BySeverity(fs) \in Seq(Finding)
         /\ \A k \in DOMAIN fs : Holds(BySeverity(fs), fs[k])
<1> DEFINE At(s) == Picked(fs, {k \in DOMAIN fs : fs[k].severity = s})
<1>1. \A s : /\ At(s) \in Seq(Finding)
             /\ \A k \in DOMAIN fs : fs[k].severity = s => Holds(At(s), fs[k])
  BY PickedHas
<1>2. \A k \in DOMAIN fs : fs[k].severity \in 1..5
  BY Severities
<1>3. BySeverity(fs) = At(1) \o At(2) \o At(3) \o At(4) \o At(5)
  BY DEF BySeverity
<1> HIDE DEF At
<1> DEFINE two == At(1) \o At(2)
           three == two \o At(3)
           four == three \o At(4)
<1>4. two \in Seq(Finding) /\ \A y : Holds(At(1), y) \/ Holds(At(2), y) => Holds(two, y)
  BY <1>1, ConcatHolds
<1> HIDE DEF two
<1>5. three \in Seq(Finding) /\ \A y : Holds(two, y) \/ Holds(At(3), y) => Holds(three, y)
  BY <1>1, <1>4, ConcatHolds
<1> HIDE DEF three
<1>6. four \in Seq(Finding) /\ \A y : Holds(three, y) \/ Holds(At(4), y) => Holds(four, y)
  BY <1>1, <1>5, ConcatHolds
<1> HIDE DEF four
<1>7. /\ four \o At(5) \in Seq(Finding)
      /\ \A y : Holds(four, y) \/ Holds(At(5), y) => Holds(four \o At(5), y)
  BY <1>1, <1>6, ConcatHolds
<1>8. BySeverity(fs) = four \o At(5)
  BY <1>3 DEF two, three, four
<1>9. ASSUME NEW k \in DOMAIN fs PROVE Holds(BySeverity(fs), fs[k])
  <2>1. \/ Holds(At(1), fs[k]) \/ Holds(At(2), fs[k]) \/ Holds(At(3), fs[k])
        \/ Holds(At(4), fs[k]) \/ Holds(At(5), fs[k])
    <3>1. \A i \in 1..5 : i = 1 \/ i = 2 \/ i = 3 \/ i = 4 \/ i = 5
      OBVIOUS
    <3> QED
      BY <1>1, <1>2, <3>1, Zenon
  <2> QED
    BY <1>4, <1>5, <1>6, <1>7, <1>8, <2>1, Zenon
<1> QED
  BY <1>7, <1>8, <1>9

-----------------------------------------------------------------------------
(* Every finding has the fields the leader reads.                          *)

Envelope == [status : Statuses, findings : Seq(Finding)]

LEMMA RaisedFinding ==
  ASSUME NEW f \in Raised
  PROVE  f \in RawFinding
BY PanelAssumption

LEMMA InReviewType ==
  ASSUME NEW f \in Raised, NEW who \in ToSet(Voters) \cup {"tools"},
         NEW v \in {"none", "VERIFIED", "NOT_REPRODUCIBLE", "NEEDS_RUNTIME"}, NEW n \in -1..100
  PROVE  InReview(f, who, v, n) \in Finding
BY RaisedFinding DEF InReview, RawFinding, Finding

LEMMA ScoreType ==
  ASSUME NEW f \in Finding, NEW all
  PROVE  score_finding(f, all) \in -1..100
<1>1. SELF_POINTS(f.confidence) \in 0..40
  <2>1. f.confidence = "certain" \/ f.confidence = "likely" \/ f.confidence = "possible"
    BY DEF Finding
  <2> QED
    BY <2>1 DEF SELF_POINTS
<1>2. VERIFICATION_POINTS(f.verification) \in 0..40
  BY DEF VERIFICATION_POINTS
<1> DEFINE extra == IF corroborated(f, all) THEN 20 ELSE 0
<1>3. extra \in 0..20
  OBVIOUS
<1>4. score_finding(f, all) =
        IF f.verification = "NOT_REPRODUCIBLE" THEN 0
        ELSE SELF_POINTS(f.confidence) + VERIFICATION_POINTS(f.verification) + extra
  BY DEF score_finding
<1> HIDE DEF extra
<1> QED
  BY <1>1, <1>2, <1>3, <1>4

LEMMA PassingType ==
  ASSUME outputs \in Seq(Envelope)
  PROVE  Passing \in Seq(Finding)
<1> DEFINE kept == [i \in DOMAIN outputs |->
                      Picked(outputs[i].findings,
                             {k \in DOMAIN outputs[i].findings : Kept(outputs[i].findings[k])})]
<1>1. \A i \in DOMAIN outputs : outputs[i].findings \in Seq(Finding)
  <2>1. \A i \in DOMAIN outputs : outputs[i] \in Envelope
    OBVIOUS
  <2> QED
    BY <2>1 DEF Envelope
<1>2. \A i \in DOMAIN outputs : kept[i] \in Seq(Finding)
  BY <1>1, PickedHas
<1>3. DOMAIN outputs = 1..Len(outputs) /\ Len(outputs) \in Nat
  OBVIOUS
<1>4. kept \in [1..Len(outputs) -> Seq(Finding)]
  <2>1. kept = [i \in 1..Len(outputs) |-> kept[i]]
    BY <1>3
  <2> HIDE DEF kept
  <2> QED
    BY <1>2, <1>3, <2>1
<1>5. Passing = FlattenSeq(kept)
  BY DEF Passing
<1> HIDE DEF kept
<1> DEFINE T == Seq(Finding)
<1>6. kept \in Seq(T)
  <2>1. kept \in [1..Len(outputs) -> T]
    BY <1>4
  <2> HIDE DEF T
  <2> QED
    BY <1>3, <2>1
<1> QED
  BY <1>5, <1>6, FlattenType

LEMMA LedRows ==
  ASSUME outputs \in Seq(Envelope)
  PROVE  LET kept == BySeverity(Folded(Passing))
         IN  /\ kept \in Seq(Finding)
             /\ \A i \in DOMAIN Passing : Stands(kept, Key(Passing[i]))
             /\ ~Clash(Passing) => \A i \in DOMAIN Passing : AsBad(kept, Passing[i].severity)
<1> DEFINE ps == Passing
           rows == Folded(ps)
           kept == BySeverity(rows)
<1>1. ps \in Seq(Finding)
  BY PassingType
<1> HIDE DEF ps
<1>2. /\ rows \in Seq(Finding)
      /\ \A i \in DOMAIN ps : Stands(rows, Key(ps[i]))
      /\ ~Clash(ps) => \A i \in DOMAIN ps : AsBad(rows, ps[i].severity)
  BY <1>1, FoldedHas
<1> HIDE DEF rows
<1>3. kept \in Seq(Finding) /\ \A k \in DOMAIN rows : Holds(kept, rows[k])
  BY <1>2, BySeverityHas
<1> HIDE DEF kept
<1>4. \A key : Stands(rows, key) => Stands(kept, key)
  BY <1>3 DEF Stands, Holds
<1>5. \A s : AsBad(rows, s) => AsBad(kept, s)
  BY <1>3 DEF AsBad, Holds
<1> QED
  BY <1>2, <1>3, <1>4, <1>5 DEF ps, rows, kept

-----------------------------------------------------------------------------
(* What every state of a review satisfies.                                 *)

VoterTypes ==
  /\ at \in {"idle", "start", "ask", "forced", "done"}
  /\ provider \in {"own", "fallback"}
  /\ attempts \in Nat
  /\ output.status \in Statuses \cup {"none"} /\ output.findings \in Seq(Raised)
  /\ at = "done" => output.status # "none"

StageTypes ==
  /\ stage \in {"tools", "vote", "verify", "lead", "merge", "done", "refused"}
  /\ mode \in {"fast", "standard"}
  /\ stage = "vote" => roster \in Seq(ToSet(Voters)) /\ roster # <<>>
  /\ outputs \in Seq(Envelope)
  /\ result.findings \in Seq(Finding)

LEMMA StatusesAreNot ==
  "none" \notin Statuses /\ "BLOCKED_TOOL_FAILURE" \in Statuses
BY DEF Statuses

LEMMA VoterStepTypes == ASSUME VoterTypes, VoterStep PROVE VoterTypes'
<1> USE DEF VoterTypes
<1>0. "none" \notin Statuses /\ "BLOCKED_TOOL_FAILURE" \in Statuses /\ <<>> \in Seq(Raised)
  BY StatusesAreNot
<1>1. CASE BeginAttempt
  BY <1>1 DEF BeginAttempt
<1>2. ASSUME GiveUp
      PROVE  /\ output'.status \in Statuses \cup {"none"} /\ output'.findings \in Seq(Raised)
             /\ output'.status # "none"
  <2>1. output'.status = "BLOCKED_TOOL_FAILURE" /\ output'.findings = <<>>
    BY <1>2 DEF GiveUp
  <2> QED
    BY <1>0, <2>1
<1>3. ASSUME at # "done", FailedAttempt PROVE VoterTypes'
  BY <1>2, <1>3 DEF FailedAttempt
<1>4. CASE Answers
  <2>1. PICK v \in Verdicts : output' = [status |-> v.status, findings |-> v.findings,
                                        substituted |-> provider = "fallback"]
    BY <1>4 DEF Answers
  <2>2. output'.status = v.status /\ output'.findings = v.findings
    BY <2>1
  <2>3. v.status \in Statuses /\ v.findings \in Seq(Raised)
    BY PanelAssumption
  <2> QED
    BY <1>0, <1>4, <2>2, <2>3 DEF Answers
<1>5. CASE ProviderFails
  BY <1>2, <1>5 DEF ProviderFails
<1>6. ASSUME at = "ask", NEW what, Continue(what) PROVE VoterTypes'
  BY <1>6 DEF Continue
<1>7. CASE ReplyEmpty \/ ReplyMalformed \/ ReplyUnreadable \/ ReplyForeignRequest
  BY <1>3, <1>6, <1>7 DEF ReplyEmpty, ReplyMalformed, ReplyUnreadable, ReplyForeignRequest
<1>8. CASE ReplyToolRequest
  BY <1>6, <1>8 DEF ReplyToolRequest, ForceVerdict
<1> QED
  BY <1>1, <1>3, <1>4, <1>5, <1>7, <1>8 DEF VoterStep, AttemptFails

LEMMA NextVoterTypes == VoterTypes /\ [PanelNext]_reviewVars => VoterTypes'
<1> SUFFICES ASSUME VoterTypes, [PanelNext]_reviewVars PROVE VoterTypes'
  OBVIOUS
<1>0. NoOutput.status = "none" /\ NoOutput.findings = <<>> /\ <<>> \in Seq(Raised)
  BY DEF NoOutput
<1>1. CASE UNCHANGED voterVars
  BY <1>1 DEF voterVars, VoterTypes
<1>2. CASE Ask
  <2>1. at' = "start" /\ provider' = "own" /\ attempts' = 0 /\ output' = NoOutput
    BY <1>2 DEF Ask, VoterStart
  <2>2. output'.status = "none" /\ output'.findings = <<>>
    BY <1>0, <2>1
  <2> QED
    BY <1>0, <2>1, <2>2 DEF VoterTypes
<1>3. CASE Reply
  BY <1>3, VoterStepTypes DEF Reply
<1>4. CASE Collect
  BY <1>0, <1>4 DEF Collect, VoterTypes
<1> QED
  BY <1>1, <1>2, <1>3, <1>4 DEF PanelNext, RunTools, Verify, Lead, Merge, reviewVars

LEMMA RunToolsTypes == ASSUME StageTypes, RunTools PROVE StageTypes'
<1>1. outputs' \in Seq(Envelope)
  <2>1. PICK r \in ToolReports :
          outputs' = IF mode = "fast" \/ r = <<>> THEN <<>>
                     ELSE <<[status |-> "OK", findings |-> [i \in DOMAIN r |-> ToolFinding(r[i])]]>>
    BY DEF RunTools
  <2> DEFINE fs == [i \in DOMAIN r |-> ToolFinding(r[i])]
  <2>2. r \in Seq(Raised)
    BY PanelAssumption
  <2>3. \A i \in DOMAIN r : r[i] \in Raised
    BY <2>2
  <2>4. \A f \in Raised : ToolFinding(f) \in Finding
    BY InReviewType DEF ToolFinding
  <2>5. fs \in [1..Len(r) -> Finding] /\ Len(r) \in Nat
    BY <2>2, <2>3, <2>4
  <2> HIDE DEF fs
  <2>6. [status |-> "OK", findings |-> fs] \in Envelope
    BY <2>5 DEF Envelope, Statuses
  <2> QED
    BY <2>1, <2>6 DEF fs
<1>2. stage' = "vote" => roster' \in Seq(ToSet(Voters)) /\ roster' # <<>>
  <2>1. PICK failed \in SUBSET ToSet(Voters) :
          LET able == Picked(Voters, {i \in DOMAIN Voters : Voters[i] \notin failed})
              fast == Picked(able, {i \in DOMAIN able : able[i] = Style})
          IN  /\ stage' = IF able = <<>> THEN "refused" ELSE "vote"
              /\ roster' = IF able = <<>> \/ mode = "standard" THEN able
                           ELSE IF fast # <<>> THEN fast ELSE <<Head(able)>>
    BY DEF RunTools
  <2> DEFINE able == Picked(Voters, {i \in DOMAIN Voters : Voters[i] \notin failed})
             fast == Picked(able, {i \in DOMAIN able : able[i] = Style})
  <2>2. able \in Seq(ToSet(Voters))
    BY PanelAssumption, PickedHas
  <2> HIDE DEF able
  <2>3. fast \in Seq(ToSet(Voters))
    BY <2>2, PickedHas
  <2> HIDE DEF fast
  <2>4. able # <<>> => <<Head(able)>> \in Seq(ToSet(Voters)) /\ <<Head(able)>> # <<>>
    BY <2>2
  <2>5. /\ stage' = IF able = <<>> THEN "refused" ELSE "vote"
        /\ roster' = IF able = <<>> \/ mode = "standard" THEN able
                     ELSE IF fast # <<>> THEN fast ELSE <<Head(able)>>
    BY <2>1 DEF able, fast
  <2> QED
    BY <2>2, <2>3, <2>4, <2>5
<1>3. stage' \in {"vote", "refused"} /\ mode' = mode /\ result' = result
  BY DEF RunTools
<1> QED
  BY <1>1, <1>2, <1>3 DEF StageTypes

LEMMA CollectTypes == ASSUME StageTypes, VoterTypes, Collect PROVE StageTypes'
<1> DEFINE fs == [i \in DOMAIN output.findings |-> VoterFinding(output.findings[i], Head(roster))]
           v == [status |-> output.status, findings |-> fs]
<1>1. /\ roster \in Seq(ToSet(Voters)) /\ roster # <<>>
      /\ output.findings \in Seq(Raised) /\ output.status \in Statuses
  BY DEF Collect, StageTypes, VoterTypes
<1>2. Head(roster) \in ToSet(Voters)
  BY <1>1
<1>3. \A f \in Raised : VoterFinding(f, Head(roster)) \in Finding
  BY <1>2, InReviewType DEF VoterFinding
<1>4. \A i \in DOMAIN output.findings : output.findings[i] \in Raised
  BY <1>1
<1>5. fs \in [1..Len(output.findings) -> Finding] /\ Len(output.findings) \in Nat
  BY <1>1, <1>3, <1>4
<1>6. outputs' = Append(outputs, v)
  BY DEF Collect
<1> HIDE DEF fs
<1>7. v \in Envelope
  BY <1>1, <1>5 DEF Envelope
<1> HIDE DEF v
<1>8. outputs' \in Seq(Envelope)
  BY <1>6, <1>7 DEF StageTypes
<1>9. /\ roster' = Tail(roster) /\ stage' \in {"vote", "lead", "verify"}
      /\ stage' = "vote" => Len(roster) > 1
      /\ mode' = mode /\ result' = result
  BY DEF Collect
<1>10. Tail(roster) \in Seq(ToSet(Voters)) /\ (Len(roster) > 1 => Tail(roster) # <<>>)
  <2>1. Tail(roster) \in Seq(ToSet(Voters)) /\ Len(Tail(roster)) = Len(roster) - 1
        /\ Len(roster) \in Nat
    BY <1>1
  <2>2. Tail(roster) = <<>> => Len(Tail(roster)) = 0
    <3>1. Len(<<>>) = 0
      OBVIOUS
    <3> QED
      BY <3>1, Zenon
  <2>3. Len(roster) > 1 => Len(Tail(roster)) # 0
    BY <2>1
  <2> QED
    BY <2>1, <2>2, <2>3, Zenon
<1> QED
  BY <1>8, <1>9, <1>10 DEF StageTypes

\* A finding marked or scored is a finding still, wherever it is.
LEMMA VerifyTypes == ASSUME StageTypes, Verify PROVE StageTypes'
<1>0. outputs \in Seq(Envelope) /\ DOMAIN outputs = 1..Len(outputs) /\ Len(outputs) \in Nat
  BY DEF StageTypes
<1>1. \A i \in DOMAIN outputs :
        outputs[i] \in Envelope /\ outputs[i].findings \in Seq(Finding)
        /\ \A k \in DOMAIN outputs[i].findings : outputs[i].findings[k] \in Finding
  <2>1. \A i \in DOMAIN outputs : outputs[i] \in Envelope
    BY <1>0
  <2>2. \A e \in Envelope : e.findings \in Seq(Finding)
    BY DEF Envelope
  <2>3. \A fs \in Seq(Finding) : \A k \in DOMAIN fs : fs[k] \in Finding
    OBVIOUS
  <2> QED
    BY <2>1, <2>2, <2>3
<1>2. ASSUME NEW e \in Envelope, NEW fs \in [DOMAIN e.findings -> Finding]
      PROVE  [e EXCEPT !.findings = fs] \in Envelope
  <2>1. e.findings \in Seq(Finding) /\ e.status \in Statuses
    BY DEF Envelope
  <2>2. DOMAIN e.findings = 1..Len(e.findings) /\ Len(e.findings) \in Nat
    BY <2>1
  <2>3. fs \in Seq(Finding)
    BY <2>2
  <2> QED
    BY <2>1, <2>3 DEF Envelope
<1>3. CASE Unverified = {}
  <2> DEFINE Scored(f) == IF f.score >= 0 THEN f
                          ELSE [f EXCEPT !.score = score_finding(f, AllFindings)]
             new == [i \in DOMAIN outputs |-> [outputs[i] EXCEPT !.findings =
                       [k \in DOMAIN outputs[i].findings |-> Scored(outputs[i].findings[k])]]]
  <2>1. outputs' = new /\ stage' = "lead"
    BY <1>3 DEF Verify
  <2>2. ASSUME NEW f \in Finding PROVE Scored(f) \in Finding
    <3>1. score_finding(f, AllFindings) \in -1..100
      BY ScoreType
    <3> QED
      BY <3>1 DEF Finding
  <2> HIDE DEF Scored
  <2>3. ASSUME NEW i \in DOMAIN outputs PROVE new[i] \in Envelope
    <3> DEFINE fs == [k \in DOMAIN outputs[i].findings |-> Scored(outputs[i].findings[k])]
    <3>1. fs \in [DOMAIN outputs[i].findings -> Finding]
      BY <1>1, <2>2
    <3>2. new[i] = [outputs[i] EXCEPT !.findings = fs]
      OBVIOUS
    <3> HIDE DEF fs, new
    <3> QED
      BY <1>1, <1>2, <3>1, <3>2
  <2>4. new \in [1..Len(outputs) -> Envelope]
    <3>1. new = [i \in 1..Len(outputs) |-> new[i]]
      BY <1>0
    <3> HIDE DEF new
    <3> QED
      BY <1>0, <2>3, <3>1
  <2> HIDE DEF new
  <2>5. outputs' \in Seq(Envelope)
    BY <1>0, <2>1, <2>4
  <2> QED
    BY <2>1, <2>5 DEF StageTypes, Verify
<1>4. CASE Unverified # {}
  <2> DEFINE p == CHOOSE q \in Unverified :
                    \A r \in Unverified : q[1] < r[1] \/ (q[1] = r[1] /\ q[2] <= r[2])
  <2>1. PICK v \in {"VERIFIED", "NOT_REPRODUCIBLE", "NEEDS_RUNTIME"} :
          outputs' = [outputs EXCEPT ![p[1]].findings[p[2]].verification = v]
    BY <1>4 DEF Verify
  <2>2. stage' = stage
    BY <1>4 DEF Verify
  <2> HIDE DEF p
  <2>3. ASSUME NEW i \in DOMAIN outputs PROVE outputs'[i] \in Envelope
    <3> DEFINE old == outputs[i].findings
               fs == [old EXCEPT ![p[2]].verification = v]
    <3>1. outputs'[i] = IF i = p[1] THEN [outputs[i] EXCEPT !.findings = fs] ELSE outputs[i]
      BY <2>1
    <3>2. \A f \in Finding : [f EXCEPT !.verification = v] \in Finding
      BY DEF Finding
    <3>3. fs \in [DOMAIN old -> Finding]
      <4>1. \A k \in DOMAIN old :
              fs[k] = IF k = p[2] THEN [old[k] EXCEPT !.verification = v] ELSE old[k]
        OBVIOUS
      <4>2. \A k \in DOMAIN old : fs[k] \in Finding
        BY <1>1, <3>2, <4>1
      <4>3. fs = [k \in DOMAIN old |-> fs[k]]
        OBVIOUS
      <4> HIDE DEF fs, old
      <4> QED
        BY <4>2, <4>3
    <3> HIDE DEF fs
    <3> QED
      BY <1>1, <1>2, <3>1, <3>3
  <2>4. outputs' = [i \in 1..Len(outputs) |-> outputs'[i]]
    BY <1>0, <2>1
  <2>5. outputs' \in Seq(Envelope)
    BY <1>0, <2>3, <2>4
  <2> QED
    BY <2>2, <2>5 DEF StageTypes, Verify
<1> QED
  BY <1>3, <1>4

LEMMA LeadTypes == ASSUME StageTypes, Lead PROVE StageTypes'
<1> DEFINE kept == BySeverity(Folded(Passing))
<1>1. kept \in Seq(Finding)
  BY LedRows DEF StageTypes
<1> HIDE DEF kept
<1>2. result' = [verdict |-> VerdictOf(kept), findings |-> kept]
  BY DEF Lead, kept
<1>3. result'.findings = kept
  BY <1>2
<1>4. stage' \in {"done", "merge"} /\ mode' = mode /\ roster' = roster /\ outputs' = outputs
  BY DEF Lead
<1> QED
  BY <1>1, <1>3, <1>4 DEF StageTypes

\* The rows a merge keeps are rows of the report.
LEMMA MergeRows ==
  ASSUME Merge
  PROVE  \E rep \in [DOMAIN result.findings -> DOMAIN result.findings] :
           /\ \A k \in DOMAIN result.findings :
                /\ rep[rep[k]] = rep[k]
                /\ rep[k] = k \/ Outranks(result.findings[rep[k]], result.findings[k])
           /\ result' = [result EXCEPT !.findings =
                Picked(result.findings, {k \in DOMAIN result.findings : rep[k] = k})]
BY DEF Merge

\* The leader's report has the one verdict and its findings, or none.
ResultTypes ==
  /\ result = [verdict |-> result.verdict, findings |-> result.findings]
  /\ result.findings \in Seq(Finding)

LEMMA MergeTypes ==
  ASSUME ResultTypes, Merge
  PROVE  /\ ResultTypes' /\ result'.verdict = result.verdict
         /\ \A k \in DOMAIN result.findings : \E j \in DOMAIN result'.findings :
              result'.findings[j].severity <= result.findings[k].severity
<1> DEFINE fs == result.findings
<1>0. fs \in Seq(Finding)
  BY DEF ResultTypes
<1>1. PICK rep \in [DOMAIN fs -> DOMAIN fs] :
        /\ \A k \in DOMAIN fs : rep[rep[k]] = rep[k] /\ (rep[k] = k \/ Outranks(fs[rep[k]], fs[k]))
        /\ result' = [result EXCEPT !.findings = Picked(fs, {k \in DOMAIN fs : rep[k] = k})]
  BY MergeRows
<1> DEFINE chosen == Picked(fs, {k \in DOMAIN fs : rep[k] = k})
<1>2. /\ chosen \in Seq(Finding)
      /\ \A k \in DOMAIN fs : rep[k] = k => Holds(chosen, fs[k])
  BY <1>0, PickedHas
<1>3. result' = [result EXCEPT !.findings = chosen]
  BY <1>1
<1> HIDE DEF chosen
<1>4. ResultTypes' /\ result'.verdict = result.verdict /\ result'.findings = chosen
  BY <1>0, <1>2, <1>3 DEF ResultTypes
<1>5. ASSUME NEW k \in DOMAIN fs
      PROVE  \E j \in DOMAIN chosen : chosen[j].severity <= fs[k].severity
  <2>1. rep[k] \in DOMAIN fs /\ rep[rep[k]] = rep[k]
    BY <1>1
  <2>2. fs[k].severity \in Int /\ fs[rep[k]].severity \in Int
    BY <1>0, <2>1, Severities
  <2>3. fs[rep[k]].severity <= fs[k].severity
    <3>1. CASE rep[k] = k
      BY <2>2, <3>1
    <3>2. CASE Outranks(fs[rep[k]], fs[k])
      BY <2>2, <3>2 DEF Outranks
    <3> QED
      BY <1>1, <3>1, <3>2
  <2>4. PICK j \in DOMAIN chosen : chosen[j] = fs[rep[k]]
    BY <1>2, <2>1 DEF Holds
  <2> QED
    BY <2>3, <2>4
<1> QED
  BY <1>4, <1>5

\* The inductive invariant of a review; a fast one is never merged.
PanelInv ==
  /\ TurnInv /\ VoterTypes /\ StageTypes /\ ResultTypes
  /\ stage = "merge" => mode # "fast"
  /\ SitesSurviveFolding /\ VerdictMatchesReport

LEMMA NextStage ==
  ASSUME StageTypes, VoterTypes, ResultTypes, [PanelNext]_reviewVars
  PROVE  StageTypes' /\ ResultTypes'
<1>1. CASE RunTools \/ Collect \/ Verify
  <2>1. StageTypes'
    BY <1>1, RunToolsTypes, CollectTypes, VerifyTypes
  <2>2. result' = result
    BY <1>1 DEF RunTools, Collect, Verify
  <2> QED
    BY <2>1, <2>2 DEF ResultTypes
<1>2. CASE Lead
  <2> DEFINE kept == BySeverity(Folded(Passing))
  <2>1. kept \in Seq(Finding)
    BY LedRows DEF StageTypes
  <2> HIDE DEF kept
  <2>2. result' = [verdict |-> VerdictOf(kept), findings |-> kept]
    BY <1>2 DEF Lead, kept
  <2>3. ResultTypes'
    BY <2>1, <2>2 DEF ResultTypes
  <2> QED
    BY <1>2, <2>3, LeadTypes
<1>3. CASE Merge
  <2>1. ResultTypes'
    BY <1>3, MergeTypes
  <2>2. stage' = "done" /\ mode' = mode /\ roster' = roster /\ outputs' = outputs
    BY <1>3 DEF Merge
  <2> QED
    BY <2>1, <2>2 DEF StageTypes, ResultTypes
<1>4. CASE UNCHANGED panelVars
  BY <1>4 DEF panelVars, StageTypes, ResultTypes
<1> QED
  BY <1>1, <1>2, <1>3, <1>4 DEF PanelNext, Ask, Reply, reviewVars

LEMMA LeadReports ==
  ASSUME StageTypes, Lead
  PROVE  SitesSurviveFolding' /\ VerdictMatchesReport'
<1> DEFINE kept == BySeverity(Folded(Passing))
           ps == Passing
<1>1. /\ kept \in Seq(Finding)
      /\ \A i \in DOMAIN ps : Stands(kept, Key(ps[i]))
      /\ ~Clash(ps) => \A i \in DOMAIN ps : AsBad(kept, ps[i].severity)
  BY LedRows DEF StageTypes
<1>2. ps \in Seq(Finding)
  BY PassingType DEF StageTypes
<1>3. result' = [verdict |-> VerdictOf(kept), findings |-> kept] /\ outputs' = outputs
  BY DEF Lead
<1>4. ps' = ps /\ Blocked' = Blocked
  BY <1>3 DEF Passing, Blocked, HowMany
<1> HIDE DEF kept, ps
<1>5. result'.findings = kept /\ result'.verdict = VerdictOf(kept)
  BY <1>3
<1>6. SitesSurviveFolding'
  <2>1. ASSUME NEW i \in DOMAIN ps
        PROVE  \E k \in DOMAIN kept : kept[k].title = ps[i].title /\ ps[i].file \in Sites(kept[k])
    <3>1. Key(ps[i])[1] = ps[i].file /\ Key(ps[i])[3] = ps[i].title
      BY DEF Key
    <3> QED
      BY <1>1, <3>1 DEF Stands
  <2>2. Covered'
    BY <1>4, <1>5, <2>1 DEF Covered, ps
  <2> QED
    BY <2>2 DEF SitesSurviveFolding
<1>7. ASSUME ~Clash(ps), VerdictOf(kept) \in CLEAN, NEW i \in DOMAIN ps
      PROVE  ps[i].severity \notin ACTIONABLE
  <2>1. \A k \in DOMAIN kept : kept[k].severity \notin ACTIONABLE
    BY <1>7 DEF VerdictOf, CLEAN
  <2>2. PICK k \in DOMAIN kept : kept[k].severity <= ps[i].severity
    BY <1>1, <1>7 DEF AsBad
  <2>3. kept[k].severity \in 1..5 /\ ps[i].severity \in 1..5
    BY <1>1, <1>2, Severities
  <2> QED
    BY <2>1, <2>2, <2>3 DEF ACTIONABLE
<1>8. ASSUME VerdictOf(kept) = "REQUEST_CHANGES", Blocked # 2
      PROVE  \E k \in DOMAIN kept : kept[k].severity \in ACTIONABLE
  BY <1>8 DEF VerdictOf
<1>9. VerdictMatchesReport'
  BY <1>4, <1>5, <1>7, <1>8 DEF VerdictMatchesReport, ps
<1> QED
  BY <1>6, <1>9

\* A merge changes neither the verdict nor what it was drawn from, and leaves a
\* row as bad as each it takes away.
LEMMA MergeReports ==
  ASSUME StageTypes, ResultTypes, VerdictMatchesReport, Merge PROVE VerdictMatchesReport'
<1> DEFINE ps == Passing
<1>1. stage = "merge" /\ outputs' = outputs
  BY DEF Merge
<1>2. ps' = ps /\ Blocked' = Blocked
  BY <1>1 DEF Passing, Blocked, HowMany
<1>3. /\ ResultTypes' /\ result'.verdict = result.verdict
      /\ \A k \in DOMAIN result.findings : \E j \in DOMAIN result'.findings :
           result'.findings[j].severity <= result.findings[k].severity
  BY MergeTypes
<1>4. result.findings \in Seq(Finding) /\ result'.findings \in Seq(Finding)
  BY <1>3 DEF ResultTypes
<1>5. ~Clash(ps) =>
        /\ result.verdict \in CLEAN => \A i \in DOMAIN ps : ps[i].severity \notin ACTIONABLE
        /\ result.verdict = "REQUEST_CHANGES" /\ Blocked # 2 =>
             \E k \in DOMAIN result.findings : result.findings[k].severity \in ACTIONABLE
  BY <1>1 DEF VerdictMatchesReport
<1>6. ASSUME NEW k \in DOMAIN result.findings, result.findings[k].severity \in ACTIONABLE
      PROVE  \E j \in DOMAIN result'.findings : result'.findings[j].severity \in ACTIONABLE
  <2>1. PICK j \in DOMAIN result'.findings :
          result'.findings[j].severity <= result.findings[k].severity
    BY <1>3
  <2>2. result'.findings[j].severity \in 1..5
    BY <1>4, Severities
  <2>3. result'.findings[j].severity \in ACTIONABLE
    BY <1>6, <2>1, <2>2 DEF ACTIONABLE
  <2> QED
    BY <2>3
<1> HIDE DEF ps
<1>7. ~Clash(ps) =>
        /\ result'.verdict \in CLEAN => \A i \in DOMAIN ps : ps[i].severity \notin ACTIONABLE
        /\ result'.verdict = "REQUEST_CHANGES" /\ Blocked # 2 =>
             \E k \in DOMAIN result'.findings : result'.findings[k].severity \in ACTIONABLE
  BY <1>3, <1>5, <1>6
<1> QED
  BY <1>2, <1>7 DEF VerdictMatchesReport, ps

LEMMA NextReports == PanelInv /\ [PanelNext]_reviewVars => PanelInv'
<1> SUFFICES ASSUME PanelInv, [PanelNext]_reviewVars PROVE PanelInv'
  OBVIOUS
<1>1. TurnInv' /\ VoterTypes' /\ StageTypes' /\ ResultTypes'
  BY NextTurn, NextVoterTypes, NextStage DEF PanelInv
<1>2. (stage = "merge" => mode # "fast")'
  BY DEF PanelInv, PanelNext, RunTools, Ask, Reply, Collect, Verify, Lead, Merge, reviewVars,
         panelVars
<1>3. CASE Lead
  BY <1>1, <1>2, <1>3, LeadReports DEF PanelInv
<1>4. CASE Merge
  <2>1. stage' = "done" /\ mode' = mode /\ mode # "fast"
    BY <1>4 DEF Merge, PanelInv
  <2>2. SitesSurviveFolding'
    BY <2>1 DEF SitesSurviveFolding, Reported
  <2> QED
    BY <1>1, <1>2, <1>4, <2>2, MergeReports DEF PanelInv
<1>5. CASE stage' \notin {"merge", "done"}
  BY <1>1, <1>2, <1>5 DEF PanelInv, SitesSurviveFolding, Reported, VerdictMatchesReport
<1>6. CASE UNCHANGED panelVars
  BY <1>1, <1>2, <1>6
  DEF PanelInv, SitesSurviveFolding, Reported, VerdictMatchesReport, panelVars, Covered, Passing,
      Blocked, HowMany
<1>7. (RunTools \/ Collect \/ Verify) /\ StageTypes => stage' \notin {"merge", "done"}
  BY DEF RunTools, Collect, Verify
<1> QED
  BY <1>3, <1>4, <1>5, <1>6, <1>7 DEF PanelNext, Ask, Reply, reviewVars, PanelInv

LEMMA PanelStarts == PanelInit => PanelInv
<1> SUFFICES ASSUME PanelInit PROVE PanelInv
  OBVIOUS
<1>1. TurnInv
  BY TurnStarts
<1>2. VoterTypes
  BY DEF PanelInit, VoterInit, VoterTypes, NoOutput
<1>3. /\ stage = "tools" /\ mode \in {"fast", "standard"} /\ outputs = <<>>
      /\ result.findings = <<>> /\ result.verdict = "none"
      /\ result = [verdict |-> "none", findings |-> <<>>]
  BY DEF PanelInit, NoResult
<1>4. StageTypes /\ ResultTypes
  <2>1. <<>> \in Seq(Envelope) /\ <<>> \in Seq(Finding)
    OBVIOUS
  <2>2. stage # "vote"
    BY <1>3
  <2> QED
    BY <1>3, <2>1, <2>2 DEF StageTypes, ResultTypes
<1> QED
  BY <1>1, <1>2, <1>3, <1>4
  DEF PanelInv, SitesSurviveFolding, Reported, VerdictMatchesReport

LEMMA PanelInvHolds == PanelSpec => []PanelInv
<1>1. PanelInit => PanelInv
  BY PanelStarts
<1> QED
  BY <1>1, NextReports, PTL DEF PanelSpec

\* A review's data keeps its shape.
THEOREM PanelTypeCorrect == PanelSpec => []PanelTypeOK
<1>1. PanelInv => PanelTypeOK
  BY DEF PanelInv, PanelTypeOK, TurnInv, Turns, VoterTypes, StageTypes, Envelope
<1> QED
  BY <1>1, PanelInvHolds, PTL

\* Whatever is folded into another row (leader.py:86-114), the report the leader
\* writes names every file an issue was found in.
THEOREM SitesAlwaysSurvive == PanelSpec => []SitesSurviveFolding
<1>1. PanelInv => SitesSurviveFolding
  BY DEF PanelInv
<1> QED
  BY <1>1, PanelInvHolds, PTL

\* Neither folding nor a model's merge softens a report: a clean verdict was drawn
\* from findings none of which is actionable, and a request for changes on the
\* findings still holds one (leader.py:84-132 and 166-214).
THEOREM VerdictsMatchReports == PanelSpec => []VerdictMatchesReport
<1>1. PanelInv => VerdictMatchesReport
  BY DEF PanelInv
<1> QED
  BY <1>1, PanelInvHolds, PTL
=============================================================================

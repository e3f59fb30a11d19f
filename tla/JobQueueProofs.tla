---------------------------- MODULE JobQueueProofs ----------------------------
(***************************************************************************)
(* What TLAPS proves of the job queue, for any number of workers and jobs. *)
(* Until the host is suspended the argument is one of timing: a claim is   *)
(* exactly as old as the time its worker has had the job, a live worker    *)
(* never has a job longer than Timeout + Slack, and that is never past     *)
(* MaxAge; so requeue_stale only ever takes rows from dead workers.  From  *)
(* then on all that is left is that a worker's job is one of the table's.  *)
(***************************************************************************)
EXTENDS JobQueue, TLAPS

\* Rows not yet inserted are blank.
Blank == \A i \in Ids : i > last => jobs[i] = [status |-> "none",
                                               worker |-> Nobody, age |-> 0]

\* A worker with a job in hand owns the row, and the claim is as old as the
\* time the worker has had the job.
Owns(w) == pc[w] \in Busy => /\ cur[w] \in Ids
                             /\ jobs[cur[w]].status = "running"
                             /\ jobs[cur[w]].worker = w
                             /\ jobs[cur[w]].age = held[w]
                             /\ held[w] <= Timeout + Slack

\* The job in hand is a row of the table, whosever it is.
Known(w) == pc[w] \in Busy => cur[w] \in Ids /\ jobs[cur[w]].status # "none"

IInv == /\ TypeOK
        /\ Blank
        /\ \A w \in Workers : Known(w)
        /\ slept \/ \A w \in Workers : Owns(w)

-----------------------------------------------------------------------------
(* What the table's operations return.                                     *)

LEMMA OlderType ==
  ASSUME NEW row \in Row PROVE Older(row) \in Row
BY QueueAssumption DEF Older, Row

LEMMA AncientType ==
  ASSUME NEW row \in Row PROVE Ancient(row) \in Row
BY QueueAssumption DEF Ancient, Row

LEMMA RequeuedType ==
  ASSUME jobs \in [Ids -> Row] PROVE Requeued(jobs) \in [Ids -> Row]
BY QueueAssumption DEF Requeued, Row, Statuses

LEMMA CompletedType ==
  ASSUME NEW row \in Row, NEW good PROVE Completed(row, good) \in Row
<1>1. (IF good THEN "done" ELSE "failed") \in Statuses
  BY DEF Statuses, Over
<1>2. 0 \in 0 .. MaxAge + 1
  BY QueueAssumption
<1>3. QED
  BY <1>1, <1>2 DEF Completed, Row

\* requeue_stale leaves every row alone that is no older than MaxAge.
LEMMA RequeueSparesTheYoung ==
  ASSUME NEW i \in Ids, jobs[i].age \in Nat, jobs[i].age <= MaxAge
  PROVE  Requeued(jobs)[i] = jobs[i]
BY QueueAssumption DEF Requeued, Stale

\* The row Enqueue inserts is a blank one.
LEMMA NextRowIsBlank ==
  ASSUME IInv, last < MaxJobs
  PROVE  last + 1 \in Ids /\ jobs[last + 1] = [status |-> "none", worker |-> Nobody, age |-> 0]
<1>1. MaxJobs \in Nat
  BY QueueAssumption
<1>2. last \in 0 .. MaxJobs
  BY DEF IInv, TypeOK
<1>3. last + 1 \in Ids /\ last + 1 > last
  BY <1>1, <1>2 DEF Ids
<1> QED
  BY <1>3 DEF IInv, Blank

-----------------------------------------------------------------------------
(* The inductive invariant.                                                *)

LEMMA InitInvariant == Init => IInv
<1> SUFFICES ASSUME Init PROVE IInv
  OBVIOUS
<1>1. TypeOK
  <2>1. jobs \in [Ids -> Row] /\ last \in 0 .. MaxJobs /\ deaths \in 0 .. MaxDeaths
    BY QueueAssumption DEF Init, Ids, Row, Statuses
  <2>2. /\ pc \in [Workers -> Steps] /\ cur \in [Workers -> Ids \cup {0}]
        /\ held \in [Workers -> Nat] /\ taken \in [Workers -> Nat]
    BY DEF Init, Steps
  <2>3. ok \in [Workers -> BOOLEAN] /\ slept \in BOOLEAN
    BY DEF Init
  <2>4. QED
    BY <2>1, <2>2, <2>3 DEF TypeOK
<1>2. Blank /\ \A w \in Workers : Known(w) /\ Owns(w)
  BY DEF Init, Blank, Known, Owns, Busy
<1>3. QED
  BY <1>1, <1>2 DEF IInv

LEMMA NextInvariant == IInv /\ [Next]_vars => IInv'
<1> SUFFICES ASSUME IInv, [Next]_vars PROVE IInv'
  OBVIOUS
<1> USE QueueAssumption
<1>1. CASE Enqueue
  <2>1. last + 1 \in Ids /\ jobs[last + 1].status = "none"
    BY <1>1, NextRowIsBlank DEF Enqueue
  <2>2. TypeOK'
    <3>1. [jobs[last + 1] EXCEPT !.status = "queued"] \in Row
      BY <2>1 DEF IInv, TypeOK, Row, Statuses
    <3>2. jobs' \in [Ids -> Row]
      BY <1>1, <2>1, <3>1 DEF Enqueue, IInv, TypeOK
    <3>3. last' \in 0 .. MaxJobs
      BY <1>1 DEF Enqueue, IInv, TypeOK
    <3>4. QED
      BY <1>1, <3>2, <3>3 DEF Enqueue, IInv, TypeOK, loop
  <2>3. Blank'
    <3>1. \A i \in Ids : i > last' => i # last + 1 /\ i > last
      BY <1>1 DEF Enqueue, IInv, TypeOK, Ids
    <3>2. \A i \in Ids : i # last + 1 => jobs'[i] = jobs[i]
      BY <1>1, <2>1 DEF Enqueue, IInv, TypeOK
    <3>3. QED
      BY <3>1, <3>2 DEF IInv, Blank, Ids
  <2>4. ASSUME NEW w \in Workers
        PROVE  Known(w)' /\ (slept' \/ Owns(w)')
    <3>1. pc[w] \in Busy => cur[w] # last + 1
      BY <2>1 DEF IInv, Known
    <3>2. QED
      <4>1. Known(w)'
        BY <1>1, <3>1 DEF Enqueue, IInv, TypeOK, Known, loop
      <4>2. slept' \/ Owns(w)'
        BY <1>1, <3>1 DEF Enqueue, IInv, TypeOK, Owns, loop
      <4>3. QED
        BY <4>1, <4>2
  <2>6. QED
    BY <2>2, <2>3, <2>4 DEF IInv
<1>2. ASSUME NEW v \in Workers, RequeueStale(v) PROVE IInv'
  <2>1. TypeOK'
    BY <1>2, RequeuedType DEF RequeueStale, IInv, TypeOK, Steps
  <2>2. Blank'
    BY <1>2 DEF RequeueStale, IInv, TypeOK, Blank, Requeued, Stale
  <2>3. ASSUME NEW w \in Workers PROVE Known(w)'
    BY <1>2 DEF RequeueStale, Requeued, IInv, TypeOK, Known, Busy
  <2>4. ASSUME ~ slept, NEW w \in Workers PROVE Owns(w)'
    <3>1. pc[w] \in Busy => Requeued(jobs)[cur[w]] = jobs[cur[w]]
      <4> SUFFICES ASSUME pc[w] \in Busy
                   PROVE  Requeued(jobs)[cur[w]] = jobs[cur[w]]
        OBVIOUS
      <4>1. cur[w] \in Ids /\ jobs[cur[w]].age = held[w] /\ held[w] \in Nat
        BY <2>4 DEF IInv, Owns, TypeOK
      <4>2. held[w] <= MaxAge
        BY <2>4, <4>1 DEF IInv, Owns
      <4>3. QED
        BY <4>1, <4>2, RequeueSparesTheYoung
    <3>2. pc'[w] \in Busy => pc[w] \in Busy
      BY <1>2 DEF RequeueStale, IInv, TypeOK, Busy
    <3>3. QED
      BY <1>2, <2>4, <3>1, <3>2 DEF RequeueStale, IInv, TypeOK, Owns
  <2>5. QED
    BY <1>2, <2>1, <2>2, <2>3, <2>4 DEF RequeueStale, IInv
<1>3. ASSUME NEW v \in Workers, Claim(v) PROVE IInv'
  <2>1. PICK i \in Ids : /\ FirstQueued(i)
                         /\ jobs' = [jobs EXCEPT ![i] = ClaimedBy(v)]
                         /\ cur' = [cur EXCEPT ![v] = i]
    BY <1>3 DEF Claim
  <2>2. TypeOK'
    BY <1>3, <2>1 DEF Claim, ClaimedBy, IInv, TypeOK, Row, Statuses, Steps
  <2>3. Blank'
    BY <1>3, <2>1 DEF Claim, FirstQueued, IInv, TypeOK, Blank
  <2>4. ASSUME NEW w \in Workers PROVE Known(w)'
    BY <1>3, <2>1 DEF Claim, ClaimedBy, IInv, TypeOK, Known
  <2>5. ASSUME ~ slept, NEW w \in Workers PROVE Owns(w)'
    <3>1. CASE w = v
      BY <1>3, <2>1, <2>5, <3>1 DEF Claim, ClaimedBy, IInv, TypeOK, Owns
    <3>2. CASE w # v
      <4>1. pc[w] \in Busy => cur[w] # i
        BY <2>1, <2>5 DEF FirstQueued, IInv, Owns
      <4>2. QED
        BY <1>3, <2>1, <2>5, <3>2, <4>1 DEF Claim, IInv, TypeOK, Owns
    <3>3. QED
      BY <3>1, <3>2
  <2>6. QED
    BY <1>3, <2>2, <2>3, <2>4, <2>5 DEF Claim, IInv
<1>4. ASSUME NEW v \in Workers, ClaimNothing(v) PROVE IInv'
  BY <1>4 DEF ClaimNothing, IInv, TypeOK, Blank, Known, Owns, Steps, Busy
<1>5. ASSUME NEW v \in Workers, RunEnds(v) PROVE IInv'
  BY <1>5 DEF RunEnds, IInv, TypeOK, Blank, Known, Owns, Steps, Busy
<1>6. ASSUME NEW v \in Workers, Complete(v) PROVE IInv'
  <2>1. cur[v] \in Ids /\ jobs[cur[v]].status # "none"
    BY <1>6 DEF Complete, IInv, Known, Busy
  <2>2. TypeOK'
    <3>1. Completed(jobs[cur[v]], ok[v]) \in Row
      <4>1. jobs[cur[v]] \in Row
        BY <2>1 DEF IInv, TypeOK
      <4>2. QED
        BY <4>1, CompletedType
    <3>2. jobs' \in [Ids -> Row]
      BY <1>6, <2>1, <3>1 DEF Complete, IInv, TypeOK
    <3>3. taken' \in [Workers -> Nat]
      BY <1>6 DEF Complete, IInv, TypeOK
    <3>4. QED
      BY <1>6, <3>2, <3>3 DEF Complete, Forget, IInv, TypeOK, Steps
  <2>3. Blank'
    BY <1>6, <2>1 DEF Complete, Completed, IInv, TypeOK, Blank
  <2>4. ASSUME NEW w \in Workers PROVE Known(w)'
    BY <1>6, <2>1 DEF Complete, Completed, Forget, IInv, TypeOK, Row, Known, Busy
  <2>5. ASSUME ~ slept, NEW w \in Workers PROVE Owns(w)'
    <3>1. CASE w = v
      BY <1>6, <3>1 DEF Complete, IInv, TypeOK, Owns, Busy
    <3>2. CASE w # v
      <4>1. pc[w] \in Busy => cur[w] # cur[v]
        BY <1>6, <2>1, <2>5, <3>2 DEF Complete, IInv, Owns, Busy
      <4>2. QED
        BY <1>6, <2>5, <3>2, <4>1 DEF Complete, Forget, IInv, TypeOK, Owns
    <3>3. QED
      BY <3>1, <3>2
  <2>6. QED
    BY <1>6, <2>2, <2>3, <2>4, <2>5 DEF Complete, IInv
<1>7. ASSUME NEW v \in Workers, Dies(v) PROVE IInv'
  BY <1>7 DEF Dies, Forget, IInv, TypeOK, Blank, Known, Owns, Steps, Busy
<1>8. ASSUME NEW v \in Workers, Restart(v) PROVE IInv'
  BY <1>8 DEF Restart, IInv, TypeOK, Blank, Known, Owns, Steps, Busy
<1>9. CASE Tick
  <2>1. TypeOK'
    BY <1>9, OlderType DEF Tick, IInv, TypeOK
  <2>2. Blank'
    BY <1>9 DEF Tick, Older, IInv, TypeOK, Blank
  <2>3. ASSUME NEW w \in Workers PROVE Known(w)'
    BY <1>9 DEF Tick, Older, IInv, TypeOK, Row, Known
  <2>4. ASSUME ~ slept, NEW w \in Workers PROVE Owns(w)'
    <3>1. pc[w] \in Busy => /\ cur[w] \in Ids
                            /\ jobs[cur[w]].status = "running"
                            /\ jobs[cur[w]].age = held[w]
                            /\ held[w] \in Nat
                            /\ held[w] + 1 <= Timeout + Slack
      BY <1>9, <2>4 DEF Tick, IInv, TypeOK, Owns
    <3>2. pc[w] \in Busy => /\ jobs'[cur[w]].status = "running"
                            /\ jobs'[cur[w]].worker = jobs[cur[w]].worker
                            /\ jobs'[cur[w]].age = held[w] + 1
      BY <1>9, <3>1 DEF Tick, Older, IInv, TypeOK, Row
    <3>3. QED
      BY <1>9, <2>4, <3>1, <3>2 DEF Tick, IInv, Owns
  <2>5. QED
    BY <1>9, <2>1, <2>2, <2>3, <2>4 DEF Tick, IInv
<1>10. CASE Sleep
  <2>1. TypeOK'
    BY <1>10, AncientType DEF Sleep, IInv, TypeOK, loop
  <2>2. Blank' /\ \A w \in Workers : Known(w)'
    BY <1>10 DEF Sleep, Ancient, IInv, TypeOK, Row, Blank, Known, loop
  <2>3. QED
    BY <1>10, <2>1, <2>2 DEF Sleep, IInv
<1>11. CASE UNCHANGED vars
  BY <1>11 DEF vars, IInv, TypeOK, Blank, Known, Owns
<1>12. QED
  BY <1>1, <1>2, <1>3, <1>4, <1>5, <1>6, <1>7, <1>8, <1>9, <1>10, <1>11
     DEF Next, WorkerStep, RunTimesOut, Crash

LEMMA Invariance == Spec => []IInv
BY InitInvariant, NextInvariant, PTL DEF Spec

-----------------------------------------------------------------------------
(* The theorems.                                                           *)

\* The table and the workers' local variables always have their types.
THEOREM TypeCorrect == Spec => []TypeOK
<1>1. IInv => TypeOK
  BY DEF IInv
<1>2. QED
  BY <1>1, Invariance, PTL

\* The row a worker is about to write is still its own, whoever crashed and
\* whatever requeue_stale did since the claim: complete() needs no check, until
\* the host is suspended.
THEOREM HoldersOwn == Spec => []HolderOwnsRow
<1>1. IInv => HolderOwnsRow
  BY DEF IInv, Owns, HolderOwnsRow
<1>2. QED
  BY <1>1, Invariance, PTL

\* No two workers have one job in hand, until the host is suspended.
THEOREM AtMostOneHolder == Spec => []OneHolder
<1>1. IInv => OneHolder
  BY DEF IInv, Owns, OneHolder
<1>2. QED
  BY <1>1, Invariance, PTL

\* A recorded result stays, until the host is suspended: no later claim, requeue
\* or completion changes it.
THEOREM ResultsAreFinal == Spec => FinishedIsFinal
<1> DEFINE Kept == ~ slept => \A i \in Ids :
                     jobs[i].status \in Over => jobs'[i].status = jobs[i].status
<1>1. IInv /\ [Next]_vars => [Kept]_vars
  <2> SUFFICES ASSUME IInv, Next, ~ slept, NEW i \in Ids, jobs[i].status \in Over
               PROVE  jobs'[i].status = jobs[i].status
    BY DEF vars
  <2> USE DEF IInv, TypeOK, Over
  <2>1. CASE Enqueue
    <3>1. last + 1 \in Ids /\ jobs[last + 1].status = "none"
      BY <2>1, NextRowIsBlank DEF Enqueue
    <3>2. QED
      BY <2>1, <3>1 DEF Enqueue
  <2>2. ASSUME NEW v \in Workers, RequeueStale(v) PROVE jobs'[i].status = jobs[i].status
    BY <2>2 DEF RequeueStale, Requeued, Stale
  <2>3. ASSUME NEW v \in Workers, Claim(v) PROVE jobs'[i].status = jobs[i].status
    BY <2>3 DEF Claim, FirstQueued
  <2>4. ASSUME NEW v \in Workers, Complete(v) PROVE jobs'[i].status = jobs[i].status
    <3>1. jobs[cur[v]].status = "running"
      BY <2>4 DEF Complete, Owns, Busy
    <3>2. QED
      BY <2>4, <3>1 DEF Complete
  <2>5. CASE Tick \/ Sleep
    BY <2>5 DEF Tick, Sleep, Older, Ancient, Row
  <2>6. ASSUME NEW v \in Workers,
               ClaimNothing(v) \/ RunEnds(v) \/ Dies(v) \/ Restart(v)
        PROVE  jobs'[i].status = jobs[i].status
    BY <2>6 DEF ClaimNothing, RunEnds, Dies, Restart
  <2>7. QED
    BY <2>1, <2>2, <2>3, <2>4, <2>5, <2>6
       DEF Next, WorkerStep, RunTimesOut, Crash
<1>2. QED
  BY <1>1, Invariance, PTL DEF Spec, FinishedIsFinal

-----------------------------------------------------------------------------
(* The refinement.                                                         *)

\* Every step of the queue is a step of the abstract queue or leaves it alone.
LEMMA StepRefines ==
  IInv /\ [Next]_vars => \/ Abstract!Next
                         \/ UNCHANGED <<last, [i \in Ids |-> Ticket(jobs[i])], slept>>
<1> SUFFICES ASSUME IInv, [Next]_vars
             PROVE  Abstract!Next \/ UNCHANGED <<last, [i \in Ids |-> Ticket(jobs[i])], slept>>
  OBVIOUS
<1> USE QueueAssumption
<1> DEFINE Tickets(table) == [i \in Ids |-> Ticket(table[i])]
<1>1. CASE Enqueue
  <2>1. last + 1 \in Ids /\ jobs[last + 1] = [status |-> "none", worker |-> Nobody, age |-> 0]
    BY <1>1, NextRowIsBlank DEF Enqueue
  <2>2. Ticket(jobs'[last + 1]) = [state |-> "waiting", by |-> Nobody]
    BY <1>1, <2>1 DEF Enqueue, IInv, TypeOK, Ticket
  <2>3. \A i \in Ids : i # last + 1 => jobs'[i] = jobs[i]
    BY <1>1, <2>1 DEF Enqueue, IInv, TypeOK
  <2>4. Tickets(jobs') = [Tickets(jobs) EXCEPT ![last + 1] =
                            [state |-> "waiting", by |-> Nobody]]
    BY <2>2, <2>3
  <2>5. Abstract!Submit
    BY <1>1, <2>4 DEF Enqueue, Abstract!Submit
  <2>6. QED
    BY <2>5 DEF Abstract!Next
<1>2. ASSUME NEW v \in Workers, RequeueStale(v)
      PROVE  Abstract!Next \/ UNCHANGED <<last, Tickets(jobs), slept>>
  <2>1. CASE UNCHANGED jobs
    BY <1>2, <2>1 DEF RequeueStale
  <2>2. CASE jobs' = Requeued(jobs)
    <3> DEFINE lost == {i \in Ids : Stale(jobs[i])}
    <3>1. lost \in SUBSET Abstract!Tickets
      BY DEF Abstract!Tickets, Ids
    <3>2. \A i \in lost : Tickets(jobs)[i].state = "held"
      BY DEF Stale, Ticket
    <3>3. Tickets(jobs') = [i \in Abstract!Tickets |->
                             IF i \in lost THEN [state |-> "waiting", by |-> Nobody]
                             ELSE Tickets(jobs)[i]]
      BY <2>2 DEF Requeued, Ticket, Abstract!Tickets, Ids
    <3>4. Abstract!PutBack
      BY <1>2, <3>1, <3>2, <3>3 DEF RequeueStale, Abstract!PutBack
    <3>5. QED
      BY <3>4 DEF Abstract!Next
  <2>3. QED
    BY <1>2, <2>1, <2>2 DEF RequeueStale
<1>3. ASSUME NEW v \in Workers, Claim(v) PROVE Abstract!Next
  <2>1. PICK i \in Ids : /\ FirstQueued(i)
                         /\ jobs' = [jobs EXCEPT ![i] = ClaimedBy(v)]
    BY <1>3 DEF Claim
  <2>2. Tickets(jobs)[i].state = "waiting"
    BY <2>1 DEF FirstQueued, Ticket
  <2>3. Tickets(jobs') = [Tickets(jobs) EXCEPT ![i] = [state |-> "held", by |-> v]]
    BY <2>1 DEF IInv, TypeOK, ClaimedBy, Ticket
  <2>4. Abstract!Take(v, i)
    BY <1>3, <2>2, <2>3 DEF Claim, Abstract!Take
  <2>5. QED
    BY <2>4 DEF Abstract!Next, Abstract!Tickets, Ids
<1>4. ASSUME NEW v \in Workers, Complete(v) PROVE Abstract!Next
  <2> DEFINE i == cur[v]
             result == IF ok[v] THEN "done" ELSE "failed"
  <2>1. i \in Ids /\ jobs[i].status # "none" /\ jobs[i] \in Row
    BY <1>4 DEF Complete, IInv, TypeOK, Known, Busy
  <2>2. Tickets(jobs)[i].state = "held" \/ (slept /\ Tickets(jobs)[i].state # "none")
    <3>1. CASE slept
      BY <2>1, <3>1 DEF Ticket, Row, Statuses, Over
    <3>2. CASE ~ slept
      <4>1. jobs[i].status = "running"
        BY <1>4, <3>2 DEF Complete, IInv, Owns, Busy
      <4>2. QED
        BY <2>1, <4>1 DEF Ticket
    <3>3. QED
      BY <3>1, <3>2
  <2>3. Ticket(Completed(jobs[i], ok[v])) = [state |-> result, by |-> Tickets(jobs)[i].by]
    BY <2>1 DEF Row, Completed, Ticket
  <2>4. Tickets(jobs') = [Tickets(jobs) EXCEPT ![i] = [state |-> result, by |-> @.by]]
    BY <1>4, <2>1, <2>3 DEF Complete, IInv, TypeOK
  <2>5. result \in Abstract!Over
    BY DEF Abstract!Over
  <2>6. Abstract!Finish(i)
    BY <1>4, <2>2, <2>4, <2>5 DEF Complete, Abstract!Finish
  <2>7. QED
    BY <2>1, <2>6 DEF Abstract!Next, Abstract!Tickets, Ids
<1>5. CASE Tick
  <2>1. \A k \in Ids : Ticket(Older(jobs[k])) = Ticket(jobs[k])
    BY DEF IInv, TypeOK, Row, Older, Ticket
  <2>2. QED
    BY <1>5, <2>1 DEF Tick
<1>6. CASE Sleep
  <2>1. \A k \in Ids : Ticket(Ancient(jobs[k])) = Ticket(jobs[k])
    BY DEF IInv, TypeOK, Row, Ancient, Ticket
  <2>2. Tickets(jobs') = Tickets(jobs)
    BY <1>6, <2>1 DEF Sleep
  <2>3. Abstract!Lapse
    BY <1>6, <2>2 DEF Sleep, Abstract!Lapse
  <2>4. QED
    BY <2>3 DEF Abstract!Next
<1>7. CASE UNCHANGED <<last, jobs, slept>>
  BY <1>7
<1>8. QED
  BY <1>1, <1>2, <1>3, <1>4, <1>5, <1>6, <1>7
     DEF Next, WorkerStep, ClaimNothing, RunEnds, RunTimesOut, Crash, Dies,
         Restart, vars

\* The queue and its workers implement the abstract queue: a job is finished
\* while it is held and for good, and after a suspension perhaps late.
THEOREM QueueImplementsWorkQueue == Spec => ImplementsQueue
<1>1. Init => Abstract!Init
  BY DEF Init, Abstract!Init, Abstract!Unissued, Abstract!Tickets, Ids, Ticket
<1>2. QED
  BY <1>1, Invariance, StepRefines, PTL DEF Spec, ImplementsQueue, Abstract!Spec
=============================================================================

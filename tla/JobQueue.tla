------------------------------- MODULE JobQueue -------------------------------
(***************************************************************************)
(* The SQLite job queue and the worker loop that drains it.                *)
(*                                                                         *)
(* Each queue operation is one SQLite transaction, so one action.  The     *)
(* worker loop is a process whose program counter says which call it makes *)
(* next; a worker that dies leaves its row `running`, and any worker's     *)
(* requeue_stale puts the row back once the claim is older than MaxAge.    *)
(* Nothing ties complete() to the claim it answers: that the row is still  *)
(* the completing worker's rests only on the subprocess limit being        *)
(* shorter than the age at which a claim counts as stale.                  *)
(***************************************************************************)
EXTENDS Naturals, FiniteSets

CONSTANTS
  Workers,    \* slots for `avs worker` processes on the host
  Nobody,     \* the empty `worker` column
  MaxJobs,    \* bound: rows ever inserted
  MaxAge,     \* requeue_stale's max_age_s, in ticks
  Timeout,    \* the subprocess limit, in ticks
  Slack,      \* ticks between the subprocess ending and its row being written
  MaxDeaths,  \* bound: worker processes that ever die
  Limit       \* --max-jobs of each worker; 0 runs forever

ASSUME QueueAssumption ==
  /\ Nobody \notin Workers
  /\ MaxJobs \in Nat /\ MaxAge \in Nat /\ Timeout \in Nat /\ Slack \in Nat
  /\ MaxDeaths \in Nat /\ Limit \in [Workers -> Nat]
  /\ Timeout + Slack <= MaxAge

VARIABLES
  last,   \* sqlite_sequence: the id of the newest row
  jobs,   \* the jobs table
  pc,     \* what each worker does next
  cur,    \* the job a worker has in hand
  held,   \* ticks the worker has had it, by its own monotonic clock
  ok,     \* the outcome the worker is about to record
  taken,  \* jobs the worker finished (`done` in worker_loop)
  deaths, \* worker processes that have died so far
  slept   \* the host has been suspended; never read to decide anything

vars == <<last, jobs, pc, cur, held, ok, taken, deaths, slept>>
loop == <<pc, cur, held, ok, taken>>

Ids == 1 .. MaxJobs
Over == {"done", "failed"}
Statuses == {"none", "queued", "running"} \cup Over
Row == [status : Statuses, worker : Workers \cup {Nobody},
        age : 0 .. MaxAge + 1]
Steps == {"requeue", "claim", "run", "complete", "exited", "dead"}
Busy == {"run", "complete"}

TypeOK ==
  /\ last \in 0 .. MaxJobs
  /\ jobs \in [Ids -> Row]
  /\ pc \in [Workers -> Steps]
  /\ cur \in [Workers -> Ids \cup {0}]
  /\ held \in [Workers -> Nat]
  /\ ok \in [Workers -> BOOLEAN]
  /\ taken \in [Workers -> Nat]
  /\ deaths \in 0 .. MaxDeaths
  /\ slept \in BOOLEAN

Init ==
  /\ last = 0
  /\ jobs = [i \in Ids |-> [status |-> "none", worker |-> Nobody, age |-> 0]]
  /\ pc = [w \in Workers |-> "requeue"]
  /\ cur = [w \in Workers |-> 0]
  /\ held = [w \in Workers |-> 0]
  /\ ok = [w \in Workers |-> FALSE]
  /\ taken = [w \in Workers |-> 0]
  /\ deaths = 0
  /\ slept = FALSE

-----------------------------------------------------------------------------
(* The table's operations: new values of jobs.                             *)

\* Only the age of a claim is ever looked at.  It saturates just past MaxAge:
\* older claims are treated alike.
Older(row) == [row EXCEPT !.age = IF row.status = "running" /\ @ <= MaxAge
                                  THEN @ + 1 ELSE @]

Ancient(row) == [row EXCEPT !.age = IF row.status = "running"
                                    THEN MaxAge + 1 ELSE @]

\* Mutated: >= for >.
StaleAtAge(row) == row.status = "running" /\ row.age >= MaxAge

Stale(row) == row.status = "running" /\ row.age > MaxAge

\* Mutated: nothing is put back.
RequeuedNever(table) == table

Requeued(table) ==
  [i \in Ids |-> IF Stale(table[i])
                 THEN [status |-> "queued", worker |-> Nobody, age |-> 0]
                 ELSE table[i]]

\* Mutated: WHERE status != 'running'.
FirstNotRunning(i) ==
  /\ jobs[i].status \notin {"none", "running"}
  /\ \A k \in Ids : jobs[k].status \notin {"none", "running"} => i <= k

\* SELECT ... WHERE status='queued' ORDER BY id LIMIT 1
FirstQueued(i) ==
  /\ jobs[i].status = "queued"
  /\ \A k \in Ids : jobs[k].status = "queued" => i <= k

NoneQueued == \A i \in Ids : jobs[i].status # "queued"

ClaimedBy(w) == [status |-> "running", worker |-> w, age |-> 0]

\* UPDATE ... WHERE id=?: neither the status nor the worker is looked at.
Completed(row, good) ==
  [row EXCEPT !.status = IF good THEN "done" ELSE "failed", !.age = 0]

\* What a worker has in hand is gone with its loop iteration or its process.
Forget(w) == /\ cur' = [cur EXCEPT ![w] = 0]
             /\ held' = [held EXCEPT ![w] = 0]
             /\ ok' = [ok EXCEPT ![w] = FALSE]

Dies(w) == /\ deaths < MaxDeaths
           /\ deaths' = deaths + 1
           /\ pc' = [pc EXCEPT ![w] = "dead"]
           /\ Forget(w)
           /\ UNCHANGED <<last, jobs, taken, slept>>

-----------------------------------------------------------------------------
(* Actions.                                                                *)

\* The webhook server dispatches one event into the queue.
Enqueue ==
  /\ last < MaxJobs
  /\ last' = last + 1
  /\ jobs' = [jobs EXCEPT ![last + 1].status = "queued"]
  /\ UNCHANGED <<loop, deaths, slept>>

\* The loop test and requeue_stale: with --max-jobs reached the worker leaves.
RequeueStale(w) ==
  /\ pc[w] = "requeue"
  /\ IF Limit[w] # 0 /\ taken[w] >= Limit[w]
     THEN /\ pc' = [pc EXCEPT ![w] = "exited"]
          /\ UNCHANGED jobs
     ELSE /\ jobs' = Requeued(jobs)
          /\ pc' = [pc EXCEPT ![w] = "claim"]
  /\ UNCHANGED <<last, cur, held, ok, taken, deaths, slept>>

Claim(w) ==
  /\ pc[w] = "claim"
  /\ \E i \in Ids :
       /\ FirstQueued(i)
       /\ jobs' = [jobs EXCEPT ![i] = ClaimedBy(w)]
       /\ cur' = [cur EXCEPT ![w] = i]
  /\ held' = [held EXCEPT ![w] = 0]
  /\ pc' = [pc EXCEPT ![w] = "run"]
  /\ UNCHANGED <<last, ok, taken, deaths, slept>>

\* Nothing queued: sleep and poll again, or leave when --max-jobs was given.
ClaimNothing(w) ==
  /\ pc[w] = "claim"
  /\ NoneQueued
  /\ pc' = [pc EXCEPT ![w] = IF Limit[w] = 0 THEN "requeue" ELSE "exited"]
  /\ UNCHANGED <<last, jobs, cur, held, ok, taken, deaths, slept>>

\* The subprocess ends by itself, within its limit.
RunEnds(w) ==
  /\ pc[w] = "run"
  /\ held[w] <= Timeout
  /\ \E good \in BOOLEAN : ok' = [ok EXCEPT ![w] = good]
  /\ pc' = [pc EXCEPT ![w] = "complete"]
  /\ UNCHANGED <<last, jobs, cur, held, taken, deaths, slept>>

\* subprocess.run raises TimeoutExpired, which nothing catches: the worker
\* process ends and the row stays `running`.
RunTimesOut(w) ==
  /\ pc[w] = "run"
  /\ held[w] >= Timeout
  /\ Dies(w)

Complete(w) ==
  /\ pc[w] = "complete"
  /\ jobs' = [jobs EXCEPT ![cur[w]] = Completed(@, ok[w])]
  /\ taken' = [taken EXCEPT ![w] = IF Limit[w] = 0 THEN @ ELSE @ + 1]
  /\ pc' = [pc EXCEPT ![w] = "requeue"]
  /\ Forget(w)
  /\ UNCHANGED <<last, deaths, slept>>

\* A worker is killed, or an operation raises, at any point of its loop.
Crash(w) ==
  /\ pc[w] \notin {"dead", "exited"}
  /\ Dies(w)

\* The operator starts a worker again in a free slot.
Restart(w) ==
  /\ pc[w] = "dead"
  /\ pc' = [pc EXCEPT ![w] = "requeue"]
  /\ taken' = [taken EXCEPT ![w] = 0]
  /\ UNCHANGED <<last, jobs, cur, held, ok, deaths, slept>>

\* Time passes for rows and workers alike.  A live worker is never later than
\* Timeout + Slack with the job it has in hand.
Tick ==
  /\ \A w \in Workers : pc[w] \in Busy => held[w] < Timeout + Slack
  /\ \A w \in Workers : pc[w] = "run" => held[w] < Timeout
  /\ jobs' = [i \in Ids |-> Older(jobs[i])]
  /\ held' = [w \in Workers |-> IF pc[w] \in Busy THEN held[w] + 1 ELSE held[w]]
  /\ UNCHANGED <<last, pc, cur, ok, taken, deaths, slept>>

\* The host sleeps and wakes: time.time() moves on, the monotonic clock that
\* limits the subprocess does not.
Sleep ==
  /\ jobs' = [i \in Ids |-> Ancient(jobs[i])]
  /\ slept' = TRUE
  /\ UNCHANGED <<last, loop, deaths>>

WorkerStep(w) ==
  \/ RequeueStale(w)
  \/ Claim(w)
  \/ ClaimNothing(w)
  \/ RunEnds(w)
  \/ Complete(w)

Next ==
  \/ Enqueue
  \/ \E w \in Workers : WorkerStep(w) \/ RunTimesOut(w) \/ Crash(w) \/ Restart(w)
  \/ Tick
  \/ Sleep

Spec == Init /\ [][Next]_vars

\* A live worker keeps looping, a subprocess comes to an end, time passes.
\* Nothing restarts a worker and nothing obliges the server to enqueue.
Fairness ==
  /\ \A w \in Workers : WF_vars(WorkerStep(w))
  /\ WF_vars(Tick)

FairSpec == Spec /\ Fairness

-----------------------------------------------------------------------------
(* Properties.                                                             *)

\* Two workers never have the same job in hand ("two workers can never claim
\* the same job", claim()), although a claim can be taken back by age alone:
\* as long as the host has not been suspended, here and below.
OneHolder ==
  ~ slept => \A v, w \in Workers :
               pc[v] \in Busy /\ pc[w] \in Busy /\ cur[v] = cur[w] => v = w

\* A worker with a job in hand still owns the row it will write, although
\* complete() does not check that it does.
HolderOwnsRow ==
  ~ slept => \A w \in Workers :
               pc[w] \in Busy => /\ cur[w] \in Ids
                                 /\ jobs[cur[w]].status = "running"
                                 /\ jobs[cur[w]].worker = w

\* A recorded result is never overwritten and a finished job never runs again,
\* whatever crashes, requeues and late completions happen in between.
FinishedIsFinal ==
  [][~ slept => \A i \in Ids :
       jobs[i].status \in Over => jobs'[i].status = jobs[i].status]_vars

\* Every job that enters the queue is finished in the end, provided some worker
\* without --max-jobs stays alive: a claim whose worker died does come back to
\* the pool, the workers that leave do not take jobs with them, and a suspended
\* host costs a second run, never the job.
EveryJobFinishes ==
  (\E w \in Workers : Limit[w] = 0 /\ <>[](pc[w] # "dead"))
    => \A i \in Ids : jobs[i].status = "queued" ~> jobs[i].status \in Over

\* The queue as its callers see it: a ticket per row, held by the worker named
\* in the row.
Ticket(row) ==
  [state |-> CASE row.status = "none" -> "none"
               [] row.status = "queued" -> "waiting"
               [] row.status = "running" -> "held"
               [] OTHER -> row.status,
   by |-> row.worker]

Abstract == INSTANCE WorkQueue WITH
  Holders <- Workers, MaxTickets <- MaxJobs, issued <- last, lapsed <- slept,
  ticket <- [i \in Ids |-> Ticket(jobs[i])]

\* The table, the loops, the crashes and the ages together behave as the
\* abstract queue: a job is finished only while it is held and for good, until
\* the host is suspended; from then on a result may come late.
ImplementsQueue == Abstract!Spec
=============================================================================

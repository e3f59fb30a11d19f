------------------------------- MODULE Intake -------------------------------
(***************************************************************************)
(* The webhook server (server.py) of one workspace: alerts, posted         *)
(* incidents and review events come in, work is spawned as detached        *)
(* processes, and jobs.yaml is the list of what was spawned.  The handlers *)
(* that write are coroutines of one event loop and run one at a time; the  *)
(* job listing runs in a thread of its own and rewrites the same file.     *)
(* Both load the file whole and write it back, without a lock.             *)
(***************************************************************************)
EXTENDS Naturals, Sequences, SequencesExt, FiniteSets

CONSTANTS
  Keys,          \* dedupe keys of monitoring alerts
  NoKey,         \* an alert whose payload has no id to dedupe on
  Listers,       \* threads that serve GET /jobs
  Work,          \* what may be spawned, one element per process
  MaxRows,       \* rows _record_job keeps before it appends (200 in the code)
  MaxRequests,   \* bound on requests
  MaxListings,   \* bound on job listings
  MaxCrashes     \* bound on server crashes

ASSUME IntakeAssumption ==
  /\ NoKey \notin Keys
  /\ MaxRows \in Nat \ {0}
  /\ MaxRequests \in Nat /\ MaxListings \in Nat /\ MaxCrashes \in Nat

VARIABLES
  loop,      \* what the event loop is doing: idle, file, post, spawn, load, save
  markers,   \* .seen-SOURCE-KEY files of the inbox
  inbox,     \* the incident files: sequence of [key, by]
  jobs,      \* jobs.yaml
  procs,     \* spawned processes: none, live or gone
  lister,    \* per thread: idle, or about to write back what it loaded
  \* bounds and history
  used,      \* requests, listings and crashes so far
  torn,      \* keys whose server died between the marker and the file
  spawned,   \* the processes _record_job recorded, in order
  raced      \* jobs.yaml was written over with what was loaded before a change

vars == <<loop, markers, inbox, jobs, procs, lister, used, torn, spawned, raced>>

Idle == [at |-> "idle"]
Spend(what, max) == used[what] < max /\ used' = [used EXCEPT ![what] = @ + 1]

Init ==
  /\ loop = Idle
  /\ markers = {}
  /\ inbox = <<>> /\ jobs = <<>>
  /\ procs = [w \in Work |-> "none"]
  /\ lister = [t \in Listers |-> Idle]
  /\ used = [what \in {"requests", "listings", "crashes"} |-> 0]
  /\ torn = {} /\ spawned = <<>> /\ raced = FALSE

-----------------------------------------------------------------------------
(* The event loop.                                                         *)

AlertUnmarked(k) ==
  /\ loop = Idle
  /\ Spend("requests", MaxRequests)
  /\ loop' = IF k \in markers THEN loop ELSE [at |-> "file", key |-> k]
  /\ UNCHANGED <<markers, inbox, jobs, procs, lister, torn, spawned, raced>>

\* A monitoring alert: a key seen before is answered "deduplicated" and
\* dropped; a new one leaves its marker first and its incident file after.
Alert(k) ==
  /\ loop = Idle
  /\ Spend("requests", MaxRequests)
  /\ IF k \in markers
       THEN UNCHANGED <<loop, markers>>
       ELSE /\ loop' = [at |-> "file", key |-> k]
            /\ markers' = markers \cup ({k} \ {NoKey})
  /\ UNCHANGED <<inbox, jobs, procs, lister, torn, spawned, raced>>

AlertFile ==
  /\ loop.at = "file"
  /\ inbox' = Append(inbox, [key |-> loop.key, by |-> "alert"])
  /\ loop' = Idle
  /\ UNCHANGED <<markers, jobs, procs, lister, used, torn, spawned, raced>>

\* POST /incidents writes the file, then spawns its triage.
Post ==
  /\ loop = Idle
  /\ Spend("requests", MaxRequests)
  /\ inbox' = Append(inbox, [key |-> NoKey, by |-> "post"])
  /\ loop' = [at |-> "spawn", what |-> "triage"]
  /\ UNCHANGED <<markers, jobs, procs, lister, torn, spawned, raced>>

\* A review event: opened, reopened or pushed to is spawned; a label or a
\* title, a bad signature and another event are answered and dropped.
ReviewEvent(pushed) ==
  /\ loop = Idle
  /\ Spend("requests", MaxRequests)
  /\ loop' = IF pushed THEN [at |-> "spawn", what |-> "review"] ELSE Idle
  /\ UNCHANGED <<markers, inbox, jobs, procs, lister, torn, spawned, raced>>

\* Popen with a session of its own; then _record_job.
Popen(w) ==
  /\ loop.at = "spawn"
  /\ procs[w] = "none"
  /\ procs' = [procs EXCEPT ![w] = "live"]
  /\ loop' = [at |-> "load", proc |-> w]
  /\ UNCHANGED <<markers, inbox, jobs, lister, used, torn, spawned, raced>>

RecordLoad ==
  /\ loop.at = "load"
  /\ loop' = [at |-> "save", proc |-> loop.proc, copy |-> jobs]
  /\ UNCHANGED <<markers, inbox, jobs, procs, lister, used, torn, spawned, raced>>

LatestOfOne(js) == SubSeq(js, IF Len(js) > MaxRows THEN Len(js) - MaxRows ELSE 1, Len(js))

Latest(js) == SubSeq(js, IF Len(js) > MaxRows THEN Len(js) - MaxRows + 1 ELSE 1, Len(js))

Rewritten(copy, rows) ==
  /\ jobs' = rows
  /\ raced' = (raced \/ jobs # copy)

RecordSave ==
  /\ loop.at = "save"
  /\ Rewritten(loop.copy,
               Append(Latest(loop.copy), [proc |-> loop.proc, status |-> "running"]))
  /\ spawned' = Append(spawned, loop.proc)
  /\ loop' = Idle
  /\ UNCHANGED <<markers, inbox, procs, lister, used, torn>>

-----------------------------------------------------------------------------
(* GET /jobs in its thread, and the world outside.                         *)

Reconciled(js) ==
  [i \in DOMAIN js |-> IF js[i].status = "running" /\ procs[js[i].proc] = "gone"
                         THEN [js[i] EXCEPT !.status = "finished"] ELSE js[i]]

ListLoad(t) ==
  /\ lister[t] = Idle
  /\ Spend("listings", MaxListings)
  /\ lister' = IF Reconciled(jobs) = jobs THEN lister
               ELSE [lister EXCEPT ![t] = [at |-> "save", copy |-> jobs]]
  /\ UNCHANGED <<loop, markers, inbox, jobs, procs, torn, spawned, raced>>

ListSave(t) ==
  /\ lister[t].at = "save"
  /\ Rewritten(lister[t].copy, Reconciled(lister[t].copy))
  /\ lister' = [lister EXCEPT ![t] = Idle]
  /\ UNCHANGED <<loop, markers, inbox, procs, used, torn, spawned>>

Exit(w) ==
  /\ procs[w] = "live"
  /\ procs' = [procs EXCEPT ![w] = "gone"]
  /\ UNCHANGED <<loop, markers, inbox, jobs, lister, used, torn, spawned, raced>>

\* The server dies and is started again; what it spawned lives on.
Crash ==
  /\ Spend("crashes", MaxCrashes)
  /\ torn' = IF loop.at = "file" /\ loop.key # NoKey THEN torn \cup {loop.key} ELSE torn
  /\ loop' = Idle
  /\ lister' = [t \in Listers |-> Idle]
  /\ UNCHANGED <<markers, inbox, jobs, procs, spawned, raced>>

Next ==
  \/ \E k \in Keys \cup {NoKey} : Alert(k)
  \/ \E pushed \in BOOLEAN : ReviewEvent(pushed)
  \/ AlertFile \/ Post \/ RecordLoad \/ RecordSave \/ Crash
  \/ \E w \in Work : Popen(w) \/ Exit(w)
  \/ \E t \in Listers : ListLoad(t) \/ ListSave(t)

Spec == Init /\ [][Next]_vars

-----------------------------------------------------------------------------
Row == [proc: Work, status: {"running", "finished"}]

\* The inbox, the job list and every handler keep the shapes server.py reads
\* back.
TypeOK ==
  /\ loop \in {Idle} \cup [at: {"file"}, key: Keys \cup {NoKey}]
       \cup [at: {"spawn"}, what: {"triage", "review"}] \cup [at: {"load"}, proc: Work]
       \cup [at: {"save"}, proc: Work, copy: Seq(Row)]
  /\ markers \subseteq Keys
  /\ inbox \in Seq([key: Keys \cup {NoKey}, by: {"alert", "post"}])
  /\ jobs \in Seq(Row)
  /\ procs \in [Work -> {"none", "live", "gone"}]
  /\ lister \in [Listers -> {Idle} \cup [at: {"save"}, copy: Seq(Row)]]
  /\ used \in [{"requests", "listings", "crashes"} -> Nat]
  /\ torn \subseteq Keys /\ spawned \in Seq(Work) /\ raced \in BOOLEAN

\* An alert that fires again is not a second incident (server.py:283-284), and
\* one that left its marker has its incident file, unless the server died
\* between the two writes: then every later firing is dropped.
AlertsBecomeIncidents ==
  \A k \in Keys :
    LET files == {i \in DOMAIN inbox : inbox[i].key = k}
    IN  /\ Cardinality(files) <= 1
        /\ k \in markers \ torn => files # {} \/ loop = [at |-> "file", key |-> k]
        /\ files # {} => k \in markers

\* As long as no stale copy was written back, jobs.yaml lists the latest work in
\* the order it was spawned (server.py:43-50).
JobsAreTheLatest ==
  ~raced =>
    LET shown == IF Len(spawned) > MaxRows + 1 THEN MaxRows + 1 ELSE Len(spawned)
    IN  /\ Len(jobs) = shown
        /\ \A i \in 1..shown : jobs[i].proc = spawned[Len(spawned) - shown + i]

\* Whoever writes last, a job is shown as finished only when its process is gone
\* (server.py:53-77), and no row is invented.
FinishedMeansGone ==
  \A i \in DOMAIN jobs :
    /\ jobs[i].status = "finished" => procs[jobs[i].proc] = "gone"
    /\ \E j \in DOMAIN spawned : spawned[j] = jobs[i].proc
=============================================================================

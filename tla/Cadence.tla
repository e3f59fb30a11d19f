-------------------------------- MODULE Cadence --------------------------------
(***************************************************************************)
(* The daily scheduler (cadence.py) and the alert channel (notify.py) over *)
(* the product bench.  A LaunchAgent fires once a day: it reads the dated  *)
(* artifacts the loops leave, runs what is due, reads them again, and      *)
(* posts what needs a person.  The operator runs the same report by hand,  *)
(* and a bench started with --notify posts its own result.                 *)
(***************************************************************************)
EXTENDS ProductBench

CONSTANTS
  Weekly, Drift,  \* BENCH_MIN_SPACING_DAYS, BENCH_DRIFT_BACKSTOP_DAYS
  Grace,          \* GRACE_DAYS
  Repeat,         \* REPEAT_DAYS
  MaxPosts        \* how often a report by hand or a finished bench posts

\* What an alert says, what alerts-sent.yaml remembers, and what a teller holds.
Facts == ({"failed", "stale"} \X {"weekly", "bench"})
         \cup ({"fired", "below floor", "partial", "behind", "result"} \X Nat)
         \cup ({"stale"} \X {"bench"} \X Nat \X Nat)
Notes == [alert : SUBSET Facts, at : 0 .. MaxDay]
Logs == [{"cadence", "bench"} -> Notes \cup {None}]
Mornings ==
  [at : {"weekly", "bench", "wait", "report", "deliver", "load", "save"}, today : 0 .. MaxDay,
   due : SUBSET {"weekly", "bench"}, seen : SUBSET (1 .. MaxStarts), stamp : 0 .. MaxStarts,
   failed : SUBSET {"weekly", "bench"}, alert : SUBSET Facts, log : Logs \cup {None}]

ASSUME CadenceAssumption ==
  /\ None \notin Mornings /\ None \notin Notes
  /\ {Weekly, Repeat} \subseteq Nat \ {0} /\ {Grace, MaxPosts} \subseteq Nat
  /\ Drift \in Nat /\ Weekly <= Drift

VARIABLES
  weekly,   \* the newest artifact of the weekly loops, compound and sweep
  wake,     \* the next day launchd may fire on
  morning,  \* what each teller does
  sent,     \* alerts-sent.yaml: the last delivery of each kind
  posts,
  \* What happened, never read to decide anything:
  said,     \* the deliveries, in order
  launched  \* the bench runs the scheduler started, and what it could see

cadenceVars == <<weekly, wake, morning, sent, posts, said, launched>>
allVars == <<day, utc, build, suite, bank, lock, run, files, starts, faults, bought,
             weekly, wake, morning, sent, posts, said, launched>>

\* Who reports: launchd, the operator by hand, a bench with --notify.
Tellers == {"scheduler", "operator", "bench"}
KindOf(t) == IF t = "bench" THEN "bench" ELSE "cadence"

CadenceIdle ==
  /\ weekly = None /\ wake = 0
  /\ morning = [t \in Tellers |-> None]
  /\ sent = [k \in {"cadence", "bench"} |-> None]
  /\ posts = 0 /\ said = <<>> /\ launched = {}

CadenceInit == Init /\ CadenceIdle

At(t, step) == morning[t] # None /\ morning[t].at = step

\* Alerts, and what is remembered of them, keep their shapes.
CadenceTypeOK ==
  /\ weekly \in 0 .. MaxDay \cup {None}
  /\ wake \in 0 .. MaxDay + 1 /\ posts \in 0 .. MaxPosts
  /\ morning \in [Tellers -> Mornings \cup {None}] /\ sent \in Logs
  /\ \A t \in Tellers : At(t, "save") => morning[t].log \in Logs
  /\ said \in Seq([kind : {"cadence", "bench"}, alert : SUBSET Facts, at : 0 .. MaxDay])
  /\ launched \subseteq [stamp : 1 .. MaxStarts, on : 0 .. MaxDay, seen : SUBSET (1 .. MaxStarts)]

Begin(step, alert) ==
  [at |-> step, today |-> day, due |-> {}, seen |-> {}, stamp |-> 0, failed |-> {},
   alert |-> alert, log |-> None]

-----------------------------------------------------------------------------
(* What the artifacts say.                                                 *)

\* Mutated: any release since the reading makes it due.
ReleaseIsDue(f, who) == IF f.key.build = build[who] THEN Drift ELSE 0

\* An artifact of a day to come counts as of today.
Classify(on, cadence) ==
  LET age == IF day < on THEN 0 ELSE day - on
  IN  CASE age < cadence         -> "ok"
        [] age > cadence + Grace -> "overdue"
        [] OTHER                 -> "due"

WeeklyState == IF weekly = None THEN "never_run" ELSE Classify(weekly, Weekly)

\* What _bench_status takes for a run of the series: what _scan did not set aside
\* as simulated or truncated, and it looks at the abort first.  The newest of
\* them by the date in its name, which is UTC's; which of one day is a matter of
\* directory order.
Watched == {f \in files : f.tracked /\ (f.aborted \/ (f.key.real /\ ~ f.sliced))}
Evidence ==
  IF Watched = {} THEN {None} ELSE {f \in Watched : \A g \in Watched : g.on <= f.on}

BenchCadence(f, who) == IF f.key.build = build[who] THEN Drift ELSE Weekly

BenchState(f, who) ==
  IF f = None THEN "never_run" ELSE Classify(f.on, BenchCadence(f, who))

Stale == {"never_run", "overdue"}

\* bench_criterion.concern
Concerns ==
  LET newest == {f \in Series : \A g \in Series : g.stamp <= f.stamp}
      saying == IF Fires THEN "fired" ELSE "below floor" IN
  {<<saying, f.stamp>> : f \in {g \in newest : BelowFloor(g)}}
  \cup {<<"partial", f.stamp>> : f \in {g \in newest : ~ BelowFloor(g)
                                                   /\ Answered(g) # DOMAIN g.rows}}

When(holds, fact) == IF holds THEN {fact} ELSE {}

\* build_alert: what needs a person, by content and without its date.  The
\* scheduler compares its own build with itself.
Alert(t, f) ==
  {<<"failed", l>> : l \in morning[t].failed}
  \cup Concerns
  \cup When(WeeklyState \in Stale, <<"stale", "weekly">>)
  \cup When(BenchState(f, t) \in Stale,
            <<"stale", "bench", IF f = None THEN 0 ELSE f.key.build, build[t]>>)
  \cup When(build["scheduler"] < build[t], <<"behind", build["scheduler"]>>)

-----------------------------------------------------------------------------
(* The scheduled run.                                                      *)

Goes(t, fields) == morning' = [morning EXCEPT ![t] = [f \in DOMAIN @ |->
                                IF f \in DOMAIN fields THEN fields[f] ELSE @[f]]]

\* launchd fires once a day, and not beside itself; a day asleep is lost.  What is
\* due is read once, before anything runs.
Wakes ==
  /\ morning["scheduler"] = None /\ wake <= day
  /\ wake' = day + 1
  /\ \E f \in Evidence :
       LET due == When(WeeklyState # "ok", "weekly")
                  \cup When(BenchState(f, "scheduler") # "ok", "bench") IN
       morning' = [morning EXCEPT !["scheduler"] = [Begin("weekly", {}) EXCEPT
         !.due = due, !.seen = {g.stamp : g \in {h \in files : h.tracked}}]]
  /\ UNCHANGED <<vars, weekly, sent, posts, said, launched>>

Due(loop) == loop \in morning["scheduler"].due

\* compound and sweep: an artifact of the day, or an exit code.
RunWeekly ==
  /\ At("scheduler", "weekly")
  /\ \/ /\ ~ Due("weekly")
        /\ Goes("scheduler", [at |-> "bench"])
        /\ UNCHANGED <<weekly, faults>>
     \/ /\ Due("weekly")
        /\ weekly' = day
        /\ Goes("scheduler", [at |-> "bench"])
        /\ UNCHANGED faults
     \/ /\ Due("weekly")
        /\ Fault("loop")
        /\ Goes("scheduler", [at |-> "bench", failed |-> {"weekly"}])
        /\ UNCHANGED weekly
  /\ UNCHANGED <<day, utc, build, suite, bank, lock, run, files, starts, bought,
                 wake, sent, posts, said, launched>>

BenchFails == [at |-> "report", failed |-> morning["scheduler"].failed \cup {"bench"}]

\* _argv_for: the whole suite on the real provider, and no --resume.
RunBench ==
  /\ At("scheduler", "bench")
  /\ \/ /\ ~ Due("bench")
        /\ Goes("scheduler", [at |-> "report"])
        /\ UNCHANGED <<vars, launched>>
     \/ /\ Due("bench")
        /\ \E r \in Runs : Starts(r, "scheduler", TRUE, Suite, FALSE)
        /\ Goes("scheduler", [at |-> "wait", stamp |-> starts'])
        /\ launched' = launched \cup {[stamp |-> starts', on |-> day,
                                       seen |-> morning["scheduler"].seen]}
  /\ UNCHANGED <<weekly, wake, sent, posts, said>>

\* The pid file refuses it, or the preflight does.
BenchRefused ==
  /\ At("scheduler", "bench") /\ Due("bench")
  /\ \/ \E r \in Runs : ~ Alive(r) /\ Refused(r) /\ UNCHANGED faults
     \/ Fault("preflight")
  /\ Goes("scheduler", BenchFails)
  /\ UNCHANGED <<day, utc, build, suite, bank, lock, run, files, starts, bought>>
  /\ UNCHANGED <<weekly, wake, sent, posts, said, launched>>

MyBench == {r \in Runs : Alive(r) /\ run[r].stamp = morning["scheduler"].stamp}

\* It exits 0 when it measured every case.
BenchReturns ==
  /\ At("scheduler", "wait") /\ MyBench = {}
  /\ IF \E f \in files : f.stamp = morning["scheduler"].stamp /\ Answered(f) = DOMAIN f.rows
     THEN Goes("scheduler", [at |-> "report"])
     ELSE Goes("scheduler", BenchFails)
  /\ UNCHANGED <<vars, weekly, wake, sent, posts, said, launched>>

\* BENCH_TIMEOUT_S
BenchTimesOut ==
  /\ At("scheduler", "wait")
  /\ \E r \in MyBench : Dies(r)
  /\ Goes("scheduler", BenchFails)
  /\ UNCHANGED <<weekly, wake, sent, posts, said, launched>>

-----------------------------------------------------------------------------
(* The alert.                                                              *)

\* `avs cadence --notify` by hand, and a bench of the operator's with --notify.
OperatorReports ==
  /\ morning["operator"] = None
  /\ posts < MaxPosts /\ posts' = posts + 1
  /\ morning' = [morning EXCEPT !["operator"] = Begin("report", {})]
  /\ UNCHANGED <<vars, weekly, wake, sent, said, launched>>

BenchPosts ==
  /\ morning["bench"] = None
  /\ posts < MaxPosts /\ posts' = posts + 1
  /\ \E f \in files :
       /\ f.who = "operator"
       /\ morning' = [morning EXCEPT !["bench"] = Begin("deliver", {<<"result", f.stamp>>})]
  /\ UNCHANGED <<vars, weekly, wake, sent, said, launched>>

\* is_worth_repeating
Repeats(kind, alert) ==
  /\ sent[kind] # None /\ sent[kind].alert = alert /\ day - sent[kind].at < Repeat

Report(t) ==
  /\ At(t, "report")
  /\ \E f \in Evidence : LET alert == Alert(t, f) IN
       IF alert = {} \/ Repeats("cadence", alert)
       THEN morning' = [morning EXCEPT ![t] = None]
       ELSE Goes(t, [at |-> "deliver", alert |-> alert, today |-> day])
  /\ UNCHANGED <<vars, weekly, wake, sent, posts, said, launched>>

\* Mutated: remembered before it is delivered.
DeliverAfter(t) ==
  /\ At(t, "deliver")
  /\ \/ /\ said' = Append(said, [kind |-> KindOf(t), alert |-> morning[t].alert, at |-> morning[t].today])
        /\ Goes(t, [at |-> "load"])
        /\ UNCHANGED <<faults, sent>>
     \/ /\ Fault("webhook")
        /\ morning' = [morning EXCEPT ![t] = None]
        /\ sent' = [sent EXCEPT ![KindOf(t)] = [alert |-> morning[t].alert, at |-> morning[t].today]]
        /\ UNCHANGED said
  /\ UNCHANGED <<day, utc, build, suite, bank, lock, run, files, starts, bought>>
  /\ UNCHANGED <<weekly, wake, posts, launched>>

\* An alert the webhook does not take is not remembered.
Deliver(t) ==
  /\ At(t, "deliver")
  /\ \/ /\ said' = Append(said, [kind |-> KindOf(t), alert |-> morning[t].alert, at |-> morning[t].today])
        /\ Goes(t, [at |-> "load"])
        /\ UNCHANGED faults
     \/ /\ Fault("webhook")
        /\ morning' = [morning EXCEPT ![t] = None]
        /\ UNCHANGED said
  /\ UNCHANGED <<day, utc, build, suite, bank, lock, run, files, starts, bought>>
  /\ UNCHANGED <<weekly, wake, sent, posts, launched>>

\* record_sent reads every kind's entry and writes them all back.
LoadSent(t) ==
  /\ At(t, "load")
  /\ Goes(t, [at |-> "save", log |-> sent])
  /\ UNCHANGED <<vars, weekly, wake, sent, posts, said, launched>>

SaveSent(t) ==
  /\ At(t, "save")
  /\ sent' = [morning[t].log EXCEPT ![KindOf(t)] = [alert |-> morning[t].alert, at |-> morning[t].today]]
  /\ morning' = [morning EXCEPT ![t] = None]
  /\ UNCHANGED <<vars, weekly, wake, posts, said, launched>>

\* A teller is killed; a bench it waits for runs on.
TellerDies(t) ==
  /\ morning[t] # None
  /\ Fault("teller")
  /\ morning' = [morning EXCEPT ![t] = None]
  /\ UNCHANGED <<day, utc, build, suite, bank, lock, run, files, starts, bought>>
  /\ UNCHANGED <<weekly, wake, sent, posts, said, launched>>

-----------------------------------------------------------------------------

\* The scheduler's own install is upgraded, by hand.
Upgrade ==
  /\ build["scheduler"] < build["operator"]
  /\ build' = [build EXCEPT !["scheduler"] = build["operator"]]
  /\ UNCHANGED <<day, utc, suite, bank, lock, run, files, starts, faults, bought>>
  /\ UNCHANGED cadenceVars

CadenceNext ==
  \/ Wakes \/ RunWeekly \/ RunBench \/ BenchRefused \/ BenchReturns \/ BenchTimesOut
  \/ OperatorReports \/ BenchPosts \/ Upgrade
  \/ \E t \in Tellers : Report(t) \/ Deliver(t) \/ LoadSent(t) \/ SaveSent(t) \/ TellerDies(t)
  \/ Next /\ UNCHANGED cadenceVars

CadenceSpec == CadenceInit /\ [][CadenceNext]_allVars

-----------------------------------------------------------------------------
(* Properties.                                                             *)

\* What is held back was said: an alert is suppressed only when the same alert
\* was delivered less than REPEAT_DAYS ago, whatever was refused by the webhook,
\* overwritten by another teller or delivered under the other kind since ("new
\* news is never delayed").
NewsIsSaid ==
  [][\A t \in Tellers : \A f \in Evidence :
       /\ At(t, "report") /\ morning'[t] = None /\ faults' = faults
       /\ Evidence = {f} /\ Alert(t, f) # {}
       => \E i \in DOMAIN said : /\ said[i].kind = "cadence" /\ said[i].alert = Alert(t, f)
                                 /\ day - said[i].at < Repeat]_allVars

\* The scheduler pays for a second bench within the minimum spacing, less the one
\* day by which the date of UTC on a result may lag the local date it is aged
\* against, only when the first had left no result in the tracked directory that
\* morning, an aborted one or one without a rate included ("ten releases in a
\* week do not buy ten benchmark runs").
SpendIsSpaced ==
  \A a, b \in launched :
    a.stamp < b.stamp /\ b.on - a.on < Weekly - 1 => a.stamp \notin b.seen

\* The same without that day: it does not hold east of Greenwich, where a run that
\* is started in the early hours is stamped with the day before.
SpendIsFullySpaced ==
  \A a, b \in launched :
    a.stamp < b.stamp /\ b.on - a.on < Weekly => a.stamp \notin b.seen

\* The bench reads `ok` only while the series the criterion reads has a reading
\* that young ("the same exclusion the criterion applies, ASKED OF the criterion
\* rather than re-derived here").
SeriesIsWatched ==
  \A f \in Evidence : BenchState(f, "scheduler") = "ok" =>
    \E g \in Series : g.on = f.on
=============================================================================

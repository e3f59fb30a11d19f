---------------------------- MODULE Maintenance ----------------------------
(***************************************************************************)
(* Incident maintenance (maintenance/graph.py, skills_registry.py): a      *)
(* checkpointed graph triages an incident, looks for a root cause, records *)
(* it in the history of incidents, and drafts a skill when its class       *)
(* recurs; a human approves skills, and only approved ones are given to    *)
(* the next investigation.                                                 *)
(*                                                                         *)
(* The history and the skill files are shared by every incident and are    *)
(* read, thought about and written without a lock: those writes are two    *)
(* steps.  An incident is run by every process that triages it, and by any *)
(* server that starts while it has no final file: recover_maintenance does *)
(* not ask whether another process is still at work on it.  Texts are      *)
(* compared by the class of incident they belong to.                       *)
(***************************************************************************)
EXTENDS Naturals, Sequences, SequencesExt, FiniteSets

CONSTANTS
  Incidents, Class,      \* incidents and the class each one's text belongs to
  Procs,                 \* processes, as pairs of an incident and a number
  Names,                 \* file names the model may give a drafted skill
  RecurrenceThreshold,   \* incidents of a class before a skill is drafted (3 in the code)
  MaxHistory,            \* entries the history keeps (500 in the code)
  Lagging,               \* TRUE: a checkpoint may still be unwritten when the next node runs
  Limits                 \* bounds: how often each of Events may happen, a set of choices

\* Overlaps are recoveries of an incident that has a process alive.
Events == {"runs", "crashes", "overlaps"}

Classes == {Class[i] : i \in Incidents}
GraphNodes == {"triage", "learned", "root_cause", "finalize"}
Priorities == {"P1-P3", "P4"}
NoSkill == [status |-> "none"]

ASSUME MaintenanceAssumption ==
  /\ RecurrenceThreshold \in Nat \ {0} /\ MaxHistory \in Nat \ {0}
  /\ Procs \subseteq Incidents \X Nat
  /\ Lagging \in BOOLEAN
  /\ Limits \subseteq [Events -> Nat]

VARIABLES
  \* one process at work on an incident, per incident and slot
  pc,       \* input, the node it runs, what it does in finalize, or "none"
  priority, \* what its triage node returned
  seen,     \* in finalize: the history it loaded, and the similar incidents in it
  \* one incident, per id
  stored,   \* its last stored checkpoint: the node that comes next, the priority
  final,    \* it has a final mirror file
  \* files
  history,  \* history.yaml: incidents in order
  skills,   \* the skill files by name
  \* bounds and history
  left,     \* how many of each of the bounded events may still happen
  blessed,  \* skill bodies a human approved, with the file's name
  applied,  \* skill bodies given to an investigation, with the file's name
  raced     \* a writer of the history or of the skills overlapped another

maintenanceVars == <<pc, priority, seen, stored, final, history, skills, left, blessed, applied, raced>>

NotSeen == [copy |-> <<>>, similar |-> {}]
Running(p) == pc[p] # "none"
AtWork(i) == \E p \in Procs : p[1] = i /\ Running(p)
Exit(p) == /\ pc' = [pc EXCEPT ![p] = "none"]
           /\ priority' = [priority EXCEPT ![p] = "none"]
           /\ seen' = [seen EXCEPT ![p] = NotSeen]
Spend(what) == left[what] > 0 /\ left' = [left EXCEPT ![what] = @ - 1]

MaintenanceInit ==
  /\ pc = [p \in Procs |-> "none"]
  /\ priority = [p \in Procs |-> "none"]
  /\ seen = [p \in Procs |-> NotSeen]
  /\ stored = [i \in Incidents |-> [next |-> "nothing", priority |-> "none"]]
  /\ final = [i \in Incidents |-> FALSE]
  /\ history = <<>>
  /\ skills = [n \in Names |-> NoSkill]
  /\ left \in Limits
  /\ blessed = {} /\ applied = {}
  /\ raced = FALSE

-----------------------------------------------------------------------------
(* The graph of one incident, as one process runs it.                      *)

\* A super-step ends: its checkpoint is stored, or still on its way.  Every
\* process of an incident stores under the one thread id; the last one counts.
Checkpoint(i, next, f) ==
  \/ stored' = [stored EXCEPT ![i] = [next |-> next, priority |-> f]]
  \/ Lagging /\ UNCHANGED stored

Advance(p, next, f) ==
  /\ pc' = [pc EXCEPT ![p] = next]
  /\ Checkpoint(p[1], next, f)

\* run_maintenance writes meta.yaml and invokes the graph on the incident's own
\* thread; the same incident may be triaged again, or while it is.
Triage(p) ==
  /\ ~ Running(p)
  /\ Spend("runs")
  /\ pc' = [pc EXCEPT ![p] = "input"]
  /\ UNCHANGED <<priority, seen, stored, final, history, skills, blessed, applied, raced>>

\* The input is stored, then intake, signal and correlate run: one step, for
\* nothing else reads what they return, and "triage" stands for any of them.
Gather(p) ==
  /\ pc[p] = "input"
  /\ Advance(p, "triage", "none")
  /\ UNCHANGED <<priority, seen, final, history, skills, left, blessed, applied, raced>>

TriageNode(p) ==
  /\ pc[p] = "triage"
  /\ \E f \in Priorities :
       /\ priority' = [priority EXCEPT ![p] = f]
       /\ Advance(p, "learned", f)
  /\ UNCHANGED <<seen, final, history, skills, left, blessed, applied, raced>>

\* The best approved skill of the class, unless its score is below the floor.
Matching(i) == {n \in Names : skills[n].status = "approved" /\ skills[n].class = Class[i]}

LearnedNode(p) ==
  /\ pc[p] = "learned"
  /\ \E n \in Matching(p[1]) \cup {"none"} :
       applied' = IF n = "none" THEN applied ELSE applied \cup {<<n, skills[n].body>>}
  /\ Advance(p, IF priority[p] = "P4" THEN "finalize" ELSE "root_cause", priority[p])
  /\ UNCHANGED <<priority, seen, final, history, skills, left, blessed, raced>>

\* What it says decides the verdict, which nothing reads back.
RootCauseNode(p) ==
  /\ pc[p] = "root_cause"
  /\ Advance(p, "finalize", priority[p])
  /\ UNCHANGED <<priority, seen, final, history, skills, left, blessed, applied, raced>>

Entries(h) == {h[k] : k \in DOMAIN h}

\* Mutated: the incident itself counts as similar.
HistoryLoadOwn(p) ==
  /\ pc[p] = "finalize"
  /\ seen' = [seen EXCEPT ![p] =
       [copy |-> history, similar |-> {j \in Entries(history) : Class[j] = Class[p[1]]}]]
  /\ pc' = [pc EXCEPT ![p] = IF p[1] \in Entries(history) THEN "draft" ELSE "save"]
  /\ UNCHANGED <<priority, stored, final, history, skills, left, blessed, applied, raced>>

\* record_incident loads the history and finds the similar incidents in it; an
\* incident it holds already is not written again.
HistoryLoad(p) ==
  /\ pc[p] = "finalize"
  /\ seen' = [seen EXCEPT ![p] =
       [copy |-> history, similar |-> {j \in Entries(history) \ {p[1]} : Class[j] = Class[p[1]]}]]
  /\ pc' = [pc EXCEPT ![p] = IF p[1] \in Entries(history) THEN "draft" ELSE "save"]
  /\ UNCHANGED <<priority, stored, final, history, skills, left, blessed, applied, raced>>

LastOf(h) == SubSeq(h, IF Len(h) > MaxHistory THEN Len(h) - MaxHistory + 1 ELSE 1, Len(h))

HistorySave(p) ==
  /\ pc[p] = "save"
  /\ history' = LastOf(Append(seen[p].copy, p[1]))
  /\ raced' = (raced \/ history # seen[p].copy)
  /\ pc' = [pc EXCEPT ![p] = "draft"]
  /\ UNCHANGED <<priority, seen, stored, final, skills, left, blessed, applied>>

Covered(c) == \E n \in Names : skills[n].status # "none" /\ skills[n].class = c
Recurs(p) == Cardinality(seen[p].similar) + 1 >= RecurrenceThreshold

\* maybe_draft_skill: a skill of the class, proposed or approved, is enough.
DraftCheck(p) ==
  /\ pc[p] = "draft"
  /\ pc' = [pc EXCEPT ![p] = IF Recurs(p) /\ ~Covered(Class[p[1]]) THEN "write" ELSE "final"]
  /\ UNCHANGED <<priority, seen, stored, final, history, skills, left, blessed, applied, raced>>

Draft(p) == [status |-> "proposed", class |-> Class[p[1]], body |-> p[1],
             instances |-> seen[p].similar \cup {p[1]}]

\* Mutated: a file that has a status keeps it.
DraftWriteKeepsStatus(p) ==
  /\ pc[p] = "write"
  /\ \E n \in Names :
       skills' = [skills EXCEPT ![n] =
         [Draft(p) EXCEPT !.status = IF skills[n].status = "none" THEN @ ELSE skills[n].status]]
  /\ raced' = (raced \/ Covered(Class[p[1]]))
  /\ pc' = [pc EXCEPT ![p] = "final"]
  /\ UNCHANGED <<priority, seen, stored, final, history, left, blessed, applied>>

\* The model answers with a name and a body; the file of that name is written,
\* whatever it held.  Or the answer cannot be left, and there is no draft.
DraftWrite(p) ==
  /\ pc[p] = "write"
  /\ \/ \E n \in Names : skills' = [skills EXCEPT ![n] = Draft(p)]
     \/ UNCHANGED skills
  /\ raced' = (raced \/ Covered(Class[p[1]]))
  /\ pc' = [pc EXCEPT ![p] = "final"]
  /\ UNCHANGED <<priority, seen, stored, final, history, left, blessed, applied>>

WriteFinal(p) ==
  /\ pc[p] = "final"
  /\ final' = [final EXCEPT ![p[1]] = TRUE]
  /\ Checkpoint(p[1], "done", priority[p])
  /\ Exit(p)
  /\ UNCHANGED <<history, skills, left, blessed, applied, raced>>

Crash(p) ==
  /\ Running(p)
  /\ Spend("crashes")
  /\ Exit(p)
  /\ UNCHANGED <<stored, final, history, skills, blessed, applied, raced>>

\* Mutated: recovery wants the incident in the history.
RecoverRecorded(p) ==
  /\ ~ Running(p)
  /\ ~ final[p[1]] /\ stored[p[1]].next # "nothing" /\ p[1] \in Entries(history)
  /\ IF AtWork(p[1]) THEN Spend("overlaps") ELSE UNCHANGED left
  /\ pc' = [pc EXCEPT ![p] = "check"]
  /\ UNCHANGED <<priority, seen, stored, final, history, skills, blessed, applied, raced>>

\* recover_maintenance: meta.yaml, a stored checkpoint and no final file of any
\* run, whether or not a process is still at work on the incident.
RecoverCheck(p) ==
  /\ ~ Running(p)
  /\ ~ final[p[1]] /\ stored[p[1]].next # "nothing"
  /\ IF AtWork(p[1]) THEN Spend("overlaps") ELSE UNCHANGED left
  /\ pc' = [pc EXCEPT ![p] = "check"]
  /\ UNCHANGED <<priority, seen, stored, final, history, skills, blessed, applied, raced>>

\* It goes on from the checkpoint that is then the last one, if a node is left.
RecoverLoad(p) ==
  /\ pc[p] = "check"
  /\ IF stored[p[1]].next \notin GraphNodes THEN Exit(p)
     ELSE /\ pc' = [pc EXCEPT ![p] = stored[p[1]].next]
          /\ priority' = [priority EXCEPT ![p] = stored[p[1]].priority]
          /\ UNCHANGED seen
  /\ UNCHANGED <<stored, final, history, skills, left, blessed, applied, raced>>

\* A human flips a proposed skill to approved.
Approve(n) ==
  /\ skills[n].status = "proposed"
  /\ skills' = [skills EXCEPT ![n].status = "approved"]
  /\ blessed' = blessed \cup {<<n, skills[n].body>>}
  /\ UNCHANGED <<pc, priority, seen, stored, final, history, left, applied, raced>>

-----------------------------------------------------------------------------
Step(p) ==
  \/ Gather(p) \/ TriageNode(p) \/ LearnedNode(p) \/ RootCauseNode(p) \/ HistoryLoad(p)
  \/ HistorySave(p) \/ DraftCheck(p) \/ DraftWrite(p) \/ WriteFinal(p) \/ RecoverLoad(p)

MaintenanceNext ==
  \/ \E p \in Procs : Triage(p) \/ Step(p) \/ Crash(p) \/ RecoverCheck(p)
  \/ \E n \in Names : Approve(n)

MaintenanceSpec == MaintenanceInit /\ [][MaintenanceNext]_maintenanceVars

\* A running graph takes its next step, and some server starts again.
FairSpec ==
  /\ MaintenanceSpec
  /\ \A p \in Procs : WF_maintenanceVars(Step(p))
  /\ \A i \in Incidents : WF_maintenanceVars(\E p \in Procs : p[1] = i /\ RecoverCheck(p))

-----------------------------------------------------------------------------
Seen == [copy: Seq(Incidents), similar: SUBSET Incidents]

\* Every process, incident, the history and the skill files keep the shapes the
\* code reads back from YAML and from the checkpoint.
MaintenanceTypeOK ==
  /\ pc \in [Procs -> GraphNodes \cup {"none", "input", "save", "draft", "write", "final", "check"}]
  /\ priority \in [Procs -> Priorities \cup {"none"}]
  /\ seen \in [Procs -> Seen]
  /\ stored \in [Incidents -> [next: GraphNodes \cup {"nothing", "done"},
                               priority: Priorities \cup {"none"}]]
  /\ final \in [Incidents -> BOOLEAN]
  /\ history \in Seq(Incidents)
  /\ skills \in [Names -> {NoSkill} \cup
       [status: {"proposed", "approved"}, class: Classes, body: Incidents, instances: SUBSET Incidents]]
  /\ left \in [Events -> Nat]
  /\ blessed \subseteq Names \X Incidents /\ applied \subseteq Names \X Incidents
  /\ raced \in BOOLEAN

\* "only skills a human flips to approved are ever injected"
\* (skills_registry.py:5-8): whatever is drafted over a file of the same name,
\* no investigation is given a body no human approved.
OnlyApprovedIsInjected == applied \subseteq blessed

\* A skill stands for a class that recurred: distinct incidents, all of it,
\* whatever was triaged twice, resumed, or recovered beside its own live run
\* (graph.py:182-192); and a class has one, unless two processes drafted at once.
DraftsAreEarned ==
  \A n \in Names : skills[n].status # "none" =>
    /\ Cardinality(skills[n].instances) >= RecurrenceThreshold
    /\ \A j \in skills[n].instances : Class[j] = skills[n].class
    /\ raced \/ \A m \in Names \ {n} : skills[m].status = "none" \/ skills[m].class # skills[n].class

\* Unless two writers overlapped, the history holds every finished incident
\* once, up to the ones its length has pushed out (skills_registry.py:137-157).
HistoryIsComplete ==
  /\ ~raced => \A j, k \in DOMAIN history : history[j] = history[k] => j = k
  /\ ~raced /\ Len(history) < MaxHistory =>
       \A i \in Incidents : final[i] => i \in Entries(history)
  /\ Len(history) <= MaxHistory

\* An incident that entered the graph ends with its final file or without a
\* checkpoint; where an earlier run left a final file, no recovery looks at what
\* a later one was about.
EveryIncidentSettles ==
  \A i \in Incidents :
    AtWork(i) ~> ~ AtWork(i) /\ (final[i] \/ stored[i].next = "nothing")
=============================================================================

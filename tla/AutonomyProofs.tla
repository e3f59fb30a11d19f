---------------------------- MODULE AutonomyProofs ----------------------------
(***************************************************************************)
(* What TLAPS proves of the deployment review and of the commands that act *)
(* on it, for any number of reviews, pull requests, policies, marks, days, *)
(* crashes and processes at work on one review.  A row of the track record *)
(* may be in the file or in the hands of a writer that loaded it, and a    *)
(* command carries what it read until it acts: the invariants speak of     *)
(* every place a fact may be.                                              *)
(***************************************************************************)
EXTENDS Autonomy, TLAPS, FiniteSetTheorems, SequenceTheorems

Places == {"none", "built", "input", "probes", "vote", "score", "finalize", "save", "final",
           "check"}
Restarts == {"unstarted", "nothing", "probes", "vote", "score", "finalize", "done"}
Kept == [found: SUBSET Kinds, blocked: Nat]
Stored == [next: Restarts, kept: Kept]
Entries == [kind: {"deploy", "merge"}, allowed: BOOLEAN]
Marking == [at: {"save"}, id: Reviews, outcome: Outcomes, copy: Seq(Row)]
Evaluating == [at: {"evaluate"}, kind: {"deploy"}, id: Reviews, verdict: DeployVerdict,
               edited: BOOLEAN, argv: Argv]

ReviewTypes ==
  /\ pc \in [Procs -> Places] /\ kept \in [Procs -> Kept] /\ copy \in [Procs -> Seq(Row)]
  /\ facts \in [Reviews -> Facts] /\ stored \in [Reviews -> Stored]
  /\ final \in [Reviews -> DeployVerdict \cup {"none"}]
  /\ keeps \in [Reviews -> SUBSET Kept]

FileTypes ==
  /\ records \in Seq(Row) /\ log \in Seq(Entries)
  /\ policies \in [{"deploy", "merge"} -> AutomationPolicy]
  /\ mark \in {Idle} \cup Marking
  /\ day \in 0..MaxDay
  /\ said \in [Reviews -> Outcomes \cup {"none"}] /\ raced \in BOOLEAN

CommandTypes == cmd \in {Idle} \cup Acting \cup Evaluating /\ acted \in Seq(Acting)

BudgetTypes == left \in [Events -> Nat]

LEMMA TypeParts == TypeOK <=> ReviewTypes /\ FileTypes /\ CommandTypes /\ BudgetTypes
BY DEF TypeOK, ReviewTypes, FileTypes, CommandTypes, BudgetTypes, Places, Restarts, Kept, Entries,
       Marking, Evaluating, Stored

-----------------------------------------------------------------------------
(* Types.                                                                  *)

LEMMA ReviewOfProc == \A p \in Procs : p[1] \in Reviews
BY DEF Procs

LEMMA VerdictType == \A r, k : Verdict(r, k) \in DeployVerdict
BY DEF Verdict, decide, DeployVerdict

LEMMA PlacesAreNamed ==
  /\ Restarts \ {"unstarted", "nothing", "done"} \subseteq Places
  /\ Absent \in AutomationPolicy
  /\ NoFacts \in Facts /\ Nothing \in Kept
<1>1. Restarts \ {"unstarted", "nothing", "done"} \subseteq Places
  BY DEF Restarts, Places
<1>2. Absent \in AutomationPolicy
  BY DEF Absent, AutomationPolicy
<1>3. NoFacts \in Facts
  BY DEF NoFacts, Facts
<1>4. Nothing \in Kept
  BY DEF Nothing, Kept
<1> QED
  BY <1>1, <1>2, <1>3, <1>4

LEMMA InitTyped == Init => TypeOK
<1> SUFFICES ASSUME Init PROVE TypeOK
  OBVIOUS
<1>1. ReviewTypes
  BY PlacesAreNamed DEF Init, ReviewTypes, Places, Restarts, Stored
<1>2. FileTypes
  <2>1. /\ policies \in [{"deploy", "merge"} -> AutomationPolicy]
        /\ day \in 0..MaxDay /\ said \in [Reviews -> Outcomes \cup {"none"}]
    BY PlacesAreNamed, AutonomyAssumption DEF Init
  <2>2. records \in Seq(Row) /\ log \in Seq(Entries) /\ mark = Idle
    BY DEF Init
  <2>3. raced \in BOOLEAN
    BY DEF Init
  <2> QED
    BY <2>1, <2>2, <2>3 DEF FileTypes
<1>3. CommandTypes
  BY DEF Init, CommandTypes
<1>4. BudgetTypes
  BY AutonomyAssumption DEF Init, BudgetTypes
<1> QED
  BY <1>1, <1>2, <1>3, <1>4, TypeParts

LEMMA SpendType ==
  ASSUME BudgetTypes, NEW what \in Events, Spend(what) PROVE BudgetTypes'
BY DEF BudgetTypes, Spend

\* What a step of a process does to the types of the reviews.
LEMMA CheckpointTyped ==
  ASSUME ReviewTypes, NEW r \in Reviews, NEW next \in Restarts, NEW k \in Kept,
         Checkpoint(r, next, k)
  PROVE  stored' \in [Reviews -> Stored]
<1>1. [next |-> next, kept |-> k] \in Stored
  BY DEF Stored
<1> QED
  BY <1>1 DEF Checkpoint, ReviewTypes

LEMMA ExitTyped ==
  ASSUME ReviewTypes, NEW p \in Procs, Exit(p)
  PROVE  pc' \in [Procs -> Places] /\ kept' \in [Procs -> Kept] /\ copy' \in [Procs -> Seq(Row)]
<1>1. "none" \in Places /\ Nothing \in Kept /\ <<>> \in Seq(Row)
  BY PlacesAreNamed DEF Places
<1> QED
  BY <1>1 DEF Exit, ReviewTypes

LEMMA ReviewStepTyped ==
  ASSUME TypeOK, NEW p \in Procs, ReviewStep(p) PROVE TypeOK'
<1> USE AutonomyAssumption
<1>0. ReviewTypes /\ FileTypes /\ CommandTypes /\ BudgetTypes /\ p[1] \in Reviews
  BY TypeParts, ReviewOfProc
<1>1. UNCHANGED outside
  BY DEF ReviewStep, StartReview, WriteMeta, ProbesAndVote, Node, ScoreNode, RecordLoad,
         RecordSave, WriteFinal
<1>2. CommandTypes'
  BY <1>0, <1>1 DEF CommandTypes, outside
<1>3. ReviewTypes' /\ records' \in Seq(Row) /\ raced' \in BOOLEAN /\ BudgetTypes'
  <2> USE <1>0
  <2>1. CASE StartReview(p)
    <3>1. stored' = [stored EXCEPT ![p[1]].next = "nothing"] /\ stored[p[1]] \in Stored
      BY <2>1 DEF StartReview, ReviewTypes
    <3>2. [stored[p[1]] EXCEPT !.next = "nothing"] \in Stored
      BY <3>1 DEF Stored, Restarts
    <3>3. stored' \in [Reviews -> Stored]
      BY <3>1, <3>2 DEF ReviewTypes
    <3>4. BudgetTypes'
      BY <2>1, SpendType DEF StartReview, Events
    <3> QED
      BY <2>1, <3>3, <3>4 DEF StartReview, ReviewTypes, FileTypes, Places
  <2>2. CASE WriteMeta(p)
    BY <2>2 DEF WriteMeta, ReviewTypes, FileTypes, BudgetTypes, Places
  <2>3. CASE ProbesAndVote(p)
    <3>1. PICK next \in {"probes", "vote", "score"}, at \in {"input", "probes", "vote"} : Node(p, at, next)
      BY <2>3 DEF ProbesAndVote
    <3>2. stored' \in [Reviews -> Stored]
      BY <3>1, CheckpointTyped DEF Node, ReviewTypes, Restarts
    <3> QED
      BY <3>1, <3>2 DEF Node, ReviewTypes, FileTypes, BudgetTypes, Places
  <2>4. CASE ScoreNode(p)
    <3>1. Panels \subseteq Kept
      BY DEF Kept
    <3>2. PICK k : /\ \E panel \in Panels :
                        k = IF facts[p[1]].lint THEN [panel EXCEPT !.blocked = 0] ELSE panel
                   /\ kept' = [kept EXCEPT ![p] = k]
                   /\ keeps' = [keeps EXCEPT ![p[1]] = @ \cup {k}]
                   /\ Checkpoint(p[1], "finalize", k)
      BY <2>4 DEF ScoreNode
    <3>4. k \in Kept
      BY <3>1, <3>2 DEF Kept
    <3>5. kept' \in [Procs -> Kept] /\ keeps' \in [Reviews -> SUBSET Kept]
      BY <3>2, <3>4 DEF ReviewTypes
    <3>3. stored' \in [Reviews -> Stored]
      BY <3>2, <3>4, CheckpointTyped DEF Restarts
    <3> QED
      BY <2>4, <3>3, <3>5 DEF ScoreNode, ReviewTypes, FileTypes, BudgetTypes, Places
  <2>5. CASE RecordLoad(p)
    <3>1. raced' \in BOOLEAN
      <4>1. CASE raced' = raced
        BY <4>1 DEF FileTypes
      <4>2. CASE raced' = (raced \/ Writing)
        BY <4>2
      <4> QED
        BY <2>5, <4>1, <4>2 DEF RecordLoad
    <3>2. ReviewTypes' /\ records' = records /\ BudgetTypes'
      BY <2>5 DEF RecordLoad, ReviewTypes, FileTypes, BudgetTypes, Places
    <3> QED
      BY <3>1, <3>2 DEF FileTypes
  <2>6. CASE RecordSave(p)
    <3>1. [id |-> p[1], verdict |-> Verdict(p[1], kept[p]), outcome |-> "none"] \in Row
      BY VerdictType DEF Row
    <3>2. copy[p] \in Seq(Row) /\ <<>> \in Seq(Row)
      BY DEF ReviewTypes
    <3>3. records' \in Seq(Row)
      BY <2>6, <3>1, <3>2 DEF RecordSave
    <3> QED
      BY <2>6, <3>2, <3>3 DEF RecordSave, ReviewTypes, FileTypes, BudgetTypes, Places
  <2>7. CASE WriteFinal(p)
    <3>1. final' \in [Reviews -> DeployVerdict \cup {"none"}]
      BY <2>7, VerdictType DEF WriteFinal, ReviewTypes
    <3>2. kept[p] \in Kept /\ Checkpoint(p[1], "done", kept[p]) /\ Exit(p)
      BY <2>7 DEF WriteFinal, ReviewTypes
    <3>3. stored' \in [Reviews -> Stored]
      BY <3>2, CheckpointTyped DEF Restarts
    <3> QED
      BY <2>7, <3>1, <3>2, <3>3, ExitTyped
      DEF WriteFinal, ReviewTypes, FileTypes, BudgetTypes
  <2> QED
    BY <2>1, <2>2, <2>3, <2>4, <2>5, <2>6, <2>7 DEF ReviewStep
<1>4. FileTypes'
  BY <1>0, <1>1, <1>3 DEF FileTypes, outside
<1> QED
  BY <1>2, <1>3, <1>4, TypeParts, PTL

\* So do the human, the commands and the calendar.
LEMMA OutsideTyped ==
  ASSUME TypeOK, UNCHANGED reviewVars, FileTypes', CommandTypes', BudgetTypes' PROVE TypeOK'
<1>1. ReviewTypes'
  BY TypeParts DEF ReviewTypes, reviewVars
<1> QED
  BY <1>1, TypeParts, PTL

\* Whatever a command makes of its evaluation.
LEMMA EvaluatedType ==
  ASSUME NEW kind \in {"deploy", "merge"}, NEW p, NEW refused,
         NEW go \in Acting, Evaluated(kind, p, refused, go), log \in Seq(Entries)
  PROVE  cmd' \in {Idle} \cup Acting /\ log' \in Seq(Entries)
<1>1. Entry(kind, FALSE) \in Entries
  BY DEF Entry, Entries
<1>2. Append(log, Entry(kind, FALSE)) \in Seq(Entries)
  BY <1>1, AppendProperties
<1> QED
  BY <1>2 DEF Evaluated

LEMMA JustifiedType ==
  ASSUME FileTypes, NEW p \in AutomationPolicy PROVE Justified(p) \in Reason
<1>1. Deserved(p.needed) \in BOOLEAN
  BY DEF Deserved
<1>2. day \in 0..MaxDay /\ raced \in BOOLEAN
  BY DEF FileTypes
<1> QED
  BY <1>1, <1>2 DEF Justified, Reason

\* A recovery found a checkpoint when it looked for one, and a later one replaces it.
CheckInv == \A p \in Procs : pc[p] = "check" => stored[p[1]].next \notin {"unstarted", "nothing"}

LEMMA NextCheck == ASSUME TypeOK, CheckInv, [Next]_vars PROVE CheckInv'
<1>0. /\ pc \in [Procs -> Places] /\ stored \in [Reviews -> Stored]
      /\ \A p \in Procs : p[1] \in Reviews
  BY TypeParts, ReviewOfProc DEF ReviewTypes
<1>1. CASE UNCHANGED reviewVars
  BY <1>1 DEF CheckInv, reviewVars
<1>2. ASSUME NEW q \in Procs,
             StartReview(q) \/ WriteMeta(q) \/ ProbesAndVote(q) \/ ScoreNode(q) \/ RecordLoad(q)
             \/ RecordSave(q) \/ WriteFinal(q) \/ Crash(q) \/ RecoverCheck(q) \/ RecoverLoad(q)
      PROVE  CheckInv'
  <2> SUFFICES ASSUME NEW p \in Procs, pc'[p] = "check"
               PROVE  stored'[p[1]].next \notin {"unstarted", "nothing"}
    BY DEF CheckInv
  <2>0. pc[p] = "check" => stored[p[1]].next \notin {"unstarted", "nothing"}
    BY DEF CheckInv
  <2>1. CASE StartReview(q)
    BY <1>0, <2>0, <2>1 DEF StartReview
  <2>2. CASE WriteMeta(q) \/ RecordLoad(q) \/ RecordSave(q) \/ Crash(q)
    BY <1>0, <2>0, <2>2 DEF WriteMeta, RecordLoad, RecordSave, Crash, Exit
  <2>3. CASE ProbesAndVote(q)
    BY <1>0, <2>0, <2>3 DEF ProbesAndVote, Node, Checkpoint
  <2>4. CASE ScoreNode(q)
    <3>1. PICK k : Checkpoint(q[1], "finalize", k)
      BY <2>4 DEF ScoreNode
    <3>2. pc' = [pc EXCEPT ![q] = "finalize"]
      BY <2>4 DEF ScoreNode
    <3> QED
      BY <1>0, <2>0, <3>1, <3>2 DEF Checkpoint
  <2>5. CASE WriteFinal(q)
    BY <1>0, <2>0, <2>5 DEF WriteFinal, Checkpoint, Exit
  <2>6. CASE RecoverCheck(q)
    BY <1>0, <2>0, <2>6 DEF RecoverCheck
  <2>7. CASE RecoverLoad(q)
    <3>1. stored[q[1]].next # "check"
      BY <1>0 DEF Stored, Restarts
    <3> QED
      BY <1>0, <2>0, <2>7, <3>1 DEF RecoverLoad, Exit
  <2> QED
    BY <1>2, <2>1, <2>2, <2>3, <2>4, <2>5, <2>6, <2>7
<1> QED
  BY <1>1, <1>2
  DEF Next, ReviewStep, DeployLoad, MarkLoad, MarkSave, DeployEvaluate, Act, Record, Killed, Tick,
      MergeEvaluate, EditPolicy, vars

LEMMA NextTyped == TypeOK /\ CheckInv /\ [Next]_vars => TypeOK'
<1> SUFFICES ASSUME TypeOK, CheckInv, [Next]_vars PROVE TypeOK'
  OBVIOUS
<1> USE AutonomyAssumption
<1>0. ReviewTypes /\ FileTypes /\ CommandTypes /\ BudgetTypes
  BY TypeParts
<1>1. ASSUME NEW p \in Procs, ReviewStep(p) PROVE TypeOK'
  BY <1>1, ReviewStepTyped
<1>2. ASSUME NEW p \in Procs, Crash(p) PROVE TypeOK'
  <2>1. BudgetTypes'
    BY <1>0, <1>2, SpendType DEF Crash, Events
  <2>2. ReviewTypes' /\ FileTypes' /\ CommandTypes'
    BY <1>0, <1>2, ExitTyped DEF Crash, ReviewTypes, FileTypes, CommandTypes, outside
  <2> QED
    BY <2>1, <2>2, TypeParts, PTL
<1>3. ASSUME NEW p \in Procs, RecoverCheck(p) PROVE TypeOK'
  <2>1. BudgetTypes'
    <3>1. CASE Spend("overlaps")
      BY <1>0, <3>1, SpendType DEF Events
    <3>2. CASE UNCHANGED left
      BY <1>0, <3>2 DEF BudgetTypes
    <3> QED
      BY <1>3, <3>1, <3>2 DEF RecoverCheck
  <2>2. ReviewTypes' /\ FileTypes' /\ CommandTypes'
    BY <1>0, <1>3 DEF RecoverCheck, ReviewTypes, FileTypes, CommandTypes, Places, outside
  <2> QED
    BY <2>1, <2>2, TypeParts, PTL
<1>15. ASSUME NEW p \in Procs, RecoverLoad(p) PROVE TypeOK'
  <2>1. stored[p[1]] \in Stored
    BY <1>0, ReviewOfProc DEF ReviewTypes
  <2>2. stored[p[1]].next = "done" =>
          pc' \in [Procs -> Places] /\ kept' \in [Procs -> Kept] /\ copy' \in [Procs -> Seq(Row)]
    BY <1>0, <1>15, ExitTyped DEF RecoverLoad
  <2>3. ASSUME stored[p[1]].next # "done"
        PROVE  pc' \in [Procs -> Places] /\ kept' \in [Procs -> Kept]
               /\ copy' \in [Procs -> Seq(Row)]
    <3>1. stored[p[1]].next \in Places /\ stored[p[1]].kept \in Kept
      BY <1>15, <2>1, <2>3 DEF RecoverLoad, CheckInv, Stored, Restarts, Places
    <3> QED
      BY <1>0, <1>15, <2>3, <3>1 DEF RecoverLoad, ReviewTypes
  <2>4. pc' \in [Procs -> Places] /\ kept' \in [Procs -> Kept] /\ copy' \in [Procs -> Seq(Row)]
    BY <2>2, <2>3
  <2>5. ReviewTypes' /\ FileTypes' /\ CommandTypes' /\ BudgetTypes'
    BY <1>0, <1>15, <2>4
    DEF RecoverLoad, ReviewTypes, FileTypes, CommandTypes, BudgetTypes, outside
  <2> QED
    BY <2>5, TypeParts, PTL
<1>4. ASSUME NEW r \in Reviews, DeployLoad(r) PROVE TypeOK'
  <2>1. BudgetTypes'
    BY <1>0, <1>4, SpendType DEF DeployLoad, Events
  <2>2. policies["deploy"].command \in Argv
    BY <1>0 DEF FileTypes, AutomationPolicy, Argv
  <2>5. final[r] \in DeployVerdict
    BY <1>0, <1>4 DEF DeployLoad, ReviewTypes
  <2>3. [at |-> "evaluate", kind |-> "deploy", id |-> r, verdict |-> final[r],
         edited |-> FALSE, argv |-> policies["deploy"].command] \in Evaluating
    BY <2>2, <2>5 DEF Evaluating
  <2>4. CommandTypes'
    BY <1>0, <1>4, <2>3 DEF DeployLoad, CommandTypes
  <2>6. FileTypes'
    BY <1>0, <1>4 DEF DeployLoad, FileTypes
  <2> QED
    BY <1>4, <2>1, <2>4, <2>6, OutsideTyped DEF DeployLoad
<1>5. ASSUME NEW r \in Reviews, NEW o \in Outcomes, MarkLoad(r, o) PROVE TypeOK'
  <2>1. BudgetTypes'
    BY <1>0, <1>5, SpendType DEF MarkLoad, Events
  <2>2. [at |-> "save", id |-> r, outcome |-> o, copy |-> records] \in Marking
    BY <1>0 DEF Marking, FileTypes
  <2>3. raced' \in BOOLEAN
    BY <1>5 DEF MarkLoad
  <2>4. FileTypes' /\ CommandTypes'
    BY <1>0, <1>5, <2>2, <2>3 DEF MarkLoad, FileTypes, CommandTypes
  <2> QED
    BY <1>5, <2>1, <2>4, OutsideTyped DEF MarkLoad
<1>6. CASE MarkSave
  <2>1. mark \in Marking
    BY <1>0, <1>6 DEF MarkSave, FileTypes, Idle
  <2>2. mark.id \in Reviews /\ mark.outcome \in Outcomes /\ mark.copy \in Seq(Row)
    BY <2>1 DEF Marking
  <2> DEFINE AfterMark(x) == IF x.id = mark.id THEN [x EXCEPT !.outcome = mark.outcome] ELSE x
  <2>3. \A x \in Row : AfterMark(x) \in Row
    BY <2>2 DEF Row
  <2>4. records' = [i \in DOMAIN mark.copy |-> AfterMark(mark.copy[i])]
    BY <1>6 DEF MarkSave
  <2> HIDE DEF AfterMark
  <2>5. /\ DOMAIN mark.copy = 1..Len(mark.copy) /\ Len(mark.copy) \in Nat
        /\ \A i \in 1..Len(mark.copy) : mark.copy[i] \in Row
    BY <2>2
  <2>6. records' \in [1..Len(mark.copy) -> Row]
    BY <2>3, <2>4, <2>5
  <2>7. records' \in Seq(Row)
    BY <2>5, <2>6
  <2>8. FileTypes' /\ CommandTypes' /\ BudgetTypes'
    BY <1>0, <1>6, <2>2, <2>7 DEF MarkSave, FileTypes, CommandTypes, BudgetTypes
  <2> QED
    BY <1>6, <2>8, OutsideTyped DEF MarkSave
<1>7. CASE DeployEvaluate
  <2> DEFINE p == policies["deploy"]
             go == [at |-> "act", kind |-> "deploy", id |-> cmd.id, edited |-> cmd.edited,
                    argv |-> cmd.argv, why |-> Justified(p)]
  <2>1. cmd \in Evaluating
    BY <1>0, <1>7 DEF DeployEvaluate, CommandTypes, Acting, Idle
  <2>2. p \in AutomationPolicy
    BY <1>0 DEF FileTypes
  <2>3. go \in Acting
    BY <1>0, <2>1, <2>2, JustifiedType DEF Acting, Evaluating
  <2>4. Evaluated("deploy", p, DeployRefused(cmd.id, cmd.verdict, p), go)
    BY <1>7 DEF DeployEvaluate
  <2>5. cmd.id \in Reviews /\ log \in Seq(Entries)
    BY <1>0, <2>1 DEF Evaluating, FileTypes
  <2> HIDE DEF p, go
  <2>6. cmd' \in {Idle} \cup Acting /\ log' \in Seq(Entries)
    BY <2>3, <2>4, <2>5, EvaluatedType
  <2>7. FileTypes' /\ CommandTypes' /\ BudgetTypes'
    BY <1>0, <1>7, <2>6 DEF DeployEvaluate, FileTypes, CommandTypes, BudgetTypes
  <2> QED
    BY <1>7, <2>7, OutsideTyped DEF DeployEvaluate
<1>8. ASSUME NEW c \in Changes, MergeEvaluate(c) PROVE TypeOK'
  <2> DEFINE p == policies["merge"]
             go == [at |-> "act", kind |-> "merge", id |-> c, edited |-> FALSE,
                    argv |-> "merge", why |-> Justified(p)]
  <2>1. BudgetTypes'
    BY <1>0, <1>8, SpendType DEF MergeEvaluate, Events
  <2>2. p \in AutomationPolicy
    BY <1>0 DEF FileTypes
  <2>3. go \in Acting
    BY <1>0, <2>2, JustifiedType DEF Acting, Argv
  <2>4. PICK branch \in {"main", "none"} : Evaluated("merge", p, MergeRefused(c, branch, p), go)
    BY <1>8 DEF MergeEvaluate
  <2>5. log \in Seq(Entries)
    BY <1>0 DEF FileTypes
  <2> HIDE DEF p, go
  <2>6. cmd' \in {Idle} \cup Acting /\ log' \in Seq(Entries)
    BY <2>3, <2>4, <2>5, EvaluatedType
  <2>7. FileTypes' /\ CommandTypes'
    BY <1>0, <1>8, <2>6 DEF MergeEvaluate, FileTypes, CommandTypes
  <2> QED
    BY <1>8, <2>1, <2>7, OutsideTyped DEF MergeEvaluate
<1>9. CASE Act
  <2>1. cmd \in Acting
    BY <1>0, <1>9 DEF Act, CommandTypes, Evaluating, Idle
  <2>2. [cmd EXCEPT !.at = "log"] \in Acting
    BY <2>1 DEF Acting
  <2>3. CommandTypes'
    BY <1>0, <1>9, <2>1, <2>2 DEF Act, CommandTypes
  <2>4. FileTypes' /\ BudgetTypes'
    BY <1>0, <1>9 DEF Act, FileTypes, BudgetTypes
  <2> QED
    BY <1>9, <2>3, <2>4, OutsideTyped DEF Act
<1>10. CASE Record
  <2>1. cmd \in Acting
    BY <1>0, <1>10 DEF Record, CommandTypes, Evaluating, Idle
  <2>2. Entry(cmd.kind, TRUE) \in Entries
    BY <2>1 DEF Acting, Entry, Entries
  <2>3. log \in Seq(Entries) /\ log' = Append(log, Entry(cmd.kind, TRUE))
    BY <1>0, <1>10 DEF Record, FileTypes
  <2>4. log' \in Seq(Entries)
    BY <2>2, <2>3, AppendProperties
  <2>5. FileTypes' /\ BudgetTypes' /\ CommandTypes'
    BY <1>0, <1>10, <2>4 DEF Record, FileTypes, BudgetTypes, CommandTypes
  <2> QED
    BY <1>10, <2>5, OutsideTyped DEF Record
<1>11. CASE Killed
  <2>1. BudgetTypes'
    BY <1>0, <1>11, SpendType DEF Killed, Events
  <2>2. FileTypes' /\ CommandTypes'
    BY <1>0, <1>11 DEF Killed, FileTypes, CommandTypes
  <2> QED
    BY <1>11, <2>1, <2>2, OutsideTyped DEF Killed
<1>12. CASE Tick
  <2>1. FileTypes' /\ CommandTypes' /\ BudgetTypes'
    BY <1>0, <1>12 DEF Tick, FileTypes, CommandTypes, BudgetTypes
  <2> QED
    BY <1>12, <2>1, OutsideTyped DEF Tick
<1>13. ASSUME NEW k \in {"deploy", "merge"}, NEW p \in PolicyFiles, EditPolicy(k, p) PROVE TypeOK'
  <2>1. BudgetTypes'
    BY <1>0, <1>13, SpendType DEF EditPolicy, Events
  <2>2. cmd # Idle => [cmd EXCEPT !.edited = TRUE] \in Acting \cup Evaluating
    BY <1>0 DEF CommandTypes, Acting, Evaluating
  <2>3. CommandTypes'
    BY <1>0, <1>13, <2>2 DEF EditPolicy, CommandTypes
  <2>4. FileTypes'
    BY <1>0, <1>13 DEF EditPolicy, FileTypes
  <2> QED
    BY <1>13, <2>1, <2>3, <2>4, OutsideTyped DEF EditPolicy
<1>14. CASE UNCHANGED vars
  <2>1. FileTypes' /\ CommandTypes' /\ BudgetTypes' /\ UNCHANGED reviewVars
    BY <1>0, <1>14 DEF vars, FileTypes, CommandTypes, BudgetTypes
  <2> QED
    BY <2>1, OutsideTyped
<1> QED
  BY <1>1, <1>2, <1>3, <1>4, <1>5, <1>6, <1>7, <1>8, <1>9, <1>10, <1>11, <1>12, <1>13, <1>14,
     <1>15
  DEF Next

\* Every file, process and command keeps its type.
THEOREM TypeCorrect == Spec => []TypeOK
<1>1. Init => CheckInv
  BY DEF Init, CheckInv
<1> QED
  BY <1>1, InitTyped, NextTyped, NextCheck, PTL DEF Spec

-----------------------------------------------------------------------------
(* What a review cannot take back: its facts are fixed once it started,    *)
(* and what one of its scorings kept has been kept, whatever a later one   *)
(* keeps.                                                                  *)

Begun(r) == stored[r].next # "unstarted"

LEMMA ReviewsAreSteady ==
  ASSUME TypeOK, [Next]_vars, NEW r \in Reviews
  PROVE  /\ Begun(r) => Begun(r)' /\ facts'[r] = facts[r]
         /\ keeps[r] \subseteq keeps'[r]
<1>0. /\ stored \in [Reviews -> Stored] /\ facts \in [Reviews -> Facts]
      /\ keeps \in [Reviews -> SUBSET Kept] /\ \A p \in Procs : p[1] \in Reviews
  BY TypeParts, ReviewOfProc DEF ReviewTypes
<1>1. CASE UNCHANGED <<stored, facts, keeps>>
  BY <1>1 DEF Begun
<1>2. ASSUME NEW q \in Procs, StartReview(q) PROVE Begun(r) => Begun(r)' /\ facts'[r] = facts[r]
  BY <1>0, <1>2 DEF StartReview, Begun
<1>3. ASSUME NEW q \in Procs, NEW next \in Restarts \ {"unstarted"}, NEW k,
             Checkpoint(q[1], next, k)
      PROVE  Begun(r) => Begun(r)'
  BY <1>0, <1>3 DEF Checkpoint, Begun
<1>4. ASSUME NEW q \in Procs, ProbesAndVote(q) \/ WriteFinal(q)
      PROVE  (Begun(r) => Begun(r)') /\ UNCHANGED <<facts, keeps>>
  <2>1. PICK next \in Restarts \ {"unstarted"} : Checkpoint(q[1], next, kept[q])
    BY <1>4 DEF ProbesAndVote, Node, WriteFinal, Restarts
  <2> QED
    BY <1>3, <1>4, <2>1 DEF ProbesAndVote, Node, WriteFinal
<1>5. ASSUME NEW q \in Procs, ScoreNode(q)
      PROVE  (Begun(r) => Begun(r)') /\ UNCHANGED facts /\ keeps[r] \subseteq keeps'[r]
  <2>1. PICK k : Checkpoint(q[1], "finalize", k) /\ keeps' = [keeps EXCEPT ![q[1]] = @ \cup {k}]
    BY <1>5 DEF ScoreNode
  <2>2. "finalize" \in Restarts \ {"unstarted"}
    BY DEF Restarts
  <2> QED
    BY <1>0, <1>3, <1>5, <2>1, <2>2 DEF ScoreNode
<1>6. ASSUME NEW q \in Procs, StartReview(q) PROVE UNCHANGED keeps
  BY <1>6 DEF StartReview
<1> QED
  BY <1>1, <1>2, <1>4, <1>5, <1>6
  DEF Next, ReviewStep, WriteMeta, RecordLoad, RecordSave, Crash, RecoverCheck, RecoverLoad,
      DeployLoad, MarkLoad, MarkSave, DeployEvaluate, Act, Record, Killed, Tick, MergeEvaluate,
      EditPolicy, reviewVars, vars

-----------------------------------------------------------------------------
(* The track record and the final file.  Both say what some scoring of the *)
(* review recommended; so does every row a writer has in hand, and every   *)
(* process past its scoring holds what one of them kept.                   *)

Recommended(r, v) == \E k \in keeps[r] : v = Verdict(r, k)

SoundRows ==
  {x \in Row : Begun(x.id) /\ ~ facts[x.id].lint /\ Recommended(x.id, x.verdict)}

ProcScored(p) ==
  /\ pc[p] # "none" => Begun(p[1])
  /\ pc[p] \in {"finalize", "save", "final"} => kept[p] \in keeps[p[1]]
  /\ pc[p] = "save" => ~ facts[p[1]].lint

ReviewScored(r) ==
  /\ stored[r].next = "finalize" => stored[r].kept \in keeps[r]
  /\ final[r] # "none" => Recommended(r, final[r])
  /\ keeps[r] # {} => Begun(r)

ScoredInv == (\A p \in Procs : ProcScored(p)) /\ (\A r \in Reviews : ReviewScored(r))

RowsInv ==
  /\ records \in Seq(SoundRows)
  /\ \A p \in Procs : copy[p] \in Seq(SoundRows)
  /\ mark.at = "save" => mark.copy \in Seq(SoundRows)

\* What was recommended once was.
LEMMA RecommendedStays ==
  ASSUME TypeOK, [Next]_vars, NEW r \in Reviews, NEW v, Begun(r), Recommended(r, v)
  PROVE  Recommended(r, v)'
<1>1. PICK k \in keeps[r] : v = Verdict(r, k)
  BY DEF Recommended
<1>2. k \in keeps'[r] /\ facts'[r] = facts[r]
  BY ReviewsAreSteady
<1>3. v = Verdict(r, k)'
  BY <1>1, <1>2 DEF Verdict
<1> QED
  BY <1>2, <1>3 DEF Recommended

LEMMA SoundRowsStaySound == ASSUME TypeOK, [Next]_vars PROVE SoundRows \subseteq SoundRows'
<1> SUFFICES ASSUME NEW x \in SoundRows PROVE x \in SoundRows'
  OBVIOUS
<1>1. x \in Row /\ x.id \in Reviews /\ Begun(x.id) /\ ~ facts[x.id].lint
      /\ Recommended(x.id, x.verdict)
  BY DEF SoundRows, Row
<1>2. Begun(x.id)' /\ facts'[x.id] = facts[x.id]
  BY <1>1, ReviewsAreSteady
<1>3. Recommended(x.id, x.verdict)'
  BY <1>1, RecommendedStays
<1> QED
  BY <1>1, <1>2, <1>3 DEF SoundRows

\* A process that a step leaves alone keeps what it holds, and so does a review.
LEMMA ScoredStays ==
  ASSUME TypeOK, ScoredInv, [Next]_vars
  PROVE  /\ \A p \in Procs : pc'[p] = pc[p] /\ kept'[p] = kept[p] => ProcScored(p)'
         /\ \A r \in Reviews : stored'[r] = stored[r] /\ final'[r] = final[r]
                               /\ keeps'[r] = keeps[r] => ReviewScored(r)'
         /\ \A r \in Reviews : final'[r] = final[r] =>
                               (final[r] # "none" => Recommended(r, final[r]))'
<1>1. ASSUME NEW p \in Procs, pc'[p] = pc[p], kept'[p] = kept[p] PROVE ProcScored(p)'
  <2>1. p[1] \in Reviews /\ ProcScored(p)
    BY ReviewOfProc DEF ScoredInv
  <2> QED
    BY <1>1, <2>1, ReviewsAreSteady DEF ProcScored
<1>2. ASSUME NEW r \in Reviews, final'[r] = final[r]
      PROVE  (final[r] # "none" => Recommended(r, final[r]))'
  <2>1. ReviewScored(r) /\ (Recommended(r, final[r]) => keeps[r] # {})
    BY DEF ScoredInv, Recommended
  <2>2. PICK v : v = final[r]
    OBVIOUS
  <2>3. v # "none" => Recommended(r, v)'
    BY <2>1, <2>2, RecommendedStays DEF ReviewScored
  <2> QED
    BY <1>2, <2>2, <2>3 DEF Recommended
<1>3. ASSUME NEW r \in Reviews, stored'[r] = stored[r], final'[r] = final[r], keeps'[r] = keeps[r]
      PROVE  ReviewScored(r)'
  <2>1. ReviewScored(r)
    BY DEF ScoredInv
  <2>2. Begun(r)' <=> Begun(r)
    BY <1>3 DEF Begun
  <2> QED
    BY <1>2, <1>3, <2>1, <2>2 DEF ReviewScored
<1> QED
  BY <1>1, <1>2, <1>3

ProcStep(q) == ReviewStep(q) \/ Crash(q) \/ RecoverCheck(q) \/ RecoverLoad(q)

\* A process writes about itself and about its own review.
LEMMA StepsTouch ==
  ASSUME TypeOK, NEW q \in Procs, ProcStep(q)
  PROVE  /\ \A p \in Procs : p # q => pc'[p] = pc[p] /\ kept'[p] = kept[p]
         /\ \A r \in Reviews : r # q[1] => /\ stored'[r] = stored[r] /\ final'[r] = final[r]
                                           /\ keeps'[r] = keeps[r]
<1>0. /\ pc \in [Procs -> Places] /\ kept \in [Procs -> Kept] /\ stored \in [Reviews -> Stored]
      /\ final \in [Reviews -> DeployVerdict \cup {"none"}] /\ keeps \in [Reviews -> SUBSET Kept]
  BY TypeParts DEF ReviewTypes
<1>1. CASE StartReview(q) \/ WriteMeta(q) \/ RecordLoad(q) \/ RecordSave(q)
  BY <1>0, <1>1 DEF StartReview, WriteMeta, RecordLoad, RecordSave
<1>2. CASE ProbesAndVote(q)
  BY <1>0, <1>2 DEF ProbesAndVote, Node, Checkpoint
<1>3. CASE ScoreNode(q)
  <2>1. PICK k : /\ Checkpoint(q[1], "finalize", k) /\ kept' = [kept EXCEPT ![q] = k]
                 /\ keeps' = [keeps EXCEPT ![q[1]] = @ \cup {k}]
    BY <1>3 DEF ScoreNode
  <2> QED
    BY <1>0, <1>3, <2>1 DEF ScoreNode, Checkpoint
<1>4. CASE WriteFinal(q)
  BY <1>0, <1>4 DEF WriteFinal, Checkpoint, Exit
<1>5. CASE Crash(q) \/ RecoverCheck(q)
  BY <1>0, <1>5 DEF Crash, RecoverCheck, Exit
<1>6. CASE RecoverLoad(q)
  BY <1>0, <1>6 DEF RecoverLoad, Exit
<1> QED
  BY <1>1, <1>2, <1>3, <1>4, <1>5, <1>6 DEF ProcStep, ReviewStep

LEMMA NextScored == ASSUME TypeOK, ScoredInv, [Next]_vars PROVE ScoredInv'
<1>0. /\ pc \in [Procs -> Places] /\ kept \in [Procs -> Kept] /\ stored \in [Reviews -> Stored]
      /\ facts \in [Reviews -> Facts]
      /\ final \in [Reviews -> DeployVerdict \cup {"none"}] /\ keeps \in [Reviews -> SUBSET Kept]
      /\ \A p \in Procs : p[1] \in Reviews
  BY TypeParts, ReviewOfProc DEF ReviewTypes
<1>1. CASE UNCHANGED reviewVars
  <2>1. UNCHANGED <<pc, kept, stored, final, keeps>>
    BY <1>1 DEF reviewVars
  <2> QED
    BY <2>1, ScoredStays DEF ScoredInv
<1>2. ASSUME NEW q \in Procs, ProcStep(q) PROVE ScoredInv'
  <2> DEFINE r == q[1]
  <2>0. /\ r \in Reviews /\ ProcScored(q) /\ ReviewScored(r)
        /\ Begun(r) => Begun(r)' /\ facts'[r] = facts[r]
        /\ keeps[r] \subseteq keeps'[r]
        /\ final'[r] = final[r] => (final[r] # "none" => Recommended(r, final[r]))'
        /\ (keeps[r] # {} => Begun(r)')
    BY <1>0, ReviewsAreSteady, ScoredStays DEF ScoredInv, ReviewScored
  <2> SUFFICES ProcScored(q)' /\ ReviewScored(r)'
    <3>1. \A p \in Procs : p # q => ProcScored(p)'
      BY <1>2, StepsTouch, ScoredStays
    <3>2. \A s \in Reviews : s # r => ReviewScored(s)'
      BY <1>2, StepsTouch, ScoredStays
    <3> QED
      BY <3>1, <3>2 DEF ScoredInv
  <2>1. CASE StartReview(q)
    <3>1. ~ Begun(r) /\ stored'[r].next = "nothing" /\ pc'[q] = "built"
          /\ UNCHANGED <<final, keeps>>
      BY <1>0, <2>0, <2>1 DEF StartReview, Begun, Stored
    <3>2. keeps[r] = {} /\ final[r] = "none"
      BY <1>0, <2>0, <3>1 DEF ReviewScored, Recommended
    <3> QED
      BY <3>1, <3>2 DEF ProcScored, ReviewScored, Begun
  <2>2. CASE WriteMeta(q)
    <3>1. pc[q] = "built" /\ pc'[q] = "input" /\ UNCHANGED <<stored, final, keeps>>
      BY <1>0, <2>2 DEF WriteMeta
    <3> QED
      BY <2>0, <3>1 DEF ProcScored, ReviewScored
  <2>3. CASE ProbesAndVote(q)
    <3>1. PICK at \in {"input", "probes", "vote"}, next \in {"probes", "vote", "score"} :
            Node(q, at, next)
      BY <2>3 DEF ProbesAndVote
    <3>2. pc[q] # "none" /\ pc'[q] = next /\ UNCHANGED <<final, keeps>>
          /\ (stored'[r] = stored[r] \/ stored'[r].next = next)
      BY <1>0, <2>0, <3>1 DEF Node, Checkpoint
    <3> QED
      BY <2>0, <3>2 DEF ProcScored, ReviewScored
  <2>4. CASE ScoreNode(q)
    <3>1. PICK k : /\ Checkpoint(r, "finalize", k) /\ kept' = [kept EXCEPT ![q] = k]
                   /\ keeps' = [keeps EXCEPT ![r] = @ \cup {k}]
      BY <2>4 DEF ScoreNode
    <3>2. /\ pc[q] # "none" /\ pc'[q] = "finalize" /\ kept'[q] = k /\ k \in keeps'[r]
          /\ UNCHANGED final
          /\ stored'[r] = stored[r] \/ stored'[r].kept = k
      BY <1>0, <2>0, <2>4, <3>1 DEF ScoreNode, Checkpoint
    <3> QED
      BY <2>0, <3>2 DEF ProcScored, ReviewScored
  <2>5. CASE RecordLoad(q)
    <3>1. /\ pc[q] = "finalize" /\ UNCHANGED <<kept, stored, facts, final, keeps>>
          /\ pc'[q] = "final" \/ (pc'[q] = "save" /\ ~ facts[r].lint)
      BY <1>0, <2>0, <2>5 DEF RecordLoad
    <3> QED
      BY <2>0, <3>1 DEF ProcScored, ReviewScored
  <2>6. CASE RecordSave(q)
    <3>1. pc[q] = "save" /\ pc'[q] = "final" /\ UNCHANGED <<kept, stored, facts, final, keeps>>
      BY <1>0, <2>0, <2>6 DEF RecordSave
    <3> QED
      BY <2>0, <3>1 DEF ProcScored, ReviewScored
  <2>7. CASE WriteFinal(q)
    <3>1. /\ pc[q] = "final" /\ pc'[q] = "none" /\ UNCHANGED <<facts, keeps>>
          /\ stored'[r] = stored[r] \/ stored'[r].next = "done"
          /\ final'[r] = final[r] \/ final'[r] = Verdict(r, kept[q])
      BY <1>0, <2>0, <2>7 DEF WriteFinal, Checkpoint, Exit
    <3>2. kept[q] \in keeps[r]
      BY <2>0, <3>1 DEF ProcScored
    <3>3. final'[r] = Verdict(r, kept[q]) => Recommended(r, final[r])'
      BY <3>1, <3>2 DEF Recommended, Verdict
    <3> QED
      BY <2>0, <3>1, <3>3 DEF ProcScored, ReviewScored
  <2>8. CASE Crash(q)
    <3>1. pc'[q] = "none" /\ UNCHANGED <<stored, final, keeps>>
      BY <1>0, <2>8 DEF Crash, Exit
    <3> QED
      BY <2>0, <3>1 DEF ProcScored, ReviewScored
  <2>9. CASE RecoverCheck(q)
    <3>1. pc'[q] = "check" /\ UNCHANGED <<stored, final, keeps>> /\ Begun(r)
      BY <1>0, <2>9 DEF RecoverCheck, Begun
    <3> QED
      BY <2>0, <3>1 DEF ProcScored, ReviewScored
  <2>10. CASE RecoverLoad(q)
    <3>1. /\ pc[q] = "check" /\ UNCHANGED <<stored, final, keeps>>
          /\ \/ pc'[q] = "none"
             \/ pc'[q] = stored[r].next /\ kept'[q] = stored[r].kept
      BY <1>0, <2>10 DEF RecoverLoad, Exit
    <3>2. stored[r].next \notin {"save", "final"}
      BY <1>0, <2>0 DEF Stored, Restarts
    <3> QED
      BY <2>0, <3>1, <3>2 DEF ProcScored, ReviewScored
  <2> QED
    BY <1>2, <2>1, <2>2, <2>3, <2>4, <2>5, <2>6, <2>7, <2>8, <2>9, <2>10 DEF ProcStep, ReviewStep
<1> QED
  BY <1>1, <1>2
  DEF Next, ProcStep, DeployLoad, MarkLoad, MarkSave, DeployEvaluate, Act, Record, Killed, Tick,
      MergeEvaluate, EditPolicy, vars

LEMMA NextRows == ASSUME TypeOK, ScoredInv, RowsInv, [Next]_vars PROVE RowsInv'
<1>0. ReviewTypes /\ FileTypes
  BY TypeParts
<1>1. SoundRows \subseteq SoundRows'
  BY SoundRowsStaySound
<1>2. \A q \in Seq(SoundRows) : q \in Seq(SoundRows')
  BY <1>1, SeqMonotonic
<1>3. CASE UNCHANGED <<records, copy, mark>>
  BY <1>2, <1>3 DEF RowsInv
<1>4. ASSUME NEW p \in Procs, RecordLoad(p) PROVE RowsInv'
  <2>1. UNCHANGED <<records, mark>> /\ (copy' = copy \/ copy' = [copy EXCEPT ![p] = records])
    BY <1>4 DEF RecordLoad, outside
  <2>2. \A q \in Procs : copy'[q] \in Seq(SoundRows)
    BY <1>0, <2>1 DEF RowsInv, ReviewTypes
  <2> QED
    BY <1>2, <2>1, <2>2 DEF RowsInv
<1>8. ASSUME NEW p \in Procs, Exit(p), UNCHANGED <<records, mark>> PROVE RowsInv'
  <2>1. <<>> \in Seq(SoundRows)
    BY EmptySeq
  <2>2. \A q \in Procs : copy'[q] \in Seq(SoundRows)
    BY <1>0, <1>8, <2>1 DEF RowsInv, ReviewTypes, Exit
  <2> QED
    BY <1>2, <1>8, <2>2 DEF RowsInv
<1>9. ASSUME NEW p \in Procs, WriteFinal(p) \/ Crash(p) \/ RecoverLoad(p) PROVE RowsInv'
  <2>1. UNCHANGED <<records, mark>> /\ (Exit(p) \/ UNCHANGED copy)
    BY <1>9 DEF WriteFinal, Crash, RecoverLoad, outside
  <2> QED
    BY <1>3, <1>8, <2>1
<1>5. ASSUME NEW p \in Procs, RecordSave(p) PROVE RowsInv'
  <2> DEFINE row == [id |-> p[1], verdict |-> Verdict(p[1], kept[p]), outcome |-> "none"]
  <2>1. p[1] \in Reviews /\ ~ facts[p[1]].lint /\ kept[p] \in keeps[p[1]] /\ Begun(p[1])
    BY <1>5, ReviewOfProc DEF RecordSave, ScoredInv, ProcScored
  <2>2. row \in Row /\ row.id = p[1] /\ row.verdict = Verdict(p[1], kept[p])
    BY <2>1, VerdictType DEF Row
  <2>3. row \in SoundRows
    BY <2>1, <2>2 DEF SoundRows, Recommended
  <2>4. records' = Append(copy[p], row) /\ copy' = [copy EXCEPT ![p] = <<>>] /\ UNCHANGED mark
    BY <1>5 DEF RecordSave, outside
  <2> HIDE DEF row
  <2>5. records' \in Seq(SoundRows) /\ <<>> \in Seq(SoundRows)
    BY <2>3, <2>4, AppendProperties, EmptySeq DEF RowsInv
  <2>6. \A q \in Procs : copy'[q] \in Seq(SoundRows)
    BY <1>0, <2>4, <2>5 DEF RowsInv, ReviewTypes
  <2> QED
    BY <1>2, <2>4, <2>5, <2>6 DEF RowsInv
<1>6. ASSUME NEW r \in Reviews, NEW o \in Outcomes, MarkLoad(r, o) PROVE RowsInv'
  <2>1. mark'.copy = records /\ UNCHANGED <<records, copy>>
    BY <1>6 DEF MarkLoad, reviewVars
  <2> QED
    BY <1>2, <2>1 DEF RowsInv
<1>7. CASE MarkSave
  <2>1. mark.copy \in Seq(SoundRows) /\ mark.id \in Reviews /\ mark.outcome \in Outcomes
    BY <1>0, <1>7 DEF MarkSave, RowsInv, FileTypes, Marking, Idle
  <2> DEFINE AfterMark(x) == IF x.id = mark.id THEN [x EXCEPT !.outcome = mark.outcome] ELSE x
  <2>2. ASSUME NEW x \in SoundRows PROVE AfterMark(x) \in SoundRows
    <3>1. x \in Row
      BY DEF SoundRows
    <3>2. AfterMark(x) \in Row /\ AfterMark(x).id = x.id /\ AfterMark(x).verdict = x.verdict
      BY <2>1, <3>1 DEF Row
    <3> HIDE DEF AfterMark
    <3> QED
      BY <3>2 DEF SoundRows
  <2>3. records' = [i \in DOMAIN mark.copy |-> AfterMark(mark.copy[i])] /\ UNCHANGED copy
        /\ mark' = Idle
    BY <1>7 DEF MarkSave, reviewVars
  <2> HIDE DEF AfterMark
  <2>4. /\ DOMAIN mark.copy = 1..Len(mark.copy) /\ Len(mark.copy) \in Nat
        /\ \A i \in 1..Len(mark.copy) : mark.copy[i] \in SoundRows
    BY <2>1
  <2>5. records' \in [1..Len(mark.copy) -> SoundRows]
    BY <2>2, <2>3, <2>4
  <2>6. records' \in Seq(SoundRows)
    BY <2>4, <2>5
  <2>7. mark'.at = "idle"
    BY <2>3 DEF Idle
  <2> QED
    BY <1>2, <2>3, <2>6, <2>7 DEF RowsInv
<1> QED
  BY <1>3, <1>4, <1>5, <1>6, <1>7, <1>9
  DEF Next, ReviewStep, StartReview, WriteMeta, ProbesAndVote, Node, ScoreNode, RecoverCheck,
      DeployLoad, DeployEvaluate, Act, Record, Killed, Tick, MergeEvaluate, EditPolicy,
      outside, reviewVars, vars

LEMMA AlwaysScored == Spec => [](TypeOK /\ ScoredInv /\ RowsInv)
<1>0. Init => CheckInv
  BY DEF Init, CheckInv
<1>1. Init => ScoredInv /\ RowsInv
  <2> SUFFICES ASSUME Init PROVE ScoredInv /\ RowsInv
    OBVIOUS
  <2>1. ScoredInv
    BY ReviewOfProc DEF Init, ScoredInv, ProcScored, ReviewScored
  <2>2. records = <<>> /\ mark.at = "idle" /\ \A p \in Procs : copy[p] = <<>>
    BY DEF Init, Idle
  <2>3. <<>> \in Seq(SoundRows)
    BY EmptySeq
  <2>4. RowsInv
    BY <2>2, <2>3 DEF RowsInv
  <2> QED
    BY <2>1, <2>4
<1> QED
  BY <1>0, <1>1, InitTyped, NextTyped, NextCheck, NextScored, NextRows, PTL DEF Spec

\* A degraded run promotes nothing and is not recorded; a review whose scorings
\* agree is recorded with the verdict of its final file.
THEOREM RecordAgreesWithFinal == Spec => []RecordMatchesFinal
<1>1. TypeOK /\ ScoredInv /\ RowsInv => RecordMatchesFinal
  <2> SUFFICES ASSUME TypeOK, ScoredInv, RowsInv, NEW r \in Reviews
               PROVE  /\ facts[r].lint => final[r] # "PROMOTE" /\ ~IsRecorded(r)
                      /\ final[r] # "none" /\ ScoredAlike(r) =>
                           \A i \in DOMAIN records :
                             records[i].id = r => records[i].verdict = final[r]
    BY DEF RecordMatchesFinal
  <2>1. \A i \in DOMAIN records : records[i] \in SoundRows
    BY DEF RowsInv
  <2>2. \A i \in DOMAIN records : records[i].id = r =>
          ~ facts[r].lint /\ Recommended(r, records[i].verdict)
    BY <2>1 DEF SoundRows
  <2>3. final[r] # "none" => Recommended(r, final[r])
    BY DEF ScoredInv, ReviewScored
  <2>4. facts[r].lint => final[r] # "PROMOTE"
    BY <2>3 DEF Recommended, Verdict
  <2>5. ASSUME NEW v, NEW w, Recommended(r, v), Recommended(r, w), ScoredAlike(r) PROVE v = w
    BY <2>5 DEF Recommended, ScoredAlike
  <2> QED
    BY <2>2, <2>3, <2>4, <2>5 DEF IsRecorded
<1> QED
  BY <1>1, AlwaysScored, PTL

-----------------------------------------------------------------------------
(* The human's marks.  Unless two writers overlapped, the one that is      *)
(* about to save holds what the file holds.                                *)

MarksInv ==
  ~ raced =>
    /\ \A i \in DOMAIN records : records[i].outcome = said[records[i].id]
    /\ \A i, j \in DOMAIN records : records[i].id = records[j].id => i = j
    /\ \A p \in Procs : pc[p] = "final" /\ ~ facts[p[1]].lint => IsRecorded(p[1])
    /\ \A r \in Reviews : final[r] # "none" /\ ~ facts[r].lint => IsRecorded(r)
    /\ \A p \in Procs : pc[p] = "save" =>
         /\ copy[p] = records /\ ~ IsRecorded(p[1]) /\ mark.at # "save"
         /\ \A q \in Procs : pc[q] = "save" => q = p
    /\ mark.at = "save" => mark.copy = records /\ IsRecorded(mark.id)
    /\ \A r \in Reviews : ~ IsRecorded(r) => said[r] = "none"

\* A step that touches neither the file nor a writer, and finishes no review.
LEMMA MarksKept ==
  ASSUME MarksInv, UNCHANGED <<records, mark, said, raced>>,
         \A p \in Procs : /\ pc'[p] = "save" => pc[p] = "save" /\ copy'[p] = copy[p]
                          /\ pc'[p] = "final" =>
                               pc[p] = "final" /\ facts'[p[1]] = facts[p[1]],
         \A r \in Reviews : final'[r] # "none" =>
                              /\ facts'[r] = facts[r]
                              /\ \/ final[r] # "none"
                                 \/ \E p \in Procs : p[1] = r /\ pc[p] = "final"
  PROVE  MarksInv'
BY DEF MarksInv, IsRecorded

LEMMA NextMarks == ASSUME TypeOK, ScoredInv, MarksInv, [Next]_vars PROVE MarksInv'
<1>0. /\ pc \in [Procs -> Places] /\ stored \in [Reviews -> Stored]
      /\ facts \in [Reviews -> Facts] /\ copy \in [Procs -> Seq(Row)] /\ records \in Seq(Row)
      /\ final \in [Reviews -> DeployVerdict \cup {"none"}]
      /\ mark \in {Idle} \cup Marking /\ said \in [Reviews -> Outcomes \cup {"none"}]
      /\ \A p \in Procs : p[1] \in Reviews
  BY TypeParts, ReviewOfProc DEF ReviewTypes, FileTypes
<1>1. CASE UNCHANGED <<reviewVars, records, mark, said, raced>>
  BY <1>1, MarksKept DEF reviewVars
<1>7. \A p \in Procs : pc[p] # "none" => facts'[p[1]] = facts[p[1]]
  BY <1>0, ReviewsAreSteady DEF ScoredInv, ProcScored
<1>8. \A r \in Reviews : final[r] # "none" => facts'[r] = facts[r]
  BY ReviewsAreSteady DEF ScoredInv, ReviewScored, Recommended
<1>2. ASSUME NEW p \in Procs,
             StartReview(p) \/ WriteMeta(p) \/ ProbesAndVote(p) \/ ScoreNode(p) \/ WriteFinal(p)
             \/ Crash(p) \/ RecoverCheck(p) \/ RecoverLoad(p)
      PROVE  MarksInv'
  <2>1. UNCHANGED <<records, mark, said, raced>>
    BY <1>2 DEF StartReview, WriteMeta, ProbesAndVote, Node, ScoreNode, WriteFinal, Crash,
                RecoverCheck, RecoverLoad, outside
  <2>2. \A q \in Procs : /\ pc'[q] = "save" => pc[q] = "save" /\ copy'[q] = copy[q]
                         /\ pc'[q] = "final" => pc[q] = "final"
    <3>1. CASE StartReview(p) \/ WriteMeta(p) \/ RecoverCheck(p)
      BY <1>0, <3>1 DEF StartReview, WriteMeta, RecoverCheck
    <3>2. CASE WriteFinal(p) \/ Crash(p)
      BY <1>0, <3>2 DEF WriteFinal, Crash, Exit
    <3>3. CASE ProbesAndVote(p) \/ ScoreNode(p)
      BY <1>0, <3>3 DEF ProbesAndVote, Node, ScoreNode
    <3>4. CASE RecoverLoad(p)
      <4>1. stored[p[1]].next \notin {"save", "final"}
        BY <1>0 DEF Stored, Restarts
      <4> QED
        BY <1>0, <3>4, <4>1 DEF RecoverLoad, Exit
    <3> QED
      BY <1>2, <3>1, <3>2, <3>3, <3>4
  <2>3. \A r \in Reviews : final'[r] # "none" =>
                             \/ final[r] # "none"
                             \/ p[1] = r /\ pc[p] = "final"
    <3>1. CASE UNCHANGED final
      BY <3>1
    <3>2. CASE WriteFinal(p)
      BY <1>0, <3>2 DEF WriteFinal
    <3> QED
      BY <1>2, <3>1, <3>2 DEF StartReview, WriteMeta, ProbesAndVote, Node, ScoreNode, Crash,
                              RecoverCheck, RecoverLoad
  <2>4. \A q \in Procs : pc'[q] = "final" => pc[q] = "final" /\ facts'[q[1]] = facts[q[1]]
    BY <1>7, <2>2
  <2>5. \A r \in Reviews : final'[r] # "none" =>
          /\ facts'[r] = facts[r]
          /\ \/ final[r] # "none"
             \/ \E q \in Procs : q[1] = r /\ pc[q] = "final"
    BY <1>7, <1>8, <2>3
  <2> QED
    BY <2>1, <2>2, <2>4, <2>5, MarksKept
<1>3. ASSUME NEW p \in Procs, RecordLoad(p) PROVE MarksInv'
  <2> SUFFICES ASSUME ~ raced' PROVE MarksInv'
    BY DEF MarksInv
  <2>1. UNCHANGED <<records, mark, said, facts, final>>
    BY <1>3 DEF RecordLoad, outside
  <2>2. CASE facts[p[1]].lint \/ IsRecorded(p[1])
    <3>1. ~ raced /\ copy' = copy /\ pc' = [pc EXCEPT ![p] = "final"]
      BY <1>3, <2>2 DEF RecordLoad
    <3> QED
      BY <1>0, <2>1, <2>2, <3>1 DEF MarksInv, IsRecorded
  <2>3. CASE ~ (facts[p[1]].lint \/ IsRecorded(p[1]))
    <3>1. /\ pc' = [pc EXCEPT ![p] = "save"] /\ copy' = [copy EXCEPT ![p] = records]
          /\ raced' = (raced \/ Writing)
      BY <1>3, <2>3 DEF RecordLoad
    <3>2. ~ raced /\ ~ Writing
      BY <3>1
    <3>3. mark.at # "save" /\ \A q \in Procs : pc[q] # "save"
      BY <3>2 DEF Writing
    <3>4. \A q \in Procs : pc'[q] = "save" => q = p
      BY <1>0, <3>1, <3>3
    <3>5. copy'[p] = records
      BY <1>0, <3>1
    <3>6. \A q \in Procs : pc'[q] = "final" => pc[q] = "final"
      BY <1>0, <3>1
    <3> QED
      BY <2>1, <2>3, <3>2, <3>3, <3>4, <3>5, <3>6 DEF MarksInv, IsRecorded
  <2> QED
    BY <2>2, <2>3
<1>4. ASSUME NEW p \in Procs, RecordSave(p) PROVE MarksInv'
  <2> SUFFICES ASSUME ~ raced' PROVE MarksInv'
    BY DEF MarksInv
  <2> DEFINE r == p[1]
             row == [id |-> r, verdict |-> Verdict(r, kept[p]), outcome |-> "none"]
  <2>0. r \in Reviews
    BY <1>0
  <2>1. pc[p] = "save" /\ ~ raced /\ UNCHANGED <<mark, said, facts, final>>
        /\ records' = Append(copy[p], row) /\ pc' = [pc EXCEPT ![p] = "final"]
    BY <1>4 DEF RecordSave, outside
  <2>2. copy[p] = records /\ ~ IsRecorded(r) /\ mark.at # "save" /\ said[r] = "none"
    BY <2>0, <2>1 DEF MarksInv
  <2>3. \A q \in Procs : pc'[q] # "save"
    BY <1>0, <2>1 DEF MarksInv
  <2>4. row \in Row /\ row.id = r /\ row.outcome = "none"
    BY <2>0, VerdictType DEF Row
  <2> HIDE DEF row
  <2>5. /\ Len(records) \in Nat /\ DOMAIN records = 1..Len(records)
        /\ DOMAIN records' = 1..Len(records) + 1
        /\ records'[Len(records) + 1] = row
        /\ \A i \in DOMAIN records : records'[i] = records[i]
    BY <1>0, <2>1, <2>2, <2>4, AppendProperties
  <2>6. \A q \in Reviews : IsRecorded(q)' <=> IsRecorded(q) \/ q = r
    BY <2>4, <2>5 DEF IsRecorded
  <2>7. \A i \in DOMAIN records' : records'[i].outcome = said'[records'[i].id]
    <3> SUFFICES ASSUME NEW i \in DOMAIN records'
                 PROVE  records'[i].outcome = said'[records'[i].id]
      OBVIOUS
    <3>1. CASE i = Len(records) + 1
      BY <2>1, <2>2, <2>4, <2>5, <3>1
    <3>2. CASE i \in DOMAIN records
      BY <2>1, <2>5, <3>2 DEF MarksInv
    <3> QED
      BY <2>5, <3>1, <3>2
  <2>8. \A i, j \in DOMAIN records' : records'[i].id = records'[j].id => i = j
    <3>1. \A i \in DOMAIN records : records'[i].id # r
      BY <2>2, <2>5 DEF IsRecorded
    <3>2. \A i \in DOMAIN records' : i = Len(records) + 1 \/ i \in DOMAIN records
      BY <2>5
    <3>3. \A i, j \in DOMAIN records : records'[i].id = records'[j].id => i = j
      BY <2>1, <2>5 DEF MarksInv
    <3> QED
      BY <2>4, <2>5, <3>1, <3>2, <3>3
  <2>9. \A q \in Procs : pc'[q] = "final" => q = p \/ pc[q] = "final"
    BY <1>0, <2>1
  <2>10. /\ \A q \in Procs : pc'[q] = "final" /\ ~ facts'[q[1]].lint => IsRecorded(q[1])'
         /\ \A s \in Reviews : final'[s] # "none" /\ ~ facts'[s].lint => IsRecorded(s)'
    BY <1>0, <2>1, <2>6, <2>9 DEF MarksInv
  <2>11. \A q \in Reviews : ~ IsRecorded(q)' => said'[q] = "none"
    BY <2>1, <2>6 DEF MarksInv
  <2> QED
    BY <2>1, <2>2, <2>3, <2>7, <2>8, <2>10, <2>11 DEF MarksInv
<1>5. ASSUME NEW r \in Reviews, NEW o \in Outcomes, MarkLoad(r, o) PROVE MarksInv'
  <2> SUFFICES ASSUME ~ raced' PROVE MarksInv'
    BY DEF MarksInv
  <2>1. /\ UNCHANGED <<records, said, facts, copy, pc, final>> /\ raced' = (raced \/ Writing)
        /\ IsRecorded(r) /\ mark'.copy = records /\ mark'.id = r
    BY <1>5 DEF MarkLoad, reviewVars
  <2>2. ~ raced /\ ~ Writing
    BY <2>1
  <2>3. \A q \in Procs : pc[q] # "save"
    BY <2>2 DEF Writing
  <2>4. IsRecorded(mark'.id)
    BY <2>1
  <2> QED
    BY <2>1, <2>2, <2>3, <2>4 DEF MarksInv, IsRecorded
<1>6. CASE MarkSave
  <2> SUFFICES ASSUME ~ raced' PROVE MarksInv'
    BY DEF MarksInv
  <2>1. ~ raced /\ mark.at = "save" /\ UNCHANGED <<pc, facts, copy, final>> /\ mark' = Idle
        /\ said' = [said EXCEPT ![mark.id] = mark.outcome]
    BY <1>6 DEF MarkSave, reviewVars
  <2>2. mark.id \in Reviews /\ mark.outcome \in Outcomes
    BY <1>0, <2>1 DEF Marking, Idle
  <2>3. mark.copy = records /\ IsRecorded(mark.id) /\ \A q \in Procs : pc[q] # "save"
    BY <2>1 DEF MarksInv
  <2>4. records' = [i \in DOMAIN records |->
          IF records[i].id = mark.id THEN [records[i] EXCEPT !.outcome = mark.outcome]
                                     ELSE records[i]]
    BY <1>6, <2>3 DEF MarkSave
  <2>5. \A i \in DOMAIN records : records[i] \in Row
    BY <1>0
  <2>6. ASSUME NEW i \in DOMAIN records
        PROVE  /\ records'[i].id = records[i].id
               /\ records'[i].outcome = IF records[i].id = mark.id THEN mark.outcome
                                        ELSE records[i].outcome
    BY <2>4, <2>5 DEF Row
  <2>7. DOMAIN records' = DOMAIN records
    BY <2>4
  <2>8. \A i \in DOMAIN records : records[i].id \in Reviews
    BY <2>5 DEF Row
  <2>9. \A q : IsRecorded(q)' <=> IsRecorded(q)
    BY <2>6, <2>7 DEF IsRecorded
  <2>10. \A i \in DOMAIN records' : records'[i].outcome = said'[records'[i].id]
    BY <1>0, <2>1, <2>2, <2>6, <2>7, <2>8 DEF MarksInv
  <2>11. \A i, j \in DOMAIN records' : records'[i].id = records'[j].id => i = j
    BY <2>1, <2>6, <2>7 DEF MarksInv
  <2>12. \A q \in Reviews : ~ IsRecorded(q)' => said'[q] = "none"
    BY <1>0, <2>1, <2>2, <2>3, <2>9 DEF MarksInv
  <2>13. /\ \A q \in Procs : pc'[q] = "final" /\ ~ facts'[q[1]].lint => IsRecorded(q[1])'
         /\ \A s \in Reviews : final'[s] # "none" /\ ~ facts'[s].lint => IsRecorded(s)'
    BY <2>1, <2>9 DEF MarksInv
  <2>14. mark'.at = "idle" /\ \A q \in Procs : pc'[q] # "save"
    BY <2>1, <2>3 DEF Idle
  <2> QED
    BY <2>10, <2>11, <2>12, <2>13, <2>14 DEF MarksInv
<1> QED
  BY <1>1, <1>2, <1>3, <1>4, <1>5, <1>6
  DEF Next, ReviewStep, DeployLoad, DeployEvaluate, Act, Record, Killed, Tick, MergeEvaluate,
      EditPolicy, reviewVars, vars

LEMMA AlwaysMarked == Spec => []MarksInv
<1>1. Init => MarksInv
  <2> SUFFICES ASSUME Init PROVE MarksInv
    OBVIOUS
  <2>1. /\ DOMAIN records = {} /\ mark.at = "idle" /\ (\A p \in Procs : pc[p] = "none")
        /\ \A r \in Reviews : final[r] = "none"
        /\ \A r \in Reviews : said[r] = "none"
    BY DEF Init, Idle
  <2> QED
    BY <2>1 DEF MarksInv
<1> QED
  BY <1>1, AlwaysScored, NextMarks, PTL DEF Spec

\* No mark is lost and no review recorded twice, unless two writers overlapped.
THEOREM MarksAreKept == Spec => []MarksSurvive
<1>1. MarksInv => MarksSurvive
  BY DEF MarksInv, MarksSurvive
<1> QED
  BY <1>1, AlwaysMarked, PTL

-----------------------------------------------------------------------------
(* Acting.  What justified a command when it was evaluated is fixed: facts *)
(* do not change, and a final file that is replaced says what it said      *)
(* unless the review was scored to another effect in between.              *)

Stands(F, G, K, a) ==
  LET p == a.why.policy
  IN  /\ p.enabled /\ p.sound /\ p.expires >= a.why.on
      /\ a.kind = "deploy" => /\ a.id \in Reviews /\ F[a.id] # "none" /\ ~ G[a.id].lint
                              /\ (\A k, l \in K[a.id] : k = l) => F[a.id] = "PROMOTE"
                              /\ a.edited \/ a.argv = p.command
      /\ a.kind = "merge" => /\ a.id.verdict = "APPROVE"
                             /\ p.gate => a.id.test = "passed"
                             /\ a.id.escalated => ~ a.id.issue

\* What a deploy command read of its review.
Read(F, G, K, c) ==
  /\ c.id \in Reviews /\ F[c.id] # "none"
  /\ (\A k, l \in K[c.id] : k = l) => F[c.id] = c.verdict
  /\ c.verdict = "PROMOTE" => ~ G[c.id].lint

ActInv ==
  /\ \A i \in DOMAIN acted : Stands(final, facts, keeps, acted[i])
  /\ cmd.at \in {"act", "log"} => Stands(final, facts, keeps, cmd)
  /\ cmd.at = "evaluate" => /\ cmd.edited \/ cmd.argv = policies["deploy"].command
                            /\ Read(final, facts, keeps, cmd)

LEMMA FinalStays ==
  ASSUME TypeOK, ScoredInv, ScoredInv', [Next]_vars, NEW r \in Reviews, final[r] # "none"
  PROVE  /\ final'[r] # "none" /\ facts'[r] = facts[r] /\ keeps[r] \subseteq keeps'[r]
         /\ (\A k, l \in keeps'[r] : k = l) =>
              (\A k, l \in keeps[r] : k = l) /\ final'[r] = final[r]
<1>1. Begun(r) /\ Recommended(r, final[r])
  BY DEF ScoredInv, ReviewScored, Recommended
<1>2. facts'[r] = facts[r] /\ keeps[r] \subseteq keeps'[r]
  BY <1>1, ReviewsAreSteady
<1>3. final'[r] # "none"
  <2>1. \A p \in Procs : WriteFinal(p) => final'[r] # "none"
    <3>1. final \in [Reviews -> DeployVerdict \cup {"none"}] /\ "none" \notin DeployVerdict
      BY TypeParts DEF ReviewTypes, DeployVerdict
    <3>2. \A p \in Procs : p[1] \in Reviews /\ Verdict(p[1], kept[p]) \in DeployVerdict
      BY ReviewOfProc, VerdictType
    <3> QED
      BY <3>1, <3>2 DEF WriteFinal
  <2> QED
    BY <2>1
    DEF Next, ReviewStep, StartReview, WriteMeta, ProbesAndVote, Node, ScoreNode, RecordLoad,
        RecordSave, Crash, RecoverCheck, RecoverLoad, DeployLoad, MarkLoad, MarkSave,
        DeployEvaluate, Act, Record, Killed, Tick, MergeEvaluate, EditPolicy, reviewVars, vars
<1>4. Recommended(r, final[r])'
  BY <1>3 DEF ScoredInv, ReviewScored
<1>5. PICK k \in keeps[r] : final[r] = Verdict(r, k)
  BY <1>1 DEF Recommended
<1>6. \E l \in keeps'[r] : final'[r] = Verdict(r, l)'
  BY <1>4 DEF Recommended
<1>7. k \in keeps'[r] /\ Verdict(r, k)' = Verdict(r, k)
  BY <1>2 DEF Verdict
<1>8. ASSUME \A m, l \in keeps'[r] : m = l PROVE final'[r] = final[r]
  <2>1. PICK l \in keeps'[r] : final'[r] = Verdict(r, l)'
    BY <1>6
  <2>2. l = k
    BY <1>7, <1>8, <2>1
  <2>3. final'[r] = Verdict(r, k)
    BY <1>2, <2>1, <2>2 DEF Verdict
  <2> QED
    BY <1>5, <2>3
<1> QED
  BY <1>2, <1>3, <1>8

LEMMA StandingStays ==
  ASSUME TypeOK, ScoredInv, ScoredInv', [Next]_vars, NEW a
  PROVE  /\ Stands(final, facts, keeps, a) => Stands(final', facts', keeps', a)
         /\ Read(final, facts, keeps, a) => Read(final', facts', keeps', a)
<1>1. ASSUME a.id \in Reviews, final[a.id] # "none"
      PROVE  /\ final'[a.id] # "none" /\ facts'[a.id] = facts[a.id]
             /\ (\A k, l \in keeps'[a.id] : k = l) =>
                  (\A k, l \in keeps[a.id] : k = l) /\ final'[a.id] = final[a.id]
  BY <1>1, FinalStays
<1> QED
  BY <1>1 DEF Stands, Read

LEMMA NextAct == ASSUME TypeOK, ScoredInv, ScoredInv', ActInv, [Next]_vars PROVE ActInv'
<1>0. /\ cmd \in {Idle} \cup Acting \cup Evaluating /\ acted \in Seq(Acting)
      /\ policies \in [{"deploy", "merge"} -> AutomationPolicy]
  BY TypeParts DEF CommandTypes, FileTypes
<1>1. \A a : Stands(final, facts, keeps, a) => Stands(final', facts', keeps', a)
  BY StandingStays
<1>11. \A c : Read(final, facts, keeps, c) => Read(final', facts', keeps', c)
  BY StandingStays
<1>2. UNCHANGED acted => \A i \in DOMAIN acted' : Stands(final', facts', keeps', acted'[i])
  BY <1>1 DEF ActInv
<1>3. CASE UNCHANGED <<cmd, policies, acted>>
  BY <1>1, <1>11, <1>2, <1>3 DEF ActInv
<1>4. CASE UNCHANGED acted /\ cmd' = Idle
  BY <1>2, <1>4 DEF ActInv, Idle
<1>5. ASSUME NEW r \in Reviews, DeployLoad(r) PROVE ActInv'
  <2>1. CASE cmd' = Idle
    BY <1>4, <1>5, <2>1 DEF DeployLoad
  <2>2. CASE cmd' = [at |-> "evaluate", kind |-> "deploy", id |-> r, verdict |-> final[r],
                     edited |-> FALSE, argv |-> policies["deploy"].command]
    <3>1. /\ cmd'.at = "evaluate" /\ cmd'.id = r /\ cmd'.verdict = final[r]
          /\ cmd'.argv = policies["deploy"].command /\ UNCHANGED <<acted, policies>>
          /\ final[r] # "none"
      BY <1>5, <2>2 DEF DeployLoad
    <3>2. final[r] = "PROMOTE" => ~ facts[r].lint
      BY DEF ScoredInv, ReviewScored, Recommended, Verdict
    <3>3. Read(final, facts, keeps, cmd')
      BY <3>1, <3>2 DEF Read
    <3> QED
      BY <1>11, <1>2, <3>1, <3>3 DEF ActInv
  <2> QED
    BY <1>5, <2>1, <2>2 DEF DeployLoad
<1>6. CASE DeployEvaluate
  <2> DEFINE p == policies["deploy"]
             go == [at |-> "act", kind |-> "deploy", id |-> cmd.id, edited |-> cmd.edited,
                    argv |-> cmd.argv, why |-> Justified(p)]
  <2>1. cmd.at = "evaluate" /\ UNCHANGED <<acted, policies>>
        /\ Evaluated("deploy", p, DeployRefused(cmd.id, cmd.verdict, p), go)
    BY <1>6 DEF DeployEvaluate
  <2>2. cmd' = Idle \/ (cmd' = go /\ Loaded(p) = "armed" /\ ~ DeployRefused(cmd.id, cmd.verdict, p))
    BY <2>1 DEF Evaluated
  <2>3. CASE cmd' = go /\ Loaded(p) = "armed" /\ ~ DeployRefused(cmd.id, cmd.verdict, p)
    <3>1. Read(final, facts, keeps, cmd)
      BY <2>1 DEF ActInv
    <3>2. p.enabled /\ p.sound /\ p.expires >= day
      BY <2>3 DEF Loaded
    <3>3. cmd.verdict = "PROMOTE"
      BY <2>3 DEF DeployRefused
    <3>5. cmd.edited \/ cmd.argv = p.command
      BY <2>1 DEF ActInv
    <3>6. go.why.policy = p /\ go.why.on = day /\ go.kind = "deploy" /\ go.id = cmd.id
          /\ go.edited = cmd.edited /\ go.argv = cmd.argv /\ go.at = "act"
      BY DEF Justified
    <3> HIDE DEF p, go
    <3>7. Stands(final, facts, keeps, go)
      BY <3>1, <3>2, <3>3, <3>5, <3>6 DEF Stands, Read
    <3> QED
      BY <1>1, <1>2, <2>1, <2>3, <3>6, <3>7 DEF ActInv
  <2> QED
    BY <1>4, <2>1, <2>2, <2>3
<1>7. ASSUME NEW c \in Changes, MergeEvaluate(c) PROVE ActInv'
  <2> DEFINE p == policies["merge"]
             go == [at |-> "act", kind |-> "merge", id |-> c, edited |-> FALSE,
                    argv |-> "merge", why |-> Justified(p)]
  <2>1. UNCHANGED <<acted, policies>>
    BY <1>7 DEF MergeEvaluate
  <2>2. PICK branch \in {"main", "none"} : Evaluated("merge", p, MergeRefused(c, branch, p), go)
    BY <1>7 DEF MergeEvaluate
  <2>3. cmd' = Idle \/ (cmd' = go /\ Loaded(p) = "armed" /\ ~ MergeRefused(c, branch, p))
    BY <2>2 DEF Evaluated
  <2>4. CASE cmd' = go /\ Loaded(p) = "armed" /\ ~ MergeRefused(c, branch, p)
    <3>1. p.enabled /\ p.sound /\ p.expires >= day
      BY <2>4 DEF Loaded
    <3>2. c.verdict = "APPROVE" /\ ~ c.issue /\ (p.gate => c.test = "passed")
      BY <2>4 DEF MergeRefused
    <3>3. go.why.policy = p /\ go.why.on = day /\ go.kind = "merge" /\ go.id = c /\ go.at = "act"
      BY DEF Justified
    <3> HIDE DEF p, go
    <3>4. Stands(final, facts, keeps, go)
      BY <3>1, <3>2, <3>3 DEF Stands
    <3> QED
      BY <1>1, <1>2, <2>1, <2>4, <3>3, <3>4 DEF ActInv
  <2> QED
    BY <1>4, <2>1, <2>3, <2>4
<1>8. CASE Act
  <2>1. cmd \in Acting /\ Stands(final, facts, keeps, cmd) /\ acted' = Append(acted, cmd)
    BY <1>0, <1>8 DEF Act, ActInv, Idle, Evaluating
  <2>2. \A i \in DOMAIN acted' : Stands(final, facts, keeps, acted'[i])
    <3>1. \A i \in DOMAIN acted' : acted'[i] = cmd \/ (i \in DOMAIN acted /\ acted'[i] = acted[i])
      BY <1>0, <2>1, AppendProperties
    <3> QED
      BY <2>1, <3>1 DEF ActInv
  <2>3. \A i \in DOMAIN acted' : Stands(final', facts', keeps', acted'[i])
    BY <1>1, <2>2
  <2>4. CASE cmd' = Idle
    BY <2>3, <2>4 DEF ActInv, Idle
  <2>5. CASE cmd' = [cmd EXCEPT !.at = "log"]
    <3>1. /\ cmd'.at = "log" /\ cmd'.kind = cmd.kind /\ cmd'.id = cmd.id /\ cmd'.why = cmd.why
          /\ cmd'.edited = cmd.edited /\ cmd'.argv = cmd.argv
      BY <2>1, <2>5 DEF Acting
    <3>2. Stands(final, facts, keeps, cmd')
      BY <2>1, <3>1 DEF Stands
    <3> QED
      BY <1>1, <2>3, <3>1, <3>2 DEF ActInv
  <2> QED
    BY <1>8, <2>4, <2>5 DEF Act
<1>9. ASSUME NEW k \in {"deploy", "merge"}, NEW p \in PolicyFiles, EditPolicy(k, p) PROVE ActInv'
  <2>1. UNCHANGED acted
    BY <1>9 DEF EditPolicy
  <2>2. CASE cmd = Idle
    BY <1>4, <1>9, <2>1, <2>2 DEF EditPolicy
  <2>3. CASE cmd # Idle
    <3>1. cmd' = [cmd EXCEPT !.edited = TRUE] /\ cmd \in Acting \cup Evaluating
      BY <1>0, <1>9, <2>3 DEF EditPolicy
    <3>2. CASE cmd \in Evaluating
      <4>1. /\ cmd.at = "evaluate" /\ cmd'.at = "evaluate" /\ cmd'.edited
            /\ cmd'.id = cmd.id /\ cmd'.verdict = cmd.verdict
        BY <3>1, <3>2 DEF Evaluating
      <4>2. Read(final, facts, keeps, cmd')
        BY <4>1 DEF Read, ActInv
      <4> QED
        BY <1>1, <1>11, <1>2, <2>1, <4>1, <4>2 DEF ActInv
    <3>3. CASE cmd \in Acting
      <4>1. /\ cmd'.at = cmd.at /\ cmd'.kind = cmd.kind /\ cmd'.id = cmd.id /\ cmd'.why = cmd.why
            /\ cmd'.edited /\ cmd'.argv = cmd.argv /\ cmd.at \in {"act", "log"}
        BY <3>1, <3>3 DEF Acting
      <4>2. Stands(final, facts, keeps, cmd')
        BY <4>1 DEF Stands, ActInv
      <4> QED
        BY <1>1, <1>11, <1>2, <2>1, <4>1, <4>2 DEF ActInv
    <3> QED
      BY <3>1, <3>2, <3>3
  <2> QED
    BY <2>2, <2>3
<1>10. CASE Record \/ Killed
  BY <1>4, <1>10 DEF Record, Killed
<1> QED
  BY <1>3, <1>5, <1>6, <1>7, <1>8, <1>9, <1>10
  DEF Next, ReviewStep, StartReview, WriteMeta, ProbesAndVote, Node, ScoreNode, RecordLoad,
      RecordSave, WriteFinal, Crash, RecoverCheck, RecoverLoad, MarkLoad, MarkSave, Tick, outside, reviewVars, vars

\* Nothing is deployed or merged but on a policy in force and on a verdict that
\* still stands, unless the review was scored anew to another effect.
THEOREM ActionsStand == Spec => []ActionsStandOnRecord
<1>1. Init => ActInv
  BY DEF Init, ActInv, Idle
<1>2. ActInv => ActionsStandOnRecord
  BY DEF ActInv, Stands, ActionsStandOnRecord, ScoredAlike
<1>3. Spec => []ActInv
  BY <1>1, AlwaysScored, NextAct, PTL DEF Spec
<1> QED
  BY <1>2, <1>3, PTL

-----------------------------------------------------------------------------
(* Trust.  The streak is counted on what the file says; as long as no two  *)
(* writers overlapped, that is what the human said.                        *)

LEMMA StreakType == ASSUME TypeOK PROVE Streak \in Nat
<1>1. records \in Seq(Row)
  BY TypeParts DEF FileTypes
<1>2. DOMAIN records = 1..Len(records) /\ Len(records) \in Nat
  BY <1>1
<1>3. IsFiniteSet(1..Len(records))
  BY <1>2, FS_Interval
<1>4. IsFiniteSet({i \in Marked : \A j \in Marked : j >= i => records[j].outcome = "correct"})
  BY <1>2, <1>3, FS_Subset DEF Marked
<1> QED
  BY <1>4, FS_CardinalityType DEF Streak

LEMMA StreakIsDeserved ==
  ASSUME MarksInv, ~ raced, NEW n, Streak >= n PROVE Deserved(n)
<1> DEFINE judged == {i \in DOMAIN records :
                        records[i].verdict = "PROMOTE" /\ said[records[i].id] # "none"}
           right == {i \in Marked : \A j \in Marked : j >= i => records[j].outcome = "correct"}
<1>1. \A i \in DOMAIN records : records[i].outcome = said[records[i].id]
  BY DEF MarksInv
<1>2. judged = Marked
  BY <1>1 DEF Marked
<1>3. right \in SUBSET judged /\ Cardinality(right) >= n
  BY <1>2 DEF Streak
<1>4. \A i \in right, j \in judged : j >= i => said[records[j].id] = "correct"
  BY <1>1, <1>2
<1> QED
  BY <1>3, <1>4 DEF Deserved

TrustInv ==
  /\ TrustIsEarned
  /\ cmd.at \in {"act", "log"} => cmd.why.deserved \/ cmd.why.raced

LEMMA NextTrust == ASSUME TypeOK, MarksInv, TrustInv, [Next]_vars PROVE TrustInv'
<1>0. /\ cmd \in {Idle} \cup Acting \cup Evaluating /\ acted \in Seq(Acting)
      /\ raced \in BOOLEAN /\ policies \in [{"deploy", "merge"} -> AutomationPolicy]
  BY TypeParts DEF CommandTypes, FileTypes
<1>1. CASE UNCHANGED acted /\ (UNCHANGED cmd \/ cmd'.at \notin {"act", "log"})
  BY <1>1 DEF TrustInv, TrustIsEarned
<1>2. ASSUME NEW p, Streak >= p.needed
      PROVE  Justified(p).deserved \/ Justified(p).raced
  BY <1>2, StreakIsDeserved DEF Justified
<1>3. CASE DeployEvaluate
  <2> DEFINE p == policies["deploy"]
             go == [at |-> "act", kind |-> "deploy", id |-> cmd.id, edited |-> cmd.edited,
                    argv |-> cmd.argv, why |-> Justified(p)]
  <2>1. UNCHANGED acted /\ Evaluated("deploy", p, DeployRefused(cmd.id, cmd.verdict, p), go)
    BY <1>3 DEF DeployEvaluate
  <2>2. cmd' = Idle \/ (cmd' = go /\ ~ DeployRefused(cmd.id, cmd.verdict, p))
    BY <2>1 DEF Evaluated
  <2>3. CASE cmd' = go /\ ~ DeployRefused(cmd.id, cmd.verdict, p)
    <3>1. ~ (Streak < p.needed)
      BY <2>3 DEF DeployRefused
    <3>2. Streak >= p.needed
      BY <1>0, <3>1, StreakType DEF AutomationPolicy
    <3> QED
      BY <1>2, <2>1, <2>3, <3>2 DEF TrustInv, TrustIsEarned
  <2> QED
    BY <1>1, <2>1, <2>2, <2>3 DEF Idle
<1>4. ASSUME NEW c \in Changes, MergeEvaluate(c) PROVE TrustInv'
  <2> DEFINE p == policies["merge"]
             go == [at |-> "act", kind |-> "merge", id |-> c, edited |-> FALSE,
                    argv |-> "merge", why |-> Justified(p)]
  <2>1. UNCHANGED acted
    BY <1>4 DEF MergeEvaluate
  <2>2. PICK branch \in {"main", "none"} : Evaluated("merge", p, MergeRefused(c, branch, p), go)
    BY <1>4 DEF MergeEvaluate
  <2>3. cmd' = Idle \/ (cmd' = go /\ ~ MergeRefused(c, branch, p))
    BY <2>2 DEF Evaluated
  <2>4. CASE cmd' = go /\ ~ MergeRefused(c, branch, p)
    <3>1. p.needed \in Nat
      BY <1>0 DEF AutomationPolicy
    <3>2. ~ (Streak < p.needed)
      BY <2>4 DEF MergeRefused
    <3>3. Streak >= p.needed
      BY <3>1, <3>2, StreakType
    <3> QED
      BY <1>2, <2>1, <2>4, <3>3 DEF TrustInv, TrustIsEarned
  <2>5. CASE cmd' = Idle
    BY <1>1, <2>1, <2>5 DEF Idle
  <2> QED
    BY <2>3, <2>4, <2>5
<1>5. CASE Act
  <2>1. cmd \in Acting /\ acted' = Append(acted, cmd) /\ (cmd.why.deserved \/ cmd.why.raced)
    BY <1>0, <1>5 DEF Act, TrustInv, Idle, Evaluating
  <2>2. \A i \in DOMAIN acted' : acted'[i] = cmd \/ (i \in DOMAIN acted /\ acted'[i] = acted[i])
    BY <1>0, <2>1, AppendProperties
  <2>3. cmd'.at = "idle" \/ cmd'.why = cmd.why
    BY <1>5, <2>1 DEF Act, Idle, Acting
  <2> QED
    BY <2>1, <2>2, <2>3 DEF TrustInv, TrustIsEarned
<1>6. ASSUME NEW k \in {"deploy", "merge"}, NEW p \in PolicyFiles, EditPolicy(k, p) PROVE TrustInv'
  <2>1. cmd # Idle => cmd \in Acting \cup Evaluating
    BY <1>0
  <2>2. UNCHANGED acted /\ (cmd' = cmd \/ (cmd # Idle /\ cmd' = [cmd EXCEPT !.edited = TRUE]))
    BY <1>6 DEF EditPolicy
  <2>3. cmd'.at \in {"act", "log"} => cmd.at \in {"act", "log"} /\ cmd'.why = cmd.why
    BY <2>1, <2>2 DEF Acting, Evaluating
  <2> QED
    BY <2>2, <2>3 DEF TrustInv, TrustIsEarned
<1>7. CASE Record \/ Killed
  <2>1. UNCHANGED acted /\ cmd' = Idle
    BY <1>7 DEF Record, Killed
  <2> QED
    BY <1>1, <2>1 DEF Idle
<1>8. ASSUME NEW r \in Reviews, DeployLoad(r) PROVE TrustInv'
  BY <1>1, <1>8 DEF DeployLoad, Idle
<1> QED
  BY <1>1, <1>3, <1>4, <1>5, <1>6, <1>7, <1>8
  DEF Next, ReviewStep, StartReview, WriteMeta, ProbesAndVote, Node, ScoreNode, RecordLoad,
      RecordSave, WriteFinal, Crash, RecoverCheck, RecoverLoad, MarkLoad, MarkSave, Tick, outside, reviewVars, vars

\* Nothing is done unattended that the human's own marks do not bear out, unless
\* two writers of the track record overlapped.
THEOREM TrustMustBeEarned == Spec => []TrustIsEarned
<1>1. Init => TrustInv
  BY DEF Init, TrustInv, TrustIsEarned, Idle
<1>2. TrustInv => TrustIsEarned
  BY DEF TrustInv
<1>3. Spec => []TrustInv
  BY <1>1, AlwaysScored, AlwaysMarked, NextTrust, PTL DEF Spec
<1> QED
  BY <1>2, <1>3, PTL
=============================================================================
